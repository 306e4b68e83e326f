----------------------------- MODULE AgentLoop -----------------------------
(***************************************************************************)
(* The plan-act-observe loop and what it leaves in the session's thread    *)
(* (repo_claude/core/loop.py, context.py, the thread side of runner.py and *)
(* of session/store.py, compact/compactor.py as the loop calls it).        *)
(*                                                                         *)
(* The runs of one session follow one another (SessionManager shows that   *)
(* they do not overlap); each reads the history, extends its own copy step *)
(* by step and appends what it added to thread.jsonl at the end.  Messages *)
(* are reduced to what decides whether the LLM accepts them: the tool_use  *)
(* and tool_result ids they carry.                                         *)
(***************************************************************************)
EXTENDS Naturals, Sequences, FiniteSets

CONSTANTS
    MaxRuns,      \* runs of the session (bounds the model)
    max_steps,    \* config.agent.max_steps
    MaxCalls,     \* tool calls in one response (bounds the model)
    MaxStray      \* calls under another stop reason (bounds the model)

ASSUME LoopAssumption ==
    /\ MaxRuns \in Nat \ {0}
    /\ max_steps \in Nat \ {0}
    /\ MaxCalls \in Nat
    /\ MaxStray \in Nat

\* tool_use ids are unique: the n-th call of a step of a run.
Ids == (1..MaxRuns) \X (1..max_steps) \X (1..MaxCalls)

Messages == [role : {"user", "assistant"}, run : 0..MaxRuns,
             uses : SUBSET Ids, results : SUBSET Ids]

Text(role, r) ==
    [role |-> role, run |-> r, uses |-> {}, results |-> {}]
UserMessage(r) == Text("user", r)
Assistant(r, ids) == [Text("assistant", r) EXCEPT !.uses = ids]
Results(r, ids) == [Text("user", r) EXCEPT !.results = ids]

VARIABLES
    thread,    \* thread.jsonl
    run,       \* the current run, or the last one
    pc,        \* where the run stands
    messages,  \* context.messages
    prefill,   \* prefill_len
    step,      \* context.step
    status,    \* context.status
    todo,      \* the tool calls of this step that have no result yet
    compacted, \* history: the runs whose context was compacted
    stray      \* history: the tool_use ids that came with a stop reason for
               \* which the loop neither calls tools nor adds results

vars == <<thread, run, pc, messages, prefill, step, status, todo, compacted,
          stray>>
store == <<thread, run, prefill>>
history == <<compacted, stray>>

TypeOK ==
    /\ thread \in Seq(Messages)
    /\ run \in 0..MaxRuns
    /\ pc \in {"idle", "planning", "acting", "compacting", "wrapping",
               "finishing"}
    /\ messages \in Seq(Messages)
    /\ prefill \in Nat
    /\ step \in 0..max_steps
    /\ status \in {"running", "success", "failed"}
    /\ todo \in Seq(Ids)
    /\ compacted \subseteq 1..MaxRuns
    /\ stray \subseteq Ids

Init ==
    /\ thread = <<>>
    /\ run = 0
    /\ pc = "idle"
    /\ messages = <<>>
    /\ prefill = 0
    /\ step = 0
    /\ status = "running"
    /\ todo = <<>>
    /\ compacted = {}
    /\ stray = {}

(***************************************************************************)
(* _trim_orphan_tool_use: the longest beginning of the thread after which  *)
(* no tool_use waits for its result.  Nothing is cut when none waits at    *)
(* the end.                                                                *)
(***************************************************************************)
Used(q, k)     == UNION {q[i].uses : i \in 1..k}
Answered(q, k) == UNION {q[i].results : i \in 1..k}
Balanced(q, k) == Used(q, k) \subseteq Answered(q, k)

Trim(q) ==
    LET ends == {k \in 0..Len(q) : Balanced(q, k)} IN
    SubSeq(q, 1, CHOOSE k \in ends : \A j \in ends : j <= k)

\* The next iteration of the while loop, up to the LLM's answer.
NextStep ==
    /\ step' = step + 1
    /\ pc' = "planning"

\* Mutant: prefill_len counts the messages that were trimmed away too.
StartRun_UntrimmedPrefill ==
    /\ pc = "idle" /\ run < MaxRuns
    /\ run' = run + 1
    /\ thread' = Append(thread, UserMessage(run'))
    /\ prefill' = Len(thread')
    /\ messages' = Trim(thread')
    /\ step' = 1
    /\ status' = "running"
    /\ pc' = "planning"
    /\ UNCHANGED <<todo, history>>

\* A message arrives: it is appended, the run reads the history back and
\* copies it into its context (the goal alone when there is none).
StartRun ==
    /\ pc = "idle" /\ run < MaxRuns
    /\ run' = run + 1
    /\ thread' = Append(thread, UserMessage(run'))
    /\ prefill' = Len(Trim(thread'))
    /\ messages' = IF prefill' = 0 THEN <<UserMessage(run')>> ELSE Trim(thread')
    /\ step' = 1
    /\ status' = "running"
    /\ pc' = "planning"
    /\ UNCHANGED <<todo, history>>

\* Mutant: running out of tokens counts as an answer.
EndStep_CutIsSuccess(stop) ==
    /\ status' = IF stop \in {"end_turn", "max_tokens"} THEN "success"
                 ELSE IF step >= max_steps THEN "failed" ELSE status
    /\ pc' = "wrapping"

\* The termination check that ends a step, and whether the context is now
\* compacted (context_pct reached the threshold) before step.finished is out.
EndStep(stop) ==
    /\ status' = IF stop = "end_turn" THEN "success"
                 ELSE IF step >= max_steps THEN "failed" ELSE status
    /\ \/ pc' = "wrapping"
       \/ /\ stop = "tool_use" /\ status' = "running"
          /\ pc' = "compacting"

CallIds(n) == {<<run, step, i>> : i \in 1..n}
Observed(ids) == Append(messages, Assistant(run, ids))

\* The LLM answers without asking for tools: its turn is over, it ran out of
\* tokens, it stopped for a reason the loop does not know, or it says that it
\* wants tools and names none.
AnswerText(stop) ==
    /\ pc = "planning"
    /\ messages' = Observed({})
    /\ EndStep(stop)
    /\ UNCHANGED <<store, step, todo, history>>

\* It names n tools and stops for another reason than to have them called: the
\* calls are appended, and nothing ever answers them.
AnswerStray(stop, n) ==
    /\ pc = "planning" /\ Cardinality(stray) + n <= MaxStray
    /\ messages' = Observed(CallIds(n))
    /\ stray' = stray \cup CallIds(n)
    /\ EndStep(stop)
    /\ UNCHANGED <<store, step, todo, compacted>>

\* It asks for n tools, which the loop is going to call one after another.
AnswerTools(n) ==
    /\ pc = "planning"
    /\ messages' = Observed(CallIds(n))
    /\ todo' = [i \in 1..n |-> <<run, step, i>>]
    /\ pc' = "acting"
    /\ UNCHANGED <<store, step, status, history>>

\* Mutant: no synthetic results.
AnswerCut_NoResults(n) ==
    /\ pc = "planning"
    /\ messages' = Observed(CallIds(n))
    /\ EndStep("max_tokens")
    /\ UNCHANGED <<store, step, todo, history>>

\* It ran out of tokens amid n tool calls: each gets a synthetic error result.
AnswerCut(n) ==
    /\ pc = "planning"
    /\ messages' = Observed(CallIds(n)) \o <<Results(run, CallIds(n))>>
    /\ EndStep("max_tokens")
    /\ UNCHANGED <<store, step, todo, history>>

\* provider.chat raised: the loop is left without step.finished.
ChatFails ==
    /\ pc = "planning"
    /\ status' = "failed"
    /\ pc' = "finishing"
    /\ UNCHANGED <<store, messages, step, todo, history>>

\* add_tool_result: results of one step share a message.
AddResult(id) ==
    LET last == messages[Len(messages)] IN
    IF last.role = "user" /\ last.results # {}
    THEN [messages EXCEPT ![Len(messages)].results = @ \cup {id}]
    ELSE Append(messages, Results(run, {id}))

\* invoke_tool returned (it raises nothing but CancelledError).
ToolDone ==
    /\ pc = "acting"
    /\ messages' = AddResult(Head(todo))
    /\ todo' = Tail(todo)
    /\ IF todo' = <<>> THEN EndStep("tool_use") ELSE UNCHANGED <<pc, status>>
    /\ UNCHANGED <<store, step, history>>

Summary == <<UserMessage(0), Text("assistant", 0)>>

\* Compactor.compact replaces the context, or leaves it when the LLM failed
\* or returned no text.
CompactContext ==
    /\ pc = "compacting"
    /\ \/ messages' = Summary /\ compacted' = compacted \cup {run}
       \/ UNCHANGED <<messages, compacted>>
    /\ pc' = "wrapping"
    /\ UNCHANGED <<store, step, status, todo, stray>>

\* step.finished is out.
Wrapped ==
    /\ pc = "wrapping"
    /\ IF status = "running" THEN NextStep
                             ELSE pc' = "finishing" /\ UNCHANGED step
    /\ UNCHANGED <<store, messages, status, todo, history>>

\* CancelledError anywhere in the loop; the runner marks the context failed
\* unless it is done already, and publishes run.finished.
Cancel ==
    /\ pc \in {"planning", "acting", "compacting", "wrapping"}
    /\ status' = IF status = "running" THEN "failed" ELSE status
    /\ todo' = <<>>
    /\ pc' = "finishing"
    /\ UNCHANGED <<store, messages, step, history>>

EndRun ==
    /\ pc' = "idle"
    /\ UNCHANGED <<run, messages, prefill, step, status, todo, history>>

\* run.finished is out: what the run added goes to the thread ...
FinishRun ==
    /\ pc = "finishing"
    /\ thread' = thread \o SubSeq(messages, prefill + 1, Len(messages))
    /\ EndRun

\* ... unless the task is cancelled while it publishes the event.
CancelFinish ==
    /\ pc = "finishing"
    /\ EndRun
    /\ UNCHANGED thread

\* session.truncate between two runs: any timestamp, so any prefix.
Truncate(k) ==
    /\ pc = "idle"
    /\ thread' = SubSeq(thread, 1, k)
    /\ UNCHANGED <<run, pc, messages, prefill, step, status, todo, history>>

Next ==
    \/ StartRun
    \/ \E stop \in {"end_turn", "max_tokens", "tool_use", "other"} :
          AnswerText(stop)
    \/ \E n \in 1..MaxCalls : AnswerTools(n) \/ AnswerCut(n)
    \/ \E stop \in {"end_turn", "other"}, n \in 1..MaxCalls :
          AnswerStray(stop, n)
    \/ ChatFails
    \/ ToolDone
    \/ CompactContext
    \/ Wrapped
    \/ Cancel
    \/ FinishRun
    \/ CancelFinish
    \/ \E k \in 0..Len(thread) : Truncate(k)

Spec == Init /\ [][Next]_vars
-----------------------------------------------------------------------------
\* Every call the loop took up is answered in the very next message, and every
\* tool_result answers the message before it.
Paired(q) ==
    \A i \in 1..Len(q) :
        /\ q[i].uses \subseteq stray \/ (i < Len(q) /\ q[i].uses = q[i + 1].results)
        /\ q[i].results # {} => i > 1 /\ q[i].results = q[i - 1].uses

StrayIn(q) == Used(q, Len(q)) \cap stray

\* Whatever was cancelled, cut off or truncated before, the messages sent to
\* the LLM pair every tool_use with its tool_result (read_messages, the
\* synthetic results of max_tokens, add_tool_result), but for the calls that
\* came with another stop reason (loop.py:89, 100): those stand unanswered in
\* the later requests of their own run, and in no request of a later one.  No
\* run of the session has been compacted so far.
RequestsArePaired ==
    pc = "planning" /\ compacted = {} =>
        /\ Paired(messages)
        /\ \A id \in StrayIn(messages) : id[1] = run

\* read_messages returns messages that can be passed to the LLM as they are
\* (store.py:80).  Refuted once a run was compacted: behind a summary
\* messages[prefill_len:] starts amid a tool_use and its result.
CompactedRunsStayPaired ==
    pc = "planning" => Paired(messages)

\* The loop calls the LLM at most max_steps times, and a run that the LLM did
\* not end and nobody cancelled ends as failed: it is never left running.
StepBudget ==
    /\ step <= max_steps
    /\ pc = "finishing" => status # "running"
    /\ pc = "planning" => status = "running"

\* A run counts as a success only if the LLM's own message is its last one, and
\* every call the loop took up, whole or cut off, has its result in what the run
\* will append; calls that came along with end_turn have none.
SuccessIsAnAnswer ==
    status = "success" /\ pc \in {"wrapping", "finishing"} =>
        /\ messages[Len(messages)].role = "assistant"
        /\ Used(messages, Len(messages)) \subseteq
              Answered(messages, Len(messages)) \cup stray

\* The context of a run is the thread it read plus what it added: nothing
\* that was in the thread is rewritten or reordered by a run (ExecutionContext
\* copies the history), so a run only ever appends.
ContextExtendsHistory ==
    pc # "idle" /\ run \notin compacted =>
        /\ Len(messages) >= prefill
        /\ SubSeq(messages, 1, prefill) = Trim(thread)
=============================================================================
