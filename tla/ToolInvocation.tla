--------------------------- MODULE ToolInvocation ---------------------------
(***************************************************************************)
(* One tool call from the LLM's request to the ToolResult                  *)
(* (repo_claude/core/tools/invocation.py, tools/builtin/bash.py): look the *)
(* tool up, validate, ask the gate, run the tool under wait_for, retry.    *)
(*                                                                         *)
(* The gate is composed in by its abstract specification, Approval, which  *)
(* PermissionManager implements.  What bash leaves behind, a child process *)
(* that may outlive its call, is part of the state.                        *)
(***************************************************************************)
EXTENDS Naturals, Sequences

CONSTANTS
    Calls,       \* the tool calls of all runs
    MaxRetries,  \* _MAX_RETRIES
    Allow, Refuse, NoAnswer   \* the answers of the gate

ASSUME InvocationAssumption ==
    /\ MaxRetries \in Nat
    /\ Allow \cap Refuse = {}

Requested == {"unknown_tool", "bad_params", "bash", "in_process"}
Classes   == {"runtime_error", "rate_limited", "schema_error", "timeout",
              "permission_denied"}
Retryable == {"runtime_error", "rate_limited"}
Events    == [type : {"started", "granted", "denied", "failed", "finished"},
              class : Classes \cup {"none"}, attempt : Nat]

VARIABLES
    pc,        \* where each invoke_tool stands
    request,   \* what the call asks for; fixed in Init
    gated,     \* the calls with a permission_manager; fixed in Init
    attempt,   \* how often the tool was started
    log,       \* the events published for the call
    outcome,   \* what the call is about to return: "ok" or an error class
    result,    \* the ToolResult that was returned
    procs,     \* child processes of the call that are alive
    status, answer  \* the gate

vars == <<pc, request, gated, attempt, log, outcome, result, procs, status, answer>>
input == <<request, gated>>
gate == <<status, answer>>
ends == <<outcome, result>>

Gate == INSTANCE Approval

PCs == {"idle", "announcing", "asking", "granting", "denying", "running",
        "backing_off", "closing", "returned", "cancelled"}

TypeOK ==
    /\ pc \in [Calls -> PCs]
    /\ request \in [Calls -> Requested]
    /\ gated \subseteq Calls
    /\ attempt \in [Calls -> 0..(MaxRetries + 1)]
    /\ log \in [Calls -> Seq(Events)]
    /\ outcome \in [Calls -> Classes \cup {"none", "ok"}]
    /\ result \in [Calls -> Classes \cup {"none", "ok"}]
    /\ procs \in [Calls -> Nat]
    /\ status \in [Calls -> {"idle", "open", "allowed", "refused", "abandoned"}]
    /\ answer \in [Calls -> Allow \cup Refuse \cup {NoAnswer}]

Init ==
    /\ pc = [c \in Calls |-> "idle"]
    /\ request \in [Calls -> Requested]
    /\ gated \in SUBSET Calls
    /\ attempt = [c \in Calls |-> 0]
    /\ log = [c \in Calls |-> <<>>]
    /\ outcome = [c \in Calls |-> "none"]
    /\ result = [c \in Calls |-> "none"]
    /\ procs = [c \in Calls |-> 0]
    /\ Gate!AInit

Event(type, class, n) == [type |-> type, class |-> class, attempt |-> n]
Publish(c, e) == log' = [log EXCEPT ![c] = Append(@, e)]
Goto(c, p)    == pc' = [pc EXCEPT ![c] = p]

\* Mutant: the attempt is not passed on, and _fail's default of 1 is published.
Fail_ForgetsAttempt(c, class, n) ==
    /\ Goto(c, "closing")
    /\ Publish(c, Event("failed", class, 1))
    /\ outcome' = [outcome EXCEPT ![c] = class]
    /\ UNCHANGED result

\* _fail: tool.call_failed is published; the error is returned when it is out.
Fail(c, class, n) ==
    /\ Goto(c, "closing")
    /\ Publish(c, Event("failed", class, n))
    /\ outcome' = [outcome EXCEPT ![c] = class]
    /\ UNCHANGED result

\* tool.invoke is started; bash spawns a process first thing.
StartTool(c) ==
    /\ Goto(c, "running")
    /\ attempt' = [attempt EXCEPT ![c] = @ + 1]
    /\ procs' = [procs EXCEPT ![c] = IF request[c] = "bash" THEN @ + 1 ELSE @]

Invoke(c) ==
    /\ pc[c] = "idle"
    /\ Goto(c, "announcing")
    /\ Publish(c, Event("started", "none", 0))
    /\ UNCHANGED <<input, attempt, ends, procs, gate>>

\* Mutant: an unknown tool is not noticed.
Reject_SchemaOnly(c) ==
    /\ pc[c] = "announcing"
    /\ request[c] = "bad_params"
    /\ Fail(c, "schema_error", 1)
    /\ UNCHANGED <<input, attempt, procs, gate>>

\* tool.call_started is out: an unknown tool and bad parameters fail.
Reject(c) ==
    /\ pc[c] = "announcing"
    /\ \/ request[c] = "unknown_tool" /\ Fail(c, "runtime_error", 1)
       \/ request[c] = "bad_params" /\ Fail(c, "schema_error", 1)
    /\ UNCHANGED <<input, attempt, procs, gate>>

Proceeds(c) == pc[c] = "announcing" /\ request[c] \in {"bash", "in_process"}

Ungated(c) ==
    /\ Proceeds(c) /\ c \notin gated
    /\ StartTool(c)
    /\ UNCHANGED <<input, log, ends, gate>>

\* check_and_wait decides without asking: auto_allow and auto_deny are not
\* announced as permission events ...
AutoDecided(c) ==
    /\ Proceeds(c) /\ c \in gated
    /\ Gate!Settle(c)
    /\ \/ /\ status'[c] = "allowed"
          /\ StartTool(c)
          /\ UNCHANGED <<log, ends>>
       \/ /\ status'[c] = "refused"
          /\ Fail(c, "permission_denied", 1)
          /\ UNCHANGED <<attempt, procs>>
    /\ UNCHANGED input

\* ... or asks the user.
Ask(c) ==
    /\ Proceeds(c) /\ c \in gated
    /\ Gate!Open(c)
    /\ Goto(c, "asking")
    /\ UNCHANGED <<input, attempt, log, ends, procs>>

\* The user answers, or somebody answers for a call that is over.
Answer(c, d) ==
    /\ Gate!AnswerAll({c}, d)
    /\ UNCHANGED <<pc, input, attempt, log, ends, procs>>

Granted(c) ==
    /\ pc[c] = "asking"
    /\ Gate!Grant(c)
    /\ Goto(c, "granting")
    /\ Publish(c, Event("granted", "none", 0))
    /\ UNCHANGED <<input, attempt, ends, procs>>

Denied(c) ==
    /\ pc[c] = "asking"
    /\ Gate!Decline(c)
    /\ Goto(c, "denying")
    /\ Publish(c, Event("denied", "none", 0))
    /\ UNCHANGED <<input, attempt, ends, procs>>

\* Mutant: what the gate decided is announced and then ignored.
Decided_IgnoresDenial(c) ==
    /\ pc[c] \in {"granting", "denying"}
    /\ StartTool(c)
    /\ UNCHANGED <<input, log, ends, gate>>

\* permission.granted or permission.denied is out.
Decided(c) ==
    /\ \/ /\ pc[c] = "granting"
          /\ StartTool(c)
          /\ UNCHANGED <<log, ends>>
       \/ /\ pc[c] = "denying"
          /\ Fail(c, "permission_denied", 1)
          /\ UNCHANGED <<attempt, procs>>
    /\ UNCHANGED <<input, gate>>

\* A process of this attempt that ran to its end, or was killed and waited
\* for, is gone; one that the tool lost sight of is not.
ProcessGone(c) ==
    procs' = [procs EXCEPT ![c] = IF request[c] = "bash" /\ @ > 0 THEN @ - 1 ELSE @]

Succeeds(c) ==
    /\ pc[c] = "running"
    /\ ProcessGone(c)
    /\ Goto(c, "closing")
    /\ Publish(c, Event("finished", "none", 0))
    /\ outcome' = [outcome EXCEPT ![c] = "ok"]
    /\ UNCHANGED <<input, attempt, result, gate>>

\* Mutant: a timeout is retried like any other error.
ToolFails_RetriesTimeout(c, class) ==
    /\ pc[c] = "running"
    /\ IF attempt[c] <= MaxRetries
       THEN /\ Goto(c, "backing_off")
            /\ Publish(c, Event("failed", class, attempt[c]))
            /\ UNCHANGED ends
       ELSE Fail(c, class, attempt[c])
    /\ UNCHANGED <<input, attempt, gate>>

\* The tool reported or raised an error: retryable ones are published and
\* slept on while attempts are left.
ToolFails(c, class) ==
    /\ pc[c] = "running"
    /\ IF class \in Retryable /\ attempt[c] <= MaxRetries
       THEN /\ Goto(c, "backing_off")
            /\ Publish(c, Event("failed", class, attempt[c]))
            /\ UNCHANGED ends
       ELSE Fail(c, class, attempt[c])
    /\ UNCHANGED <<input, attempt, gate>>

\* An error of the tool itself: the process has exited, or bash's own timeout
\* killed it.
ReportsError(c) ==
    /\ \E class \in Retryable \cup {"timeout"} : ToolFails(c, class)
    /\ ProcessGone(c)

\* The wait_for of invoke_tool expires and cancels the tool; bash does not
\* kill its process then.
TimesOut(c) ==
    /\ ToolFails(c, "timeout")
    /\ UNCHANGED procs

Retry(c) ==
    /\ pc[c] = "backing_off"
    /\ StartTool(c)
    /\ UNCHANGED <<input, log, ends, gate>>

\* The last event is out.
Return(c) ==
    /\ pc[c] = "closing"
    /\ Goto(c, "returned")
    /\ result' = [result EXCEPT ![c] = outcome[c]]
    /\ UNCHANGED <<input, attempt, log, outcome, procs, gate>>

\* CancelledError passes through invoke_tool from any of its awaits.
Cancel(c) ==
    /\ pc[c] \notin {"idle", "returned", "cancelled"}
    /\ Goto(c, "cancelled")
    /\ IF pc[c] = "asking" THEN Gate!AbandonAll({c}) ELSE UNCHANGED gate
    /\ UNCHANGED <<input, attempt, log, ends, procs>>

\* A process nobody waits for any more exits.
OrphanExits(c) ==
    /\ procs[c] > (IF pc[c] = "running" THEN 1 ELSE 0)
    /\ procs' = [procs EXCEPT ![c] = @ - 1]
    /\ UNCHANGED <<pc, input, attempt, log, ends, gate>>

Step(c) ==
    \/ Reject(c)
    \/ Ungated(c)
    \/ AutoDecided(c)
    \/ Ask(c)
    \/ Granted(c)
    \/ Denied(c)
    \/ Decided(c)
    \/ Succeeds(c)
    \/ ReportsError(c)
    \/ TimesOut(c)
    \/ Retry(c)
    \/ Return(c)

Next == \E c \in Calls :
    \/ Invoke(c)
    \/ Step(c)
    \/ Cancel(c)
    \/ OrphanExits(c)
    \/ \E d \in Allow \cup Refuse : Answer(c, d)

Spec == Init /\ [][Next]_vars

\* Subscribers drain, wait_for bounds the tool, the sleep ends, and the gate
\* decides (PermissionManager's EveryRequestSettles, whose timer is on).
FairSpec == Spec /\ \A c \in Calls : WF_vars(Step(c))
-----------------------------------------------------------------------------
\* No tool is started without the gate's consent, on no attempt, whatever is
\* answered, cancelled or answered again meanwhile.
NoToolWithoutConsent ==
    \A c \in gated : attempt[c] > 0 => status[c] = "allowed"

\* A call never has two processes: it is retried only when none of an earlier
\* attempt is left, which is why a timeout, which may leave one behind, must
\* not be retried (_RETRYABLE).
NoTwoProcesses == \A c \in Calls : procs[c] <= 1

\* An event behind which a call publishes nothing more.  The failure of an
\* attempt that is retried looks the same but for its attempt number, and an
\* unknown tool, which is never started, fails like a first attempt.
Closes(c, e) ==
    \/ e.type = "finished"
    \/ /\ e.type = "failed"
       /\ e.class \notin Retryable \/ e.attempt > MaxRetries \/ request[c] = "unknown_tool"

\* The first failure of a call is that of attempt 1, and a failure right behind
\* another one that of the next attempt.
CountsUp(c) ==
    \A i \in 1..Len(log[c]) : log[c][i].type = "failed" =>
        log[c][i].attempt = IF i > 1 /\ log[c][i - 1].type = "failed"
                            THEN log[c][i - 1].attempt + 1 ELSE 1

Tells(e, outc) ==
    IF outc = "ok" THEN e.type = "finished" ELSE e.type = "failed" /\ e.class = outc

\* Over all retries a call publishes one closing event at most and nothing
\* behind it, its failures number the attempts 1, 2, ..., and a call that
\* returned did publish the closing event, which tells the same outcome as the
\* ToolResult the LLM gets.
ResultWasPublished ==
    \A c \in Calls :
        /\ \A i \in 1..Len(log[c]) : Closes(c, log[c][i]) => i = Len(log[c])
        /\ CountsUp(c)
        /\ pc[c] = "returned" =>
              LET last == log[c][Len(log[c])] IN Closes(c, last) /\ Tells(last, result[c])

\* Every call that is announced ends: the loop gets a result for it, or is
\* itself cancelled.
CallsEnd ==
    \A c \in Calls : pc[c] = "announcing" ~> pc[c] \in {"returned", "cancelled"}
=============================================================================
