------------------------- MODULE PermissionManager -------------------------
(***************************************************************************)
(* The daemon's gate in front of every tool call                           *)
(* (repo_claude/core/permissions/manager.py, policy.py, storage.py).       *)
(*                                                                         *)
(* check_and_wait decides a call at once (patterns, caches, the tool's     *)
(* default) or asks the user: it registers a Future in _pending, emits     *)
(* permission.requested and awaits the Future, under asyncio.wait_for when *)
(* timeout_s > 0.  Everything between two awaits is one atomic step of the *)
(* event loop, and one action here.  What the loop does between a Future   *)
(* being resolved and its waiter being resumed is NOT atomic: the wait_for *)
(* timer, run.cancel and a second answer may all come in between.          *)
(***************************************************************************)
EXTENDS Naturals, FiniteSets

CONSTANTS
    Requests,     \* tool_use_ids, one per check_and_wait call
    Sessions,
    Tools,
    Bash,         \* the one tool whose command is matched against patterns
    Default,      \* [Tools -> {"allow", "deny", "ask"}]: policy.default
    Kinds,        \* what the patterns say of a bash command, see KindNames
    Timeouts,     \* what "timeout_s > 0" may be: it is configured
    Answers,      \* the decisions clients send (bounds the model)
    Fickle,       \* sessions whose client may disconnect (bounds the model)
    DisconnectHook \* whether a disconnect calls cancel_session: FALSE in app.py

KindNames == {"deny_pattern", "outside_cwd", "allow_pattern", "plain"}

ASSUME PermissionAssumption ==
    /\ Bash \in Tools
    /\ Default \in [Tools -> {"allow", "deny", "ask"}]
    /\ Kinds \subseteq KindNames
    /\ "plain" \in Kinds
    /\ Timeouts \subseteq BOOLEAN
    /\ Fickle \subseteq Sessions
    /\ DisconnectHook \in BOOLEAN

Allowing  == {"allow_once", "always_allow"}
Standing  == {"always_allow", "always_deny"}
\* "unrecognised": permission.respond takes any string (commands.py:104).
Decisions == Allowing \cup {"deny_once", "always_deny", "unrecognised"}
Outcomes  == Decisions \cup {"none", "auto_allow", "auto_deny", "timeout"}

ASSUME AnswersAssumption == Answers \subseteq Decisions

Cached    == {"none", "allow", "deny"}

VARIABLES
    pc,          \* where each check_and_wait stands
    call,        \* its session, tool and the kind of its parameters
    pending,     \* the keys of _pending
    future,      \* state of each request's asyncio.Future
    timerFired,  \* wait_for's timer expired while the request was suspended
    cancelled,   \* the run's task was cancelled while the request was suspended
    outcome,     \* the decision check_and_wait returned
    sessionAlways, persistentAlways,  \* the two caches of always_* answers
    policyFile,  \* what policy.toml holds
    timed,       \* timeout_s > 0: wait_for arms a timer
    gone,        \* sessions whose client has disconnected
    answered,    \* history: the decision that resolved the Future
    said,        \* history: the last always_* answer each session had applied
    saveFailed   \* history: the last attempt to write policy.toml failed

caches == <<sessionAlways, persistentAlways, policyFile, said, saveFailed>>
outer == <<timed, gone>>
vars == <<pc, call, pending, future, timerFired, cancelled, outcome,
          sessionAlways, persistentAlways, policyFile, timed, gone, answered,
          said, saveFailed>>

Calls == {c \in [session : Sessions, tool : Tools, kind : KindNames] :
              c.tool = Bash \/ c.kind = "plain"}
NoCall == [session |-> "none", tool |-> "none", kind |-> "none"]

TypeOK ==
    /\ pc \in [Requests -> {"idle", "emitting", "waiting", "done", "aborted"}]
    /\ call \in [Requests -> Calls \cup {NoCall}]
    /\ \A r \in Requests : pc[r] # "idle" => call[r] \in Calls
    /\ pending \in SUBSET Requests
    /\ future \in [Requests -> Decisions \cup {"none", "open", "cancelled"}]
    /\ timerFired \in [Requests -> BOOLEAN]
    /\ cancelled \in [Requests -> BOOLEAN]
    /\ outcome \in [Requests -> Outcomes]
    /\ sessionAlways \in [Sessions -> [Tools -> Cached]]
    /\ persistentAlways \in [Tools -> Cached]
    /\ policyFile \in [Tools -> Cached]
    /\ timed \in BOOLEAN
    /\ gone \in SUBSET Sessions
    /\ answered \in [Requests -> Decisions \cup {"none"}]
    /\ said \in [Sessions -> [Tools -> Cached]]
    /\ saveFailed \in BOOLEAN

Init ==
    /\ pc = [r \in Requests |-> "idle"]
    /\ call = [r \in Requests |-> NoCall]
    /\ pending = {}
    /\ future = [r \in Requests |-> "none"]
    /\ timerFired = [r \in Requests |-> FALSE]
    /\ cancelled = [r \in Requests |-> FALSE]
    /\ outcome = [r \in Requests |-> "none"]
    /\ sessionAlways = [s \in Sessions |-> [t \in Tools |-> "none"]]
    /\ persistentAlways = [t \in Tools |-> "none"]
    /\ policyFile = [t \in Tools |-> "none"]
    /\ timed \in Timeouts
    /\ gone = {}
    /\ answered = [r \in Requests |-> "none"]
    /\ said = [s \in Sessions |-> [t \in Tools |-> "none"]]
    /\ saveFailed = FALSE

InFlight(r) == pc[r] \in {"emitting", "waiting"}
Resolved(r) == future[r] \in Decisions

(***************************************************************************)
(* The tiers of check_and_wait, in their order.  "ask" means: no tier      *)
(* decided.  An outside-cwd command skips tiers 3 to 6.                    *)
(***************************************************************************)
AutoDecision(v) == IF v = "allow" THEN "auto_allow" ELSE "auto_deny"

\* Tiers 3 and 4: the session's own answer before everybody's.
Remembered(c) ==
    IF sessionAlways[c.session][c.tool] # "none"
    THEN sessionAlways[c.session][c.tool]
    ELSE persistentAlways[c.tool]

\* Mutant: the caches are consulted before the outside-cwd heuristics.
Verdict_CacheFirst(c) ==
    IF c.kind = "deny_pattern" THEN "auto_deny"
    ELSE IF Remembered(c) # "none" THEN AutoDecision(Remembered(c))
    ELSE IF c.kind = "outside_cwd" THEN "ask"
    ELSE IF c.kind = "allow_pattern" THEN "auto_allow"
    ELSE IF Default[c.tool] = "ask" THEN "ask"
    ELSE AutoDecision(Default[c.tool])

Verdict(c) ==
    IF c.kind = "deny_pattern" THEN "auto_deny"
    ELSE IF c.kind = "outside_cwd" THEN "ask"
    ELSE IF Remembered(c) # "none" THEN AutoDecision(Remembered(c))
    ELSE IF c.kind = "allow_pattern" THEN "auto_allow"
    ELSE IF Default[c.tool] = "ask" THEN "ask"
    ELSE AutoDecision(Default[c.tool])

\* check_and_wait up to its first await: return at once ...
CheckAuto(r, c) ==
    /\ pc[r] = "idle"
    /\ Verdict(c) # "ask"
    /\ pc' = [pc EXCEPT ![r] = "done"]
    /\ call' = [call EXCEPT ![r] = c]
    /\ outcome' = [outcome EXCEPT ![r] = Verdict(c)]
    /\ UNCHANGED <<pending, future, timerFired, cancelled, outer, answered, caches>>

\* ... or register the Future and start emitting permission.requested.
CheckAsk(r, c) ==
    /\ pc[r] = "idle"
    /\ Verdict(c) = "ask"
    /\ pc' = [pc EXCEPT ![r] = "emitting"]
    /\ call' = [call EXCEPT ![r] = c]
    /\ pending' = pending \cup {r}
    /\ future' = [future EXCEPT ![r] = "open"]
    /\ UNCHANGED <<timerFired, cancelled, outcome, outer, answered, caches>>

(***************************************************************************)
(* save_policy_file: write_text truncates, then writes line by line.  The  *)
(* exception is logged and swallowed, so the file may be left as it was,   *)
(* or with the lines of some of the tools only.                            *)
(***************************************************************************)
Lines(always, ts) == [t \in Tools |-> IF t \in ts THEN always[t] ELSE "none"]

Save(always) ==
    \/ /\ policyFile' = always
       /\ saveFailed' = FALSE
    \/ /\ policyFile' \in {policyFile} \cup {Lines(always, ts) : ts \in SUBSET Tools}
       /\ saveFailed' = TRUE

\* Mutant: every allowing answer is cached.
ApplyResponse_OnceSticks(c, d) ==
    IF d \in Standing \cup Allowing
    THEN LET v == IF d \in Allowing THEN "allow" ELSE "deny" IN
         /\ sessionAlways' = [sessionAlways EXCEPT ![c.session][c.tool] = v]
         /\ persistentAlways' = [persistentAlways EXCEPT ![c.tool] = v]
         /\ said' = [said EXCEPT ![c.session][c.tool] = v]
         /\ Save(persistentAlways')
    ELSE UNCHANGED caches

\* _apply_response
ApplyResponse(c, d) ==
    IF d \in Standing
    THEN LET v == IF d = "always_allow" THEN "allow" ELSE "deny" IN
         /\ sessionAlways' = [sessionAlways EXCEPT ![c.session][c.tool] = v]
         /\ persistentAlways' = [persistentAlways EXCEPT ![c.tool] = v]
         /\ said' = [said EXCEPT ![c.session][c.tool] = v]
         /\ Save(persistentAlways')
    ELSE UNCHANGED caches

\* check_and_wait returns the raw answer.
ReturnAnswer(r) ==
    /\ Resolved(r)
    /\ pc' = [pc EXCEPT ![r] = "done"]
    /\ outcome' = [outcome EXCEPT ![r] = future[r]]
    /\ ApplyResponse(call[r], future[r])
    /\ UNCHANGED <<call, pending, future, timerFired, cancelled, outer, answered>>

\* The emitter returned.  An answer that arrived meanwhile is taken without
\* suspending; otherwise wait_for suspends and its timer is armed.
Emitted(r) ==
    /\ pc[r] = "emitting"
    /\ ~cancelled[r]
    /\ \/ ReturnAnswer(r)
       \/ /\ ~Resolved(r)
          /\ pc' = [pc EXCEPT ![r] = "waiting"]
          /\ UNCHANGED <<call, pending, future, timerFired, cancelled, outcome,
                         outer, answered, caches>>

\* Mutant: expiry denies through the Future instead of cancelling the wait.
TimerFires_Denies(r) ==
    /\ timed
    /\ pc[r] = "waiting"
    /\ future[r] = "open"
    /\ future' = [future EXCEPT ![r] = "deny_once"]
    /\ UNCHANGED <<pc, call, pending, timerFired, cancelled, outcome, outer,
                   answered, caches>>

\* The timer of wait_for: task.cancel() cancels an open Future; on a resolved
\* one that has not been consumed yet it sets the task's _must_cancel flag.
TimerFires(r) ==
    /\ timed
    /\ pc[r] = "waiting"
    /\ ~timerFired[r]
    /\ timerFired' = [timerFired EXCEPT ![r] = TRUE]
    /\ future' = [future EXCEPT ![r] = IF @ = "open" THEN "cancelled" ELSE @]
    /\ UNCHANGED <<pc, call, pending, cancelled, outcome, outer, answered, caches>>

\* The waiter resumes with the answer.
ResumeAnswered(r) ==
    /\ pc[r] = "waiting"
    /\ ~timerFired[r] /\ ~cancelled[r]
    /\ ReturnAnswer(r)

\* The waiter resumes in the except asyncio.TimeoutError clause.
ResumeTimeout(r) ==
    /\ pc[r] = "waiting"
    /\ timerFired[r] /\ ~cancelled[r]
    /\ pc' = [pc EXCEPT ![r] = "done"]
    /\ outcome' = [outcome EXCEPT ![r] = "timeout"]
    /\ pending' = pending \ {r}
    /\ UNCHANGED <<call, future, timerFired, cancelled, outer, answered, caches>>

\* CancelledError leaves check_and_wait, from the emitter or from the wait;
\* no clause pops the pending entry.
ResumeCancelled(r) ==
    /\ InFlight(r)
    /\ cancelled[r]
    /\ pc' = [pc EXCEPT ![r] = "aborted"]
    /\ UNCHANGED <<call, pending, future, timerFired, cancelled, outcome, outer,
                   answered, caches>>

\* run.cancel or a newer message cancels the task that runs the request.
CancelRun(r) ==
    /\ InFlight(r)
    /\ ~cancelled[r]
    /\ cancelled' = [cancelled EXCEPT ![r] = TRUE]
    /\ future' = [future EXCEPT ![r] =
                    IF @ = "open" /\ pc[r] = "waiting" THEN "cancelled" ELSE @]
    /\ UNCHANGED <<pc, call, pending, timerFired, outcome, outer, answered, caches>>

\* Mutant: the id is popped before the decision is validated.
Respond_PopThenValidate(r, d) ==
    /\ pc[r] # "idle"
    /\ r \in pending
    /\ pending' = pending \ {r}
    /\ IF future[r] = "open" /\ d # "unrecognised"
       THEN /\ future' = [future EXCEPT ![r] = d]
            /\ answered' = [answered EXCEPT ![r] = d]
       ELSE UNCHANGED <<future, answered>>
    /\ UNCHANGED <<pc, call, timerFired, cancelled, outcome, outer, caches>>

\* Mutant: a second answer replaces the first while the id is remembered.
Respond_KeepsPending(r, d) ==
    /\ pc[r] # "idle"
    /\ r \in pending
    /\ IF future[r] \in Decisions \cup {"open"}
       THEN /\ future' = [future EXCEPT ![r] = d]
            /\ answered' = [answered EXCEPT ![r] = d]
       ELSE UNCHANGED <<future, answered>>
    /\ UNCHANGED <<pc, call, pending, timerFired, cancelled, outcome, outer, caches>>

\* A client answers: any id, whoever was asked, any decision, any number of
\* times.
Respond(r, d) ==
    /\ pc[r] # "idle"
    /\ r \in pending
    /\ pending' = pending \ {r}
    /\ IF future[r] = "open"
       THEN /\ future' = [future EXCEPT ![r] = d]
            /\ answered' = [answered EXCEPT ![r] = d]
       ELSE UNCHANGED <<future, answered>>
    /\ UNCHANGED <<pc, call, timerFired, cancelled, outcome, outer, caches>>

\* cancel_session: deny every pending request of the session.
CancelSession(s) ==
    LET hit  == {r \in pending : call[r].session = s}
        open == {r \in hit : future[r] = "open"}
    IN /\ pending' = pending \ hit
       /\ future' = [r \in Requests |->
                        IF r \in open THEN "deny_once" ELSE future[r]]
       /\ answered' = [r \in Requests |->
                        IF r \in open THEN "deny_once" ELSE answered[r]]

\* The session's client disconnects; app.py's connection cleanup does not
\* reach the permission manager (DisconnectHook = FALSE).
Disconnect(s) ==
    /\ s \notin gone
    /\ gone' = gone \cup {s}
    /\ IF DisconnectHook THEN CancelSession(s)
                         ELSE UNCHANGED <<pending, future, answered>>
    /\ UNCHANGED <<pc, call, timerFired, cancelled, outcome, timed, caches>>

\* The daemon restarts: every Future and the session cache are lost, the
\* persistent cache is what load_policy_file reads, and config.toml may have
\* another timeout.
Restart ==
    /\ pc' = [r \in Requests |-> IF InFlight(r) THEN "aborted" ELSE pc[r]]
    /\ pending' = {}
    /\ sessionAlways' = [s \in Sessions |-> [t \in Tools |-> "none"]]
    /\ said' = [s \in Sessions |-> [t \in Tools |-> "none"]]
    /\ persistentAlways' = policyFile
    /\ saveFailed' = FALSE
    /\ timed' \in Timeouts
    /\ gone' = {}
    /\ UNCHANGED <<call, future, timerFired, cancelled, outcome, policyFile, answered>>

Next ==
    \/ \E r \in Requests, s \in Sessions, t \in Tools, k \in Kinds :
          /\ t = Bash \/ k = "plain"
          /\ \/ CheckAuto(r, [session |-> s, tool |-> t, kind |-> k])
             \/ CheckAsk(r, [session |-> s, tool |-> t, kind |-> k])
    \/ \E r \in Requests :
          \/ Emitted(r)
          \/ TimerFires(r)
          \/ ResumeAnswered(r)
          \/ ResumeTimeout(r)
          \/ ResumeCancelled(r)
          \/ CancelRun(r)
          \/ \E d \in Answers : Respond(r, d)
    \/ \E s \in Fickle : Disconnect(s)
    \/ Restart

Spec == Init /\ [][Next]_vars

\* asyncio runs every ready callback: a due timer fires, and a task whose
\* Future is done is resumed.  Clients owe nothing, not even to read what is
\* sent to them, so the publication of the event (Emitted) may hang for ever.
Fairness ==
    \A r \in Requests :
        /\ WF_vars(TimerFires(r))
        /\ WF_vars(ResumeAnswered(r))
        /\ WF_vars(ResumeTimeout(r))
        /\ WF_vars(ResumeCancelled(r))

FairSpec == Spec /\ Fairness
-----------------------------------------------------------------------------
Allowed(r) == outcome[r] \in Allowing \cup {"auto_allow"}

\* A bash command that leaves the working directory runs only on an allowing
\* answer to that very request, and one that hits a deny pattern never runs,
\* whatever always_* answers the caches and policy.toml have accumulated
\* (tiers 1 and 2 of check_and_wait).
ForcedAskNotBypassed ==
    \A r \in Requests :
        /\ call[r].kind = "outside_cwd" /\ Allowed(r) => answered[r] \in Allowing
        /\ call[r].kind = "deny_pattern" => outcome[r] \in {"none", "auto_deny"}

\* A request whose Future is still open can be answered: its id is in
\* _pending from before the event is emitted until something resolves it.
WaiterAnswerable ==
    \A r \in Requests : InFlight(r) /\ future[r] = "open" => r \in pending

\* A request that returned after the user was asked returned the answer that
\* resolved its Future, or "timeout"; nothing else, and "timeout" only after
\* the timer fired.
ReturnsTheAnswer ==
    \A r \in Requests :
        pc[r] = "done" /\ future[r] # "none" =>
            \/ outcome[r] = answered[r] /\ answered[r] # "none"
            \/ outcome[r] = "timeout" /\ timerFired[r]

\* Some user answered always_allow for the tool.
Granted(t) ==
    \E q \in Requests : outcome[q] = "always_allow" /\ call[q].tool = t

\* A plain call of a tool that asks is let through without asking only if
\* some user once answered always_allow for the tool, in this or an earlier
\* life of the daemon: neither allow_once nor a failed or truncated write of
\* policy.toml ever grants more.
ConsentBehindAutoAllow ==
    \A r \in Requests :
        /\ outcome[r] = "auto_allow"
        /\ call[r].kind = "plain" /\ Default[call[r].tool] # "allow"
        => Granted(call[r].tool)

\* A call decided without asking follows the last always_* answer its own
\* session gave for the tool, even after another session said the opposite.
LastWordHolds ==
    [][\A r \in Requests :
          /\ pc[r] = "idle" /\ pc'[r] = "done"
          /\ call'[r].kind # "deny_pattern"
          /\ said[call'[r].session][call'[r].tool] # "none"
          => outcome'[r] = AutoDecision(said[call'[r].session][call'[r].tool])]_vars

\* Memory and policy.toml agree unless the last write failed: a restart then
\* brings back exactly the standing answers that were in force.
FileMatchesMemory == ~saveFailed => policyFile = persistentAlways

\* Once its permission.requested is out, a tool call waits for ever only where
\* no timeout is configured and nothing has taken its id: the timer ends every
\* other wait, and an answer in any words, cancel_session or run.cancel ends it
\* without one (manager.py:135-155, 193).
EveryRequestSettles ==
    \A r \in Requests :
        (pc[r] = "waiting" /\ (timed \/ r \notin pending \/ cancelled[r]))
            ~> pc[r] \in {"done", "aborted"}

\* An answer that resolved the Future is the one the call returns
\* (manager.py:148); refuted when the timer fires before the waiter resumes.
AcceptedAnswerHonoured ==
    \A r \in Requests :
        pc[r] = "done" /\ answered[r] # "none" => outcome[r] = answered[r]

\* After a disconnect no request of the session hangs (manager.py:192);
\* refuted with timeout_s = 0, since nothing calls cancel_session.
DisconnectReleases ==
    \A r \in Requests :
        (InFlight(r) /\ call[r].session \in gone)
            ~> (pc[r] \in {"done", "aborted"} \/ call[r].session \notin gone)

\* Where a request stands, in the terms of the approval protocol.
Status(r) ==
    CASE pc[r] = "idle"    -> "idle"
      [] InFlight(r)       -> "open"
      [] pc[r] = "aborted" -> "abandoned"
      [] pc[r] = "done"    -> IF Allowed(r) THEN "allowed" ELSE "refused"

Abstract == INSTANCE Approval WITH
    Calls    <- Requests,
    Allow    <- Allowing,
    Refuse   <- Decisions \ Allowing,
    NoAnswer <- "none",
    status   <- [r \in Requests |-> Status(r)],
    answer   <- answered

\* The gate implements the abstract approval protocol: whatever Futures,
\* timers, caches and cancellations do, a call that was opened to the user is
\* answered at most once and runs only on an allowing answer, and a call that
\* ended never changes its result (check_and_wait, respond, cancel_session).
ImplementsApproval == Abstract!ASpec
=============================================================================
