----------------------- MODULE PermissionManagerProofs -----------------------
(***************************************************************************)
(* Theorems about PermissionManager for every set of requests, sessions    *)
(* and tools, every default policy and every timeout setting.              *)
(***************************************************************************)
EXTENDS PermissionManager, TLAPS

\* The shape of one step: every disjunct of Next, with its parameters named.
LEMMA NextCases ==
    ASSUME [Next]_vars,
           NEW G,
           \A r \in Requests, c \in Calls : CheckAuto(r, c) => G,
           \A r \in Requests, c \in Calls : CheckAsk(r, c) => G,
           \A r \in Requests : Emitted(r) => G,
           \A r \in Requests : TimerFires(r) => G,
           \A r \in Requests : ResumeAnswered(r) => G,
           \A r \in Requests : ResumeTimeout(r) => G,
           \A r \in Requests : ResumeCancelled(r) => G,
           \A r \in Requests : CancelRun(r) => G,
           \A r \in Requests, d \in Decisions : Respond(r, d) => G,
           \A s \in Sessions : Disconnect(s) => G,
           Restart => G,
           UNCHANGED vars => G
    PROVE  G
<1>1. ASSUME NEW r \in Requests, NEW s \in Sessions, NEW t \in Tools,
             NEW k \in Kinds, t = Bash \/ k = "plain"
      PROVE  [session |-> s, tool |-> t, kind |-> k] \in Calls
  BY <1>1, PermissionAssumption DEF Calls
<1>2. Answers \subseteq Decisions /\ Fickle \subseteq Sessions
  BY AnswersAssumption, PermissionAssumption
<1>3. QED
  BY <1>1, <1>2 DEF Next

\* Every variable keeps its type.
THEOREM TypeCorrect == Spec => []TypeOK
<1>0. [t \in Tools |-> "none"] \in [Tools -> Cached]
  BY DEF Cached
<1>1. ASSUME Init PROVE TypeOK
  <2>1. /\ sessionAlways \in [Sessions -> [Tools -> Cached]]
        /\ said \in [Sessions -> [Tools -> Cached]]
        /\ persistentAlways \in [Tools -> Cached]
        /\ policyFile \in [Tools -> Cached]
    BY <1>0, <1>1 DEF Init
  <2>2. timed \in BOOLEAN
    BY <1>1, PermissionAssumption DEF Init
  <2>3. QED
    BY <1>1, <2>1, <2>2 DEF Init, TypeOK, Outcomes
<1>2. TypeOK /\ [Next]_vars => TypeOK'
  <2> SUFFICES ASSUME TypeOK, [Next]_vars PROVE TypeOK'
    OBVIOUS
  <2> USE DEF TypeOK
  <2>1. ASSUME NEW r \in Requests, NEW c \in Calls, CheckAuto(r, c) PROVE TypeOK'
    <3>0. Verdict(c) # "ask"
      BY <2>1 DEF CheckAuto
    <3>1. Verdict(c) \in Outcomes
      BY <3>0 DEF Verdict, AutoDecision, Outcomes
    <3>2. QED
      BY <2>1, <3>1 DEF CheckAuto, caches, outer, Outcomes
  <2>2. ASSUME NEW r \in Requests, NEW c \in Calls, CheckAsk(r, c) PROVE TypeOK'
    BY <2>2 DEF CheckAsk, caches, outer
  <2>3. ASSUME NEW r \in Requests, ReturnAnswer(r), pc[r] # "idle" PROVE TypeOK'
    <3>1. future[r] \in Outcomes
      BY <2>3 DEF ReturnAnswer, Outcomes, Resolved
    <3>2. call[r] \in Calls
      BY <2>3
    <3>3. /\ sessionAlways' \in [Sessions -> [Tools -> Cached]]
          /\ persistentAlways' \in [Tools -> Cached]
          /\ said' \in [Sessions -> [Tools -> Cached]]
      <4>1. CASE future[r] \in Standing
        <5> DEFINE v == IF future[r] = "always_allow" THEN "allow" ELSE "deny"
        <5>1. v \in Cached /\ call[r].session \in Sessions /\ call[r].tool \in Tools
          BY <3>2 DEF Calls, Cached
        <5>2. /\ sessionAlways' =
                    [sessionAlways EXCEPT ![call[r].session][call[r].tool] = v]
              /\ persistentAlways' = [persistentAlways EXCEPT ![call[r].tool] = v]
              /\ said' = [said EXCEPT ![call[r].session][call[r].tool] = v]
          BY <2>3, <4>1 DEF ReturnAnswer, ApplyResponse
        <5> HIDE DEF v
        <5>3. QED
          BY <5>1, <5>2
      <4>2. CASE future[r] \notin Standing
        BY <2>3, <4>2 DEF ReturnAnswer, ApplyResponse, caches, outer
      <4>3. QED
        BY <4>1, <4>2
    <3>4. policyFile' \in [Tools -> Cached] /\ saveFailed' \in BOOLEAN
      <4>1. \/ policyFile' = policyFile /\ saveFailed' = saveFailed
            \/ Save(persistentAlways')
        BY <2>3 DEF ReturnAnswer, ApplyResponse, caches, outer
      <4>2. ASSUME Save(persistentAlways')
            PROVE  policyFile' \in [Tools -> Cached] /\ saveFailed' \in BOOLEAN
        <5>1. \A ts : Lines(persistentAlways', ts) \in [Tools -> Cached]
          BY <3>3 DEF Lines, Cached
        <5>2. saveFailed' \in BOOLEAN
          BY <4>2 DEF Save
        <5>3. \/ policyFile' = persistentAlways'
              \/ policyFile' = policyFile
              \/ \E ts \in SUBSET Tools : policyFile' = Lines(persistentAlways', ts)
          BY <4>2 DEF Save
        <5>4. policyFile \in [Tools -> Cached]
          OBVIOUS
        <5>5. QED
          BY <3>3, <5>1, <5>2, <5>3, <5>4
      <4>3. QED
        BY <4>1, <4>2
    <3>5. QED
      BY <2>3, <3>1, <3>3, <3>4 DEF ReturnAnswer, outer
  <2>4. ASSUME NEW r \in Requests, Emitted(r) PROVE TypeOK'
    BY <2>3, <2>4 DEF Emitted, caches, outer
  <2>5. ASSUME NEW r \in Requests, TimerFires(r) PROVE TypeOK'
    BY <2>5 DEF TimerFires, caches, outer
  <2>6. ASSUME NEW r \in Requests, ResumeAnswered(r) PROVE TypeOK'
    BY <2>3, <2>6 DEF ResumeAnswered
  <2>7. ASSUME NEW r \in Requests, ResumeTimeout(r) PROVE TypeOK'
    BY <2>7 DEF ResumeTimeout, caches, outer, Outcomes
  <2>8. ASSUME NEW r \in Requests, ResumeCancelled(r) PROVE TypeOK'
    BY <2>8 DEF ResumeCancelled, InFlight, caches, outer
  <2>9. ASSUME NEW r \in Requests, CancelRun(r) PROVE TypeOK'
    BY <2>9 DEF CancelRun, InFlight, caches, outer
  <2>10. ASSUME NEW r \in Requests, NEW d \in Decisions, Respond(r, d) PROVE TypeOK'
    BY <2>10 DEF Respond, caches, outer
  <2>11. ASSUME NEW s \in Sessions, Disconnect(s) PROVE TypeOK'
    BY <2>11 DEF Disconnect, CancelSession, caches, outer, Decisions
  <2>12. ASSUME Restart PROVE TypeOK'
    <3>1. /\ sessionAlways' \in [Sessions -> [Tools -> Cached]]
          /\ said' \in [Sessions -> [Tools -> Cached]]
      BY <1>0, <2>12 DEF Restart
    <3>2. timed' \in BOOLEAN
      BY <2>12, PermissionAssumption DEF Restart
    <3>3. QED
      BY <2>12, <3>1, <3>2 DEF Restart, InFlight
  <2>13. ASSUME UNCHANGED vars PROVE TypeOK'
    BY <2>13 DEF vars
  <2>14. QED
    BY <2>1, <2>2, <2>4, <2>5, <2>6, <2>7, <2>8, <2>9, <2>10, <2>11, <2>12,
       <2>13, NextCases
<1>3. QED
  BY <1>1, <1>2, PTL DEF Spec
-----------------------------------------------------------------------------
(***************************************************************************)
(* The gate's bookkeeping.  ReturnsTheAnswer and ForcedAskNotBypassed are  *)
(* not inductive: they need to know that the history of answers is what    *)
(* the Futures hold, that only a request that was asked has a Future, and  *)
(* that a deny pattern never gets that far.                                *)
(***************************************************************************)
AnsweredIsFuture(r) ==
    answered[r] = IF future[r] \in Decisions THEN future[r] ELSE "none"

Bookkept(r) ==
    /\ AnsweredIsFuture(r)
    /\ pc[r] = "idle" => future[r] = "none" /\ r \notin pending
    /\ pc[r] # "done" => outcome[r] = "none"
    /\ pc[r] \in {"emitting", "waiting", "aborted"} =>
          future[r] # "none" /\ call[r].kind # "deny_pattern"
    /\ pc[r] = "done" /\ future[r] # "none" =>
          /\ call[r].kind # "deny_pattern"
          /\ \/ outcome[r] = answered[r] /\ answered[r] # "none"
             \/ outcome[r] = "timeout" /\ timerFired[r]
    /\ pc[r] = "done" /\ future[r] = "none" =>
          /\ outcome[r] \in {"auto_allow", "auto_deny"}
          /\ call[r].kind # "outside_cwd"
          /\ call[r].kind = "deny_pattern" => outcome[r] = "auto_deny"
    /\ InFlight(r) /\ future[r] = "open" => r \in pending

GateInv == \A r \in Requests : Bookkept(r)

LEMMA GateInvGives ==
    TypeOK /\ GateInv => ForcedAskNotBypassed /\ WaiterAnswerable /\ ReturnsTheAnswer
<1> SUFFICES ASSUME TypeOK, GateInv, NEW r \in Requests
             PROVE  /\ call[r].kind = "outside_cwd" /\ Allowed(r) => answered[r] \in Allowing
                    /\ call[r].kind = "deny_pattern" => outcome[r] \in {"none", "auto_deny"}
                    /\ InFlight(r) /\ future[r] = "open" => r \in pending
                    /\ pc[r] = "done" /\ future[r] # "none" =>
                          \/ outcome[r] = answered[r] /\ answered[r] # "none"
                          \/ outcome[r] = "timeout" /\ timerFired[r]
  BY DEF ForcedAskNotBypassed, WaiterAnswerable, ReturnsTheAnswer
<1>1. Bookkept(r)
  BY DEF GateInv
<1>2. pc[r] \in {"idle", "emitting", "waiting", "done", "aborted"}
  BY DEF TypeOK
<1>3. call[r].kind = "outside_cwd" /\ Allowed(r) => answered[r] \in Allowing
  <2>1. answered[r] # "auto_allow"
    BY DEF TypeOK, Decisions, Allowing
  <2>2. QED
    BY <1>1, <1>2, <2>1 DEF Bookkept, Allowed, Allowing
<1>4. call[r].kind = "deny_pattern" => outcome[r] \in {"none", "auto_deny"}
  BY <1>1, <1>2 DEF Bookkept
<1>5. QED
  BY <1>1, <1>3, <1>4 DEF Bookkept

\* A request that a step does not touch keeps its bookkeeping.
Untouched(q) ==
    /\ pc'[q] = pc[q] /\ call'[q] = call[q] /\ future'[q] = future[q]
    /\ timerFired'[q] = timerFired[q] /\ outcome'[q] = outcome[q]
    /\ answered'[q] = answered[q]
    /\ q \in pending' <=> q \in pending

LEMMA UntouchedKeeps ==
    ASSUME NEW q \in Requests, Bookkept(q), Untouched(q)
    PROVE  Bookkept(q)'
BY DEF Untouched, Bookkept, AnsweredIsFuture, InFlight

\* The step in which a request takes the answer its Future holds.
LEMMA ReturnAnswerKeeps ==
    ASSUME TypeOK, NEW r \in Requests, NEW q \in Requests, Bookkept(r), Bookkept(q),
           ReturnAnswer(r), InFlight(r)
    PROVE  Bookkept(q)'
<1>1. CASE q = r
  <2>1. answered[r] = future[r] /\ future[r] \in Decisions
    BY DEF Bookkept, AnsweredIsFuture, ReturnAnswer, Resolved
  <2>2. future[r] \notin {"none", "open"}
    BY <2>1 DEF Decisions, Allowing
  <2>3. /\ pc'[r] = "done" /\ outcome'[r] = future[r]
        /\ future' = future /\ answered' = answered /\ call' = call
    BY DEF ReturnAnswer, TypeOK
  <2>4. QED
    BY <1>1, <2>1, <2>2, <2>3 DEF Bookkept, AnsweredIsFuture, InFlight
<1>2. CASE q # r
  BY <1>2, UntouchedKeeps DEF ReturnAnswer, Untouched, TypeOK
<1>3. QED
  BY <1>1, <1>2

LEMMA GateStep == TypeOK /\ GateInv /\ [Next]_vars => GateInv'
<1> SUFFICES ASSUME TypeOK, GateInv, [Next]_vars, NEW q \in Requests
             PROVE  Bookkept(q)'
  BY DEF GateInv
<1>0. \A r \in Requests : Bookkept(r)
  BY DEF GateInv
<1>1. ASSUME NEW r \in Requests, NEW c \in Calls, CheckAuto(r, c) PROVE Bookkept(q)'
  <2>1. CASE q = r
    <3>1. /\ Verdict(c) \in {"auto_allow", "auto_deny"}
          /\ c.kind # "outside_cwd"
          /\ c.kind = "deny_pattern" => Verdict(c) = "auto_deny"
      BY <1>1 DEF CheckAuto, Verdict, AutoDecision
    <3>2. /\ pc[r] = "idle" /\ pc'[r] = "done" /\ call'[r] = c
          /\ outcome'[r] = Verdict(c)
          /\ UNCHANGED <<future, answered, pending>>
      BY <1>1 DEF CheckAuto, TypeOK
    <3>3. QED
      BY <1>0, <2>1, <3>1, <3>2 DEF Bookkept, AnsweredIsFuture, InFlight
  <2>2. CASE q # r
    BY <1>0, <1>1, <2>2, UntouchedKeeps DEF CheckAuto, Untouched, TypeOK
  <2>3. QED
    BY <2>1, <2>2
<1>2. ASSUME NEW r \in Requests, NEW c \in Calls, CheckAsk(r, c) PROVE Bookkept(q)'
  <2>1. CASE q = r
    <3>1. c.kind # "deny_pattern"
      BY <1>2 DEF CheckAsk, Verdict
    <3>2. /\ pc[r] = "idle" /\ pc'[r] = "emitting" /\ call'[r] = c
          /\ future'[r] = "open" /\ r \in pending'
          /\ UNCHANGED <<outcome, answered>>
      BY <1>2 DEF CheckAsk, TypeOK
    <3>3. "open" \notin Decisions /\ "none" \notin Decisions
      BY DEF Decisions, Allowing
    <3>4. QED
      BY <1>0, <2>1, <3>1, <3>2, <3>3 DEF Bookkept, AnsweredIsFuture, InFlight
  <2>2. CASE q # r
    BY <1>0, <1>2, <2>2, UntouchedKeeps DEF CheckAsk, Untouched, TypeOK
  <2>3. QED
    BY <2>1, <2>2
<1>3. ASSUME NEW r \in Requests, Emitted(r) PROVE Bookkept(q)'
  <2>1. CASE ReturnAnswer(r)
    BY <1>0, <1>3, <2>1, ReturnAnswerKeeps DEF Emitted, InFlight
  <2>2. CASE ~ReturnAnswer(r) /\ q = r
    <3>1. /\ pc[r] = "emitting" /\ pc'[r] = "waiting"
          /\ UNCHANGED <<call, pending, future, timerFired, outcome, answered>>
      BY <1>3, <2>2 DEF Emitted, TypeOK
    <3>2. QED
      BY <1>0, <2>2, <3>1 DEF Bookkept, AnsweredIsFuture, InFlight
  <2>3. CASE ~ReturnAnswer(r) /\ q # r
    BY <1>0, <1>3, <2>3, UntouchedKeeps DEF Emitted, Untouched, TypeOK
  <2>4. QED
    BY <2>1, <2>2, <2>3
<1>4. ASSUME NEW r \in Requests, TimerFires(r) PROVE Bookkept(q)'
  <2>1. CASE q = r
    <3>1. /\ pc[r] = "waiting" /\ timerFired'[r] = TRUE
          /\ future'[r] = IF future[r] = "open" THEN "cancelled" ELSE future[r]
          /\ UNCHANGED <<pc, call, pending, outcome, answered>>
      BY <1>4 DEF TimerFires, TypeOK
    <3>2. "open" \notin Decisions /\ "cancelled" \notin Decisions
      BY DEF Decisions, Allowing
    <3>3. QED
      BY <1>0, <2>1, <3>1, <3>2 DEF Bookkept, AnsweredIsFuture, InFlight
  <2>2. CASE q # r
    BY <1>0, <1>4, <2>2, UntouchedKeeps DEF TimerFires, Untouched, TypeOK
  <2>3. QED
    BY <2>1, <2>2
<1>5. ASSUME NEW r \in Requests, ResumeAnswered(r) PROVE Bookkept(q)'
  BY <1>0, <1>5, ReturnAnswerKeeps DEF ResumeAnswered, InFlight
<1>6. ASSUME NEW r \in Requests, ResumeTimeout(r) PROVE Bookkept(q)'
  <2>1. CASE q = r
    <3>1. /\ pc[r] = "waiting" /\ pc'[r] = "done" /\ timerFired[r]
          /\ outcome'[r] = "timeout"
          /\ UNCHANGED <<call, future, timerFired, answered>>
      BY <1>6 DEF ResumeTimeout, TypeOK
    <3>2. QED
      BY <1>0, <2>1, <3>1 DEF Bookkept, AnsweredIsFuture, InFlight
  <2>2. CASE q # r
    BY <1>0, <1>6, <2>2, UntouchedKeeps DEF ResumeTimeout, Untouched, TypeOK
  <2>3. QED
    BY <2>1, <2>2
<1>7. ASSUME NEW r \in Requests, ResumeCancelled(r) PROVE Bookkept(q)'
  <2>1. CASE q = r
    <3>1. /\ InFlight(r) /\ pc'[r] = "aborted"
          /\ UNCHANGED <<call, pending, future, timerFired, outcome, answered>>
      BY <1>7 DEF ResumeCancelled, TypeOK
    <3>2. QED
      BY <1>0, <2>1, <3>1 DEF Bookkept, AnsweredIsFuture, InFlight
  <2>2. CASE q # r
    BY <1>0, <1>7, <2>2, UntouchedKeeps DEF ResumeCancelled, Untouched, TypeOK
  <2>3. QED
    BY <2>1, <2>2
<1>8. ASSUME NEW r \in Requests, CancelRun(r) PROVE Bookkept(q)'
  <2>1. CASE q = r
    <3>1. /\ InFlight(r)
          /\ future'[r] \in {future[r], "cancelled"}
          /\ future'[r] = "cancelled" => future[r] \in {"open", "cancelled"}
          /\ UNCHANGED <<pc, call, pending, timerFired, outcome, answered>>
      BY <1>8 DEF CancelRun, TypeOK
    <3>2. "open" \notin Decisions /\ "cancelled" \notin Decisions
      BY DEF Decisions, Allowing
    <3>3. QED
      BY <1>0, <2>1, <3>1, <3>2 DEF Bookkept, AnsweredIsFuture, InFlight
  <2>2. CASE q # r
    BY <1>0, <1>8, <2>2, UntouchedKeeps DEF CancelRun, Untouched, TypeOK
  <2>3. QED
    BY <2>1, <2>2
<1>9. ASSUME NEW r \in Requests, NEW d \in Decisions, Respond(r, d) PROVE Bookkept(q)'
  <2>1. CASE q = r
    <3>1. /\ pc[r] # "idle"
          /\ \/ future[r] = "open" /\ future'[r] = d /\ answered'[r] = d
             \/ future[r] # "open" /\ future'[r] = future[r] /\ answered'[r] = answered[r]
          /\ UNCHANGED <<pc, call, timerFired, outcome>>
      BY <1>9 DEF Respond, TypeOK
    <3>2. {"open", "none"} \cap Decisions = {}
      BY DEF Decisions, Allowing
    <3>3. pc[r] # "done" \/ future[r] # "open" \/ outcome[r] = "timeout"
      BY <1>0, <3>2 DEF Bookkept, AnsweredIsFuture
    <3>4. QED
      BY <1>0, <2>1, <3>1, <3>2, <3>3 DEF Bookkept, AnsweredIsFuture, InFlight
  <2>2. CASE q # r
    BY <1>0, <1>9, <2>2, UntouchedKeeps DEF Respond, Untouched, TypeOK
  <2>3. QED
    BY <2>1, <2>2
<1>10. ASSUME NEW s \in Sessions, Disconnect(s) PROVE Bookkept(q)'
  <2>1. CASE ~DisconnectHook
    BY <1>0, <1>10, <2>1, UntouchedKeeps DEF Disconnect, Untouched
  <2>2. CASE DisconnectHook
    <3>1. /\ UNCHANGED <<pc, call, timerFired, outcome>>
          /\ CancelSession(s)
      BY <1>10, <2>2 DEF Disconnect
    <3>2. CASE q \in pending /\ call[q].session = s /\ future[q] = "open"
      <4>1. future'[q] = "deny_once" /\ answered'[q] = "deny_once"
        BY <3>1, <3>2 DEF CancelSession
      <4>2. "deny_once" \in Decisions /\ "none" \notin Decisions /\ "open" \notin Decisions
        BY DEF Decisions, Allowing
      <4>3. pc[q] # "idle" /\ (pc[q] = "done" => outcome[q] = "timeout" /\ timerFired[q])
        BY <1>0, <3>2, <4>2 DEF Bookkept, AnsweredIsFuture
      <4>4. QED
        BY <1>0, <3>1, <4>1, <4>2, <4>3 DEF Bookkept, AnsweredIsFuture, InFlight
    <3>3. CASE ~(q \in pending /\ call[q].session = s /\ future[q] = "open")
      <4>1. /\ future'[q] = future[q] /\ answered'[q] = answered[q]
            /\ q \in pending' => q \in pending
            /\ future[q] = "open" /\ q \in pending => q \in pending'
        BY <3>1, <3>3 DEF CancelSession
      <4>2. QED
        BY <1>0, <3>1, <4>1 DEF Bookkept, AnsweredIsFuture, InFlight
    <3>4. QED
      BY <3>2, <3>3
  <2>3. QED
    BY <2>1, <2>2
<1>11. ASSUME Restart PROVE Bookkept(q)'
  <2>1. /\ pc'[q] = IF InFlight(q) THEN "aborted" ELSE pc[q]
        /\ q \notin pending'
        /\ UNCHANGED <<call, future, timerFired, outcome, answered>>
    BY <1>11 DEF Restart
  <2>2. QED
    BY <1>0, <2>1 DEF Bookkept, AnsweredIsFuture, InFlight
<1>12. ASSUME UNCHANGED vars PROVE Bookkept(q)'
  BY <1>0, <1>12, UntouchedKeeps DEF vars, Untouched
<1>13. QED
  BY <1>1, <1>2, <1>3, <1>4, <1>5, <1>6, <1>7, <1>8, <1>9, <1>10, <1>11,
     <1>12, NextCases

LEMMA GateInit == Init => GateInv
BY DEF Init, GateInv, Bookkept, AnsweredIsFuture, InFlight, Decisions, Allowing

\* No standing answer, late answer, timeout or restart ever lets a command
\* with a deny pattern run, or one that leaves the working directory without
\* an allowing answer to that very request.
THEOREM ForcedAskHolds == Spec => []ForcedAskNotBypassed
<1>1. Spec => []TypeOK
  BY TypeCorrect
<1>2. Spec => []GateInv
  BY <1>1, GateInit, GateStep, PTL DEF Spec
<1>3. QED
  BY <1>1, <1>2, GateInvGives, PTL

\* Whoever is still waiting can still be answered.
THEOREM WaiterAnswerableHolds == Spec => []WaiterAnswerable
<1>1. Spec => []TypeOK
  BY TypeCorrect
<1>2. Spec => []GateInv
  BY <1>1, GateInit, GateStep, PTL DEF Spec
<1>3. QED
  BY <1>1, <1>2, GateInvGives, PTL

\* A call that was asked about returns the user's answer, or "timeout".
THEOREM ReturnsTheAnswerHolds == Spec => []ReturnsTheAnswer
<1>1. Spec => []TypeOK
  BY TypeCorrect
<1>2. Spec => []GateInv
  BY <1>1, GateInit, GateStep, PTL DEF Spec
<1>3. QED
  BY <1>1, <1>2, GateInvGives, PTL
-----------------------------------------------------------------------------
(***************************************************************************)
(* Consent.  What the three stores of standing answers allow, some user    *)
(* granted; outcomes are never taken back, so Granted only grows.          *)
(***************************************************************************)
ConsentInv ==
    /\ ConsentBehindAutoAllow
    /\ \A s \in Sessions, t \in Tools : sessionAlways[s][t] = "allow" => Granted(t)
    /\ \A t \in Tools : persistentAlways[t] = "allow" => Granted(t)
    /\ \A t \in Tools : policyFile[t] = "allow" => Granted(t)

\* Only a fresh request takes parameters, only a request in flight an outcome.
LEMMA OutcomesStay ==
    ASSUME TypeOK, GateInv, [Next]_vars, NEW q \in Requests, outcome[q] # "none"
    PROVE  outcome'[q] = outcome[q] /\ call'[q] = call[q]
<1>0. pc[q] = "done"
  BY DEF GateInv, Bookkept
<1>1. \A r \in Requests : pc[r] # "done" => r # q
  BY <1>0
<1> DEFINE G == outcome'[q] = outcome[q] /\ call'[q] = call[q]
<1>2. \A r \in Requests, c \in Calls : CheckAuto(r, c) => G
  BY <1>1 DEF CheckAuto, TypeOK
<1>3. \A r \in Requests, c \in Calls : CheckAsk(r, c) => G
  BY <1>1 DEF CheckAsk, TypeOK
<1>4. \A r \in Requests : Emitted(r) => G
  BY <1>1 DEF Emitted, ReturnAnswer, TypeOK
<1>5. \A r \in Requests : TimerFires(r) => G
  BY DEF TimerFires
<1>6. \A r \in Requests : ResumeAnswered(r) => G
  BY <1>1 DEF ResumeAnswered, ReturnAnswer, TypeOK
<1>7. \A r \in Requests : ResumeTimeout(r) => G
  BY <1>1 DEF ResumeTimeout, TypeOK
<1>8. \A r \in Requests : ResumeCancelled(r) => G
  BY DEF ResumeCancelled
<1>9. \A r \in Requests : CancelRun(r) => G
  BY DEF CancelRun
<1>10. \A r \in Requests, d \in Decisions : Respond(r, d) => G
  BY DEF Respond
<1>11. \A s \in Sessions : Disconnect(s) => G
  BY DEF Disconnect
<1>12. Restart => G
  BY DEF Restart
<1>13. UNCHANGED vars => G
  BY DEF vars
<1> HIDE DEF G
<1>14. G
  BY <1>2, <1>3, <1>4, <1>5, <1>6, <1>7, <1>8, <1>9, <1>10, <1>11, <1>12,
     <1>13, NextCases
<1>15. QED
  BY <1>14 DEF G

LEMMA GrantedGrows ==
    ASSUME TypeOK, GateInv, [Next]_vars, NEW t \in Tools, Granted(t)
    PROVE  Granted(t)'
BY OutcomesStay DEF Granted

\* A step that touches neither a cache nor an outcome keeps consent.
LEMMA QuietConsent ==
    ASSUME TypeOK, GateInv, ConsentInv, [Next]_vars, UNCHANGED caches,
           \A r \in Requests : outcome'[r] = "auto_allow" => outcome[r] = "auto_allow"
    PROVE  ConsentInv'
<1>1. \A t \in Tools : Granted(t) => Granted(t)'
  BY GrantedGrows
<1>2. ASSUME NEW r \in Requests, outcome'[r] = "auto_allow",
             call'[r].kind = "plain", Default[call'[r].tool] # "allow"
      PROVE  Granted(call[r].tool)'
  <2>1. outcome[r] = "auto_allow" /\ pc[r] = "done"
    BY <1>2 DEF GateInv, Bookkept
  <2>2. call'[r] = call[r] /\ call[r].tool \in Tools
    BY <2>1, OutcomesStay DEF TypeOK, Calls
  <2>3. QED
    BY <1>1, <1>2, <2>1, <2>2 DEF ConsentInv, ConsentBehindAutoAllow
<1>3. ConsentBehindAutoAllow'
  BY <1>2 DEF ConsentBehindAutoAllow
<1>4. QED
  BY <1>1, <1>3 DEF ConsentInv, caches, outer

LEMMA ConsentStep ==
    ASSUME TypeOK, GateInv, ConsentInv, [Next]_vars PROVE ConsentInv'
<1>0. \A t \in Tools : Granted(t) => Granted(t)'
  BY GrantedGrows
<1>1. ASSUME NEW r \in Requests, NEW c \in Calls, CheckAuto(r, c) PROVE ConsentInv'
  <2>1. ASSUME NEW q \in Requests, outcome'[q] = "auto_allow",
               call'[q].kind = "plain", Default[call'[q].tool] # "allow"
        PROVE  Granted(call[q].tool)'
    <3>1. CASE q = r
      <4>1. call'[r] = c /\ Verdict(c) = "auto_allow"
        BY <1>1, <2>1, <3>1 DEF CheckAuto, TypeOK
      <4>2. Remembered(c) = "allow"
        <5>1. c.tool \in Tools /\ c.session \in Sessions
          BY DEF Calls
        <5>2. Remembered(c) \in Cached
          BY <5>1 DEF Remembered, TypeOK
        <5>3. Default[c.tool] \in {"allow", "deny", "ask"}
          BY <5>1, PermissionAssumption
        <5>4. QED
          BY <2>1, <3>1, <4>1, <5>2, <5>3 DEF Verdict, AutoDecision, Cached
      <4>3. PICK t \in Tools : t = c.tool /\ Granted(t)
        BY <4>2 DEF Remembered, ConsentInv, Calls
      <4>4. Granted(t)' /\ t = call'[q].tool
        BY <1>0, <3>1, <4>1, <4>3
      <4>5. QED
        BY <4>4 DEF Granted
    <3>2. CASE q # r
      <4>1. outcome[q] = "auto_allow" /\ call'[q] = call[q] /\ pc[q] = "done"
        BY <1>1, <2>1, <3>2 DEF CheckAuto, TypeOK, GateInv, Bookkept
      <4>2. PICK t \in Tools : t = call[q].tool /\ Granted(t)
        BY <2>1, <4>1 DEF ConsentInv, ConsentBehindAutoAllow, TypeOK, Calls
      <4>3. Granted(t)' /\ t = call'[q].tool
        BY <1>0, <4>1, <4>2
      <4>4. QED
        BY <4>3 DEF Granted
    <3>3. QED
      BY <3>1, <3>2
  <2>2. UNCHANGED caches
    BY <1>1 DEF CheckAuto
  <2>3. ConsentBehindAutoAllow'
    BY <2>1 DEF ConsentBehindAutoAllow
  <2>4. QED
    BY <1>0, <2>2, <2>3 DEF ConsentInv, caches, outer
<1>2. ASSUME NEW r \in Requests, ReturnAnswer(r), InFlight(r) PROVE ConsentInv'
  <2>1. /\ outcome' = [outcome EXCEPT ![r] = future[r]]
        /\ call' = call /\ future[r] \in Decisions /\ call[r] \in Calls
        /\ ApplyResponse(call[r], future[r])
    BY <1>2 DEF ReturnAnswer, Resolved, TypeOK, InFlight
  <2>2. CASE future[r] \notin Standing
    <3>1. UNCHANGED caches
      BY <2>1, <2>2 DEF ApplyResponse
    <3>2. "auto_allow" \notin Decisions
      BY DEF Decisions, Allowing
    <3>3. QED
      BY <2>1, <3>1, <3>2, QuietConsent DEF TypeOK
  <2>3. CASE future[r] \in Standing
    <3> DEFINE v == IF future[r] = "always_allow" THEN "allow" ELSE "deny"
    <3>0. PICK s0 \in Sessions, t0 \in Tools : call[r].session = s0 /\ call[r].tool = t0
      BY <2>1 DEF Calls
    <3>1. /\ sessionAlways' = [sessionAlways EXCEPT ![s0][t0] = v]
          /\ persistentAlways' = [persistentAlways EXCEPT ![t0] = v]
          /\ Save(persistentAlways')
      BY <2>1, <2>3, <3>0 DEF ApplyResponse
    <3>2. v = "allow" => Granted(t0)'
      BY <2>1, <3>0 DEF Granted, TypeOK
    <3> HIDE DEF v
    <3>4. \A t \in Tools : persistentAlways'[t] = "allow" => Granted(t)'
      BY <1>0, <3>1, <3>2 DEF TypeOK, ConsentInv
    <3>5. \A s \in Sessions, t \in Tools : sessionAlways'[s][t] = "allow" => Granted(t)'
      BY <1>0, <3>1, <3>2 DEF TypeOK, ConsentInv
    <3>6. \A t \in Tools : policyFile'[t] = "allow" => Granted(t)'
      <4>1. \A ts : \A t \in Tools :
                Lines(persistentAlways', ts)[t] = "allow" => Granted(t)'
        BY <3>4 DEF Lines
      <4>2. \A t \in Tools : policyFile[t] = "allow" => Granted(t)'
        BY <1>0, <3>1 DEF ConsentInv
      <4>3. QED
        BY <3>1, <3>4, <4>1, <4>2 DEF Save
    <3>7. ASSUME NEW q \in Requests, outcome'[q] = "auto_allow",
                 call'[q].kind = "plain", Default[call'[q].tool] # "allow"
          PROVE  Granted(call[q].tool)'
      <4>1. outcome[q] = "auto_allow" /\ pc[q] = "done"
        BY <2>1, <2>3, <3>7 DEF TypeOK, Standing, GateInv, Bookkept
      <4>2. PICK t \in Tools : t = call[q].tool /\ Granted(t)
        BY <2>1, <3>7, <4>1 DEF ConsentInv, ConsentBehindAutoAllow, TypeOK, Calls
      <4>3. Granted(t)' /\ t = call'[q].tool
        BY <1>0, <2>1, <4>2
      <4>4. QED
        BY <4>3 DEF Granted
    <3>8. ConsentBehindAutoAllow'
      BY <3>7 DEF ConsentBehindAutoAllow
    <3>9. QED
      BY <3>4, <3>5, <3>6, <3>8 DEF ConsentInv
  <2>4. QED
    BY <2>2, <2>3
<1>3. ASSUME NEW r \in Requests, Emitted(r) PROVE ConsentInv'
  BY <1>2, <1>3, QuietConsent DEF Emitted, InFlight
<1>4. ASSUME NEW r \in Requests, ResumeAnswered(r) PROVE ConsentInv'
  BY <1>2, <1>4 DEF ResumeAnswered, InFlight
<1>5. ASSUME NEW r \in Requests, ResumeTimeout(r) PROVE ConsentInv'
  BY <1>5, QuietConsent DEF ResumeTimeout, TypeOK
<1>6. ASSUME Restart PROVE ConsentInv'
  <2>1. /\ persistentAlways' = policyFile /\ policyFile' = policyFile
        /\ sessionAlways' = [s \in Sessions |-> [t \in Tools |-> "none"]]
        /\ outcome' = outcome /\ call' = call
    BY <1>6 DEF Restart
  <2>2. ConsentBehindAutoAllow'
    BY <2>1 DEF ConsentInv, ConsentBehindAutoAllow, Granted
  <2>3. QED
    BY <1>0, <2>1, <2>2 DEF ConsentInv
<1>7. (\E r \in Requests, c \in Calls : CheckAsk(r, c)) => ConsentInv'
  BY QuietConsent DEF CheckAsk
<1>8. (\E r \in Requests : TimerFires(r) \/ ResumeCancelled(r) \/ CancelRun(r))
         => ConsentInv'
  BY QuietConsent DEF TimerFires, ResumeCancelled, CancelRun
<1>9. (\E r \in Requests, d \in Decisions : Respond(r, d)) => ConsentInv'
  BY QuietConsent DEF Respond
<1>10. (\E s \in Sessions : Disconnect(s)) => ConsentInv'
  BY QuietConsent DEF Disconnect
<1>11. UNCHANGED vars => ConsentInv'
  BY QuietConsent DEF vars, caches, outer
<1>12. QED
  BY <1>1, <1>3, <1>4, <1>5, <1>6, <1>7, <1>8, <1>9, <1>10, <1>11, NextCases

LEMMA ConsentInit == Init => ConsentInv
BY DEF Init, ConsentInv, ConsentBehindAutoAllow

\* Across answers, failed writes of policy.toml and restarts, a tool that
\* asks is let through silently only after some always_allow for it.
THEOREM ConsentHolds == Spec => []ConsentBehindAutoAllow
<1>1. Spec => []TypeOK
  BY TypeCorrect
<1>2. Spec => []GateInv
  BY <1>1, GateInit, GateStep, PTL DEF Spec
<1>3. Spec => []ConsentInv
  BY <1>1, <1>2, ConsentInit, ConsentStep, PTL DEF Spec
<1>4. ConsentInv => ConsentBehindAutoAllow
  BY DEF ConsentInv
<1>5. QED
  BY <1>3, <1>4, PTL
-----------------------------------------------------------------------------
(***************************************************************************)
(* The caches against policy.toml, and against what was last said.         *)
(***************************************************************************)
LEMMA FileStep ==
    ASSUME FileMatchesMemory, [Next]_vars PROVE FileMatchesMemory'
<1> USE DEF FileMatchesMemory
<1>1. UNCHANGED caches => FileMatchesMemory'
  BY DEF caches, outer
<1>2. ASSUME NEW c, NEW d, ApplyResponse(c, d) PROVE FileMatchesMemory'
  BY <1>1, <1>2 DEF ApplyResponse, Save
<1>3. \A r \in Requests, c \in Calls : CheckAuto(r, c) \/ CheckAsk(r, c) => UNCHANGED caches
  BY DEF CheckAuto, CheckAsk
<1>4. \A r \in Requests : TimerFires(r) \/ ResumeTimeout(r) \/ ResumeCancelled(r)
                            \/ CancelRun(r) => UNCHANGED caches
  BY DEF TimerFires, ResumeTimeout, ResumeCancelled, CancelRun
<1>5. \A r \in Requests : Emitted(r) \/ ResumeAnswered(r) => FileMatchesMemory'
  BY <1>1, <1>2 DEF Emitted, ResumeAnswered, ReturnAnswer
<1>6. \A r \in Requests, d \in Decisions : Respond(r, d) => UNCHANGED caches
  BY DEF Respond
<1>7. \A s \in Sessions : Disconnect(s) => UNCHANGED caches
  BY DEF Disconnect
<1>8. Restart => FileMatchesMemory'
  BY DEF Restart
<1>9. UNCHANGED vars => UNCHANGED caches
  BY DEF vars, caches, outer
<1>10. QED
  BY <1>1, <1>3, <1>4, <1>5, <1>6, <1>7, <1>8, <1>9, NextCases

\* Unless the last write failed, a restart brings back the standing answers
\* that were in force.
THEOREM FileMatchesMemoryHolds == Spec => []FileMatchesMemory
<1>1. Init => FileMatchesMemory
  BY DEF Init, FileMatchesMemory
<1>2. QED
  BY <1>1, FileStep, PTL DEF Spec

CacheIsSaid == sessionAlways = said

LEMMA CacheIsSaidStep ==
    ASSUME CacheIsSaid, [Next]_vars PROVE CacheIsSaid'
<1> USE DEF CacheIsSaid
<1>1. UNCHANGED caches => CacheIsSaid'
  BY DEF caches, outer
<1>2. ASSUME NEW c, NEW d, ApplyResponse(c, d) PROVE CacheIsSaid'
  BY <1>1, <1>2 DEF ApplyResponse
<1>3. \A r \in Requests, c \in Calls : CheckAuto(r, c) \/ CheckAsk(r, c) => UNCHANGED caches
  BY DEF CheckAuto, CheckAsk
<1>4. \A r \in Requests : TimerFires(r) \/ ResumeTimeout(r) \/ ResumeCancelled(r)
                            \/ CancelRun(r) => UNCHANGED caches
  BY DEF TimerFires, ResumeTimeout, ResumeCancelled, CancelRun
<1>5. \A r \in Requests : Emitted(r) \/ ResumeAnswered(r) => CacheIsSaid'
  BY <1>1, <1>2 DEF Emitted, ResumeAnswered, ReturnAnswer
<1>6. \A r \in Requests, d \in Decisions : Respond(r, d) => UNCHANGED caches
  BY DEF Respond
<1>7. \A s \in Sessions : Disconnect(s) => UNCHANGED caches
  BY DEF Disconnect
<1>8. Restart => CacheIsSaid'
  BY DEF Restart
<1>9. UNCHANGED vars => UNCHANGED caches
  BY DEF vars, caches, outer
<1>10. QED
  BY <1>1, <1>3, <1>4, <1>5, <1>6, <1>7, <1>8, <1>9, NextCases

\* Only CheckAuto takes a request from idle to done.
LEMMA DecidedAtOnce ==
    ASSUME TypeOK, [Next]_vars, NEW q \in Requests, pc[q] = "idle", pc'[q] = "done"
    PROVE  \E c \in Calls : CheckAuto(q, c)
<1> DEFINE G == \E c \in Calls : CheckAuto(q, c)
<1>1. ASSUME NEW r \in Requests, NEW c \in Calls, CheckAuto(r, c) PROVE G
  BY <1>1 DEF CheckAuto, TypeOK
<1>2. ASSUME NEW r \in Requests, NEW c \in Calls, CheckAsk(r, c) PROVE G
  BY <1>2 DEF CheckAsk, TypeOK
<1>3. ASSUME NEW r \in Requests,
             Emitted(r) \/ ResumeAnswered(r) \/ ResumeTimeout(r) \/ ResumeCancelled(r)
      PROVE  G
  BY <1>3 DEF Emitted, ResumeAnswered, ResumeTimeout, ResumeCancelled, ReturnAnswer,
              InFlight, TypeOK
<1>4. ASSUME NEW r \in Requests, TimerFires(r) \/ CancelRun(r) PROVE G
  BY <1>4 DEF TimerFires, CancelRun
<1>5. ASSUME NEW r \in Requests, NEW d \in Decisions, Respond(r, d) PROVE G
  BY <1>5 DEF Respond
<1>6. ASSUME NEW s \in Sessions, Disconnect(s) PROVE G
  BY <1>6 DEF Disconnect
<1>7. ASSUME Restart PROVE G
  BY <1>7 DEF Restart
<1>8. ASSUME UNCHANGED vars PROVE G
  BY <1>8 DEF vars
<1> HIDE DEF G
<1>9. G
  BY <1>1, <1>2, <1>3, <1>4, <1>5, <1>6, <1>7, <1>8, NextCases
<1>10. QED
  BY <1>9 DEF G

\* A call decided without asking follows its own session's last word.
THEOREM LastWordHolds_Spec == Spec => LastWordHolds
<1> DEFINE A == \A r \in Requests :
                  /\ pc[r] = "idle" /\ pc'[r] = "done"
                  /\ call'[r].kind # "deny_pattern"
                  /\ said[call'[r].session][call'[r].tool] # "none"
                  => outcome'[r] = AutoDecision(said[call'[r].session][call'[r].tool])
<1>1. TypeOK /\ CacheIsSaid /\ [Next]_vars => A
  <2> SUFFICES ASSUME TypeOK, CacheIsSaid, [Next]_vars, NEW r \in Requests,
                      pc[r] = "idle", pc'[r] = "done",
                      call'[r].kind # "deny_pattern",
                      said[call'[r].session][call'[r].tool] # "none"
               PROVE  outcome'[r] = AutoDecision(said[call'[r].session][call'[r].tool])
    OBVIOUS
  <2>1. PICK c \in Calls : CheckAuto(r, c)
    BY DecidedAtOnce
  <2>2. call'[r] = c /\ outcome'[r] = Verdict(c) /\ Verdict(c) # "ask"
    BY <2>1 DEF CheckAuto, TypeOK
  <2>3. QED
    BY <2>2 DEF Verdict, Remembered, CacheIsSaid
<1>2. Init => CacheIsSaid
  BY DEF Init, CacheIsSaid
<1>3. Spec => []CacheIsSaid
  BY <1>2, CacheIsSaidStep, PTL DEF Spec
<1>4. Spec => []TypeOK
  BY TypeCorrect
<1>5. LastWordHolds <=> [][A]_vars
  BY DEF LastWordHolds
<1> HIDE DEF A
<1>6. Spec => [][A]_vars
  BY <1>1, <1>3, <1>4, PTL DEF Spec
<1>7. QED
  BY <1>5, <1>6
-----------------------------------------------------------------------------
(***************************************************************************)
(* The gate implements the approval protocol: every step maps to one of    *)
(* its steps or to a stutter.                                              *)
(***************************************************************************)
StatusMap == [r \in Requests |-> Status(r)]

LEMMA StatusTable ==
    ASSUME NEW r \in Requests, TypeOK
    PROVE  /\ pc[r] = "idle" => Status(r) = "idle"
           /\ InFlight(r) => Status(r) = "open"
           /\ pc[r] = "aborted" => Status(r) = "abandoned"
           /\ pc[r] = "done" /\ Allowed(r) => Status(r) = "allowed"
           /\ pc[r] = "done" /\ ~Allowed(r) => Status(r) = "refused"
BY DEF Status, InFlight

LEMMA StatusKept ==
    ASSUME NEW r \in Requests, pc'[r] = pc[r], outcome'[r] = outcome[r]
    PROVE  Status(r)' = Status(r)
BY DEF Status, InFlight, Allowed

\* A step that moves no request and answers none is a stutter.
LEMMA QuietIsStutter ==
    ASSUME pc' = pc, outcome' = outcome, answered' = answered
    PROVE  UNCHANGED <<StatusMap, answered>>
BY StatusKept DEF StatusMap

\* A step that moves only r changes the mapped state only at r.
LEMMA OneMoves ==
    ASSUME TypeOK, NEW r \in Requests, NEW p, NEW o,
           pc' = [pc EXCEPT ![r] = p], outcome' = [outcome EXCEPT ![r] = o]
    PROVE  StatusMap' = [StatusMap EXCEPT ![r] = Status(r)']
<1>1. \A q \in Requests \ {r} : Status(q)' = Status(q)
  BY StatusKept DEF TypeOK
<1>2. QED
  BY <1>1 DEF StatusMap

LEMMA StepRefines ==
    ASSUME TypeOK, TypeOK', GateInv, [Next]_vars
    PROVE  [Abstract!ANext]_(Abstract!avars)
<1> DEFINE G == [Abstract!ANext]_(Abstract!avars)
<1>0. ASSUME pc' = pc, outcome' = outcome, answered' = answered PROVE G
  BY <1>0, QuietIsStutter DEF StatusMap, Abstract!avars
<1>1. ASSUME NEW r \in Requests, NEW c \in Calls, CheckAuto(r, c) PROVE G
  <2>1. StatusMap' = [StatusMap EXCEPT ![r] = Status(r)']
    BY <1>1, OneMoves DEF CheckAuto
  <2>2. Status(r) = "idle" /\ Status(r)' \in {"allowed", "refused"} /\ answered' = answered
    BY <1>1, StatusTable DEF CheckAuto, TypeOK, Status, InFlight
  <2>3. Abstract!Settle(r)
    BY <2>1, <2>2 DEF Abstract!Settle, StatusMap
  <2>4. QED
    BY <2>3 DEF Abstract!ANext
<1>2. ASSUME NEW r \in Requests, NEW c \in Calls, CheckAsk(r, c) PROVE G
  <2>1. pc' = [pc EXCEPT ![r] = "emitting"] /\ outcome' = [outcome EXCEPT ![r] = outcome[r]]
    BY <1>2 DEF CheckAsk, TypeOK
  <2>2. StatusMap' = [StatusMap EXCEPT ![r] = Status(r)']
    BY <2>1, OneMoves
  <2>3. Status(r) = "idle" /\ Status(r)' = "open" /\ answered' = answered
    BY <1>2, <2>1, StatusTable DEF CheckAsk, TypeOK, Status, InFlight
  <2>4. Abstract!Open(r)
    BY <2>2, <2>3 DEF Abstract!Open, StatusMap
  <2>5. QED
    BY <2>4 DEF Abstract!ANext
<1>3. ASSUME NEW r \in Requests, ReturnAnswer(r), InFlight(r) PROVE G
  <2>1. StatusMap' = [StatusMap EXCEPT ![r] = Status(r)']
    BY <1>3, OneMoves DEF ReturnAnswer
  <2>2. /\ answered[r] = future[r] /\ future[r] \in Decisions /\ answered' = answered
        /\ pc'[r] = "done" /\ outcome'[r] = future[r]
    BY <1>3 DEF ReturnAnswer, Resolved, GateInv, Bookkept, AnsweredIsFuture, TypeOK
  <2>3. Status(r) = "open"
    BY <1>3, StatusTable
  <2>4. CASE future[r] \in Allowing
    <3>1. Status(r)' = "allowed"
      BY <2>2, <2>4 DEF Status, InFlight, Allowed
    <3>2. Abstract!Grant(r)
      BY <2>1, <2>2, <2>3, <2>4, <3>1 DEF Abstract!Grant, StatusMap
    <3>3. QED
      BY <3>2 DEF Abstract!ANext
  <2>5. CASE future[r] \notin Allowing
    <3>1. future[r] # "auto_allow"
      BY <2>2 DEF Decisions, Allowing
    <3>2. Status(r)' = "refused"
      BY <2>2, <2>5, <3>1 DEF Status, InFlight, Allowed
    <3>3. Abstract!Decline(r)
      BY <2>1, <2>2, <2>3, <3>2 DEF Abstract!Decline, StatusMap
    <3>4. QED
      BY <3>3 DEF Abstract!ANext
  <2>6. QED
    BY <2>4, <2>5
<1>4. ASSUME NEW r \in Requests, Emitted(r) PROVE G
  <2>1. CASE ReturnAnswer(r)
    BY <1>3, <1>4, <2>1 DEF Emitted, InFlight
  <2>2. CASE ~ReturnAnswer(r)
    <3>1. /\ pc' = [pc EXCEPT ![r] = "waiting"]
          /\ outcome' = [outcome EXCEPT ![r] = outcome[r]]
          /\ answered' = answered /\ pc[r] = "emitting"
      BY <1>4, <2>2 DEF Emitted, TypeOK
    <3>2. StatusMap' = [StatusMap EXCEPT ![r] = Status(r)']
      BY <3>1, OneMoves
    <3>3. Status(r)' = Status(r)
      BY <3>1 DEF Status, InFlight, TypeOK
    <3>4. UNCHANGED <<StatusMap, answered>>
      BY <3>1, <3>2, <3>3 DEF StatusMap
    <3>5. QED
      BY <3>4 DEF StatusMap, Abstract!avars
  <2>3. QED
    BY <2>1, <2>2
<1>5. ASSUME NEW r \in Requests, ResumeAnswered(r) PROVE G
  BY <1>3, <1>5 DEF ResumeAnswered, InFlight
<1>6. ASSUME NEW r \in Requests, ResumeTimeout(r) PROVE G
  <2>1. StatusMap' = [StatusMap EXCEPT ![r] = Status(r)']
    BY <1>6, OneMoves DEF ResumeTimeout
  <2>2. /\ Status(r) = "open" /\ Status(r)' = "refused" /\ answered' = answered
    BY <1>6, StatusTable DEF ResumeTimeout, TypeOK, Status, InFlight, Allowed, Allowing
  <2>3. Abstract!Decline(r)
    BY <2>1, <2>2 DEF Abstract!Decline, StatusMap
  <2>4. QED
    BY <2>3 DEF Abstract!ANext
<1>7. ASSUME NEW S \in SUBSET Requests, answered' = answered, outcome' = outcome,
             \A q \in S : InFlight(q) /\ pc'[q] = "aborted",
             \A q \in Requests \ S : pc'[q] = pc[q]
      PROVE  G
  <2>1. \A q \in S : Status(q) = "open" /\ Status(q)' = "abandoned"
    BY <1>7, StatusTable DEF Status, InFlight
  <2>2. \A q \in Requests \ S : Status(q)' = Status(q)
    BY <1>7, StatusKept
  <2>3. Abstract!AbandonAll(S)
    BY <1>7, <2>1, <2>2 DEF Abstract!AbandonAll
  <2>4. QED
    BY <2>3 DEF Abstract!ANext
<1>8. ASSUME NEW r \in Requests, ResumeCancelled(r) PROVE G
  <2>0. PICK S \in SUBSET Requests : S = {r}
    OBVIOUS
  <2>1. \A q \in S : InFlight(q) /\ pc'[q] = "aborted"
    BY <1>8, <2>0 DEF ResumeCancelled, TypeOK
  <2>2. \A q \in Requests \ S : pc'[q] = pc[q]
    BY <1>8, <2>0 DEF ResumeCancelled, TypeOK
  <2>3. answered' = answered /\ outcome' = outcome
    BY <1>8 DEF ResumeCancelled
  <2>4. QED
    BY <1>7, <2>1, <2>2, <2>3
<1>9. ASSUME Restart PROVE G
  <2>0. PICK S \in SUBSET Requests : S = {q \in Requests : InFlight(q)}
    OBVIOUS
  <2>1. \A q \in S : InFlight(q) /\ pc'[q] = "aborted"
    BY <1>9, <2>0 DEF Restart
  <2>2. \A q \in Requests \ S : pc'[q] = pc[q]
    BY <1>9, <2>0 DEF Restart
  <2>3. answered' = answered /\ outcome' = outcome
    BY <1>9 DEF Restart
  <2>4. QED
    BY <1>7, <2>1, <2>2, <2>3
<1>10. ASSUME NEW S \in SUBSET Requests, NEW d \in Decisions, pc' = pc, outcome' = outcome,
              \A q \in S : future[q] = "open" /\ pc[q] # "idle" /\ answered'[q] = d,
              \A q \in Requests \ S : answered'[q] = answered[q]
       PROVE  G
  <2>1. "open" \notin Decisions
    BY DEF Decisions, Allowing
  <2>2. \A q \in S : answered[q] = "none" /\ Status(q) # "idle"
    BY <1>10, <2>1 DEF GateInv, Bookkept, AnsweredIsFuture, TypeOK, Status, InFlight
  <2>3. answered' = [q \in Requests |-> IF q \in S THEN d ELSE answered[q]]
    BY <1>10 DEF TypeOK
  <2>4. StatusMap' = StatusMap
    BY <1>10, StatusKept DEF StatusMap
  <2>5. Abstract!AnswerAll(S, d)
    BY <2>2, <2>3, <2>4 DEF Abstract!AnswerAll, StatusMap
  <2>6. d \in Allowing \cup (Decisions \ Allowing)
    OBVIOUS
  <2>7. QED
    BY <2>5, <2>6 DEF Abstract!ANext
<1>11. ASSUME NEW r \in Requests, NEW d \in Decisions, Respond(r, d) PROVE G
  <2>1. CASE future[r] = "open"
    <3>0. PICK S \in SUBSET Requests : S = {r}
      OBVIOUS
    <3>1. /\ pc' = pc /\ outcome' = outcome
          /\ \A q \in S : future[q] = "open" /\ pc[q] # "idle" /\ answered'[q] = d
          /\ \A q \in Requests \ S : answered'[q] = answered[q]
      BY <1>11, <2>1, <3>0 DEF Respond, TypeOK
    <3>2. QED
      BY <1>10, <3>1
  <2>2. CASE future[r] # "open"
    BY <1>0, <1>11, <2>2 DEF Respond
  <2>3. QED
    BY <2>1, <2>2
<1>12. ASSUME NEW s \in Sessions, Disconnect(s) PROVE G
  <2>1. CASE DisconnectHook
    <3>0. PICK S \in SUBSET Requests :
             S = {q \in Requests : /\ q \in pending /\ call[q].session = s
                                  /\ future[q] = "open"}
      OBVIOUS
    <3>1. pc' = pc /\ outcome' = outcome /\ CancelSession(s)
      BY <1>12, <2>1 DEF Disconnect
    <3>2. \A q \in S : future[q] = "open" /\ pc[q] # "idle" /\ answered'[q] = "deny_once"
      BY <3>0, <3>1 DEF CancelSession, GateInv, Bookkept
    <3>3. \A q \in Requests \ S : answered'[q] = answered[q]
      BY <3>0, <3>1 DEF CancelSession
    <3>4. "deny_once" \in Decisions
      BY DEF Decisions
    <3>5. QED
      BY <1>10, <3>1, <3>2, <3>3, <3>4
  <2>2. CASE ~DisconnectHook
    BY <1>0, <1>12, <2>2 DEF Disconnect
  <2>3. QED
    BY <2>1, <2>2
<1>13. \A r \in Requests : TimerFires(r) => G
  BY <1>0 DEF TimerFires
<1>14. \A r \in Requests : CancelRun(r) => G
  BY <1>0 DEF CancelRun
<1>15. UNCHANGED vars => G
  BY <1>0 DEF vars
<1> HIDE DEF G
<1>16. G
  BY <1>1, <1>2, <1>4, <1>5, <1>6, <1>8, <1>9, <1>11, <1>12, <1>13, <1>14, <1>15, NextCases
<1>17. QED
  BY <1>16 DEF G

\* The gate, with its Futures, timers, caches and crashes, implements the
\* approval protocol.
THEOREM GateImplementsApproval == Spec => ImplementsApproval
<1>1. Init => Abstract!AInit
  <2>1. ASSUME Init, NEW r \in Requests PROVE Status(r) = "idle"
    BY <2>1 DEF Init, Status, InFlight
  <2>2. QED
    BY <2>1 DEF Init, Abstract!AInit
<1>2. Spec => []TypeOK
  BY TypeCorrect
<1>3. Spec => []GateInv
  BY <1>2, GateInit, GateStep, PTL DEF Spec
<1>4. QED
  BY <1>1, <1>2, <1>3, StepRefines, PTL DEF Spec, ImplementsApproval, Abstract!ASpec
=============================================================================
