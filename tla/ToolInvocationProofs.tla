------------------------- MODULE ToolInvocationProofs -------------------------
(***************************************************************************)
(* Proofs about ToolInvocation, for any number of calls and retries and    *)
(* whatever implements the gate: no tool without consent, no two processes *)
(* of one call, and one closing event that tells the result.               *)
(*                                                                         *)
(* Nothing one call does touches another, so the invariant is one of a     *)
(* single call (CallInv), and every action has a lemma about its own call. *)
(***************************************************************************)
EXTENDS ToolInvocation, TLAPS

\* Before its first attempt a call has neither an attempt nor a process.
Untried(c) == pc[c] \in {"idle", "announcing", "asking", "granting", "denying"}

\* A retry is slept on only while attempts are left, and only behind an error
\* that tells that no process of the attempt is left.
TriesInv(c) ==
    /\ Untried(c) => attempt[c] = 0 /\ procs[c] = 0
    /\ pc[c] = "backing_off" => attempt[c] <= MaxRetries /\ procs[c] = 0
    /\ request[c] # "bash" => procs[c] = 0
    /\ procs[c] <= 1

ConsentInv(c) ==
    c \in gated =>
        /\ pc[c] = "granting" => status[c] = "allowed"
        /\ pc[c] \in {"running", "backing_off"} => status[c] = "allowed"
        /\ attempt[c] > 0 => status[c] = "allowed"

\* The attempt the next failure of the call is numbered with.
NextFailure(c) ==
    IF Len(log[c]) > 0 /\ log[c][Len(log[c])].type = "failed"
    THEN log[c][Len(log[c])].attempt + 1 ELSE 1

Closed(c) == pc[c] \in {"closing", "returned", "cancelled"}

\* What the log of a call has in common with where the call stands.
LogInv(c) ==
    /\ CountsUp(c)
    /\ \A i \in 1..Len(log[c]) : Closes(c, log[c][i]) => i = Len(log[c]) /\ Closed(c)
    /\ Untried(c) => NextFailure(c) = 1
    /\ pc[c] = "running" => NextFailure(c) = attempt[c]
    /\ pc[c] = "backing_off" => NextFailure(c) = attempt[c] + 1
    /\ ~Closed(c) /\ pc[c] \notin {"idle", "announcing"} => request[c] # "unknown_tool"
    /\ pc[c] \in {"closing", "returned"} =>
          LET last == log[c][Len(log[c])] IN Closes(c, last) /\ Tells(last, outcome[c])
    /\ pc[c] = "returned" => result[c] = outcome[c]

CallInv(c) ==
    /\ TriesInv(c)
    /\ ConsentInv(c)
    /\ LogInv(c)

Inv == TypeOK /\ \A c \in Calls : CallInv(c)

\* A step of c's own.
OwnStep(c) ==
    /\ UNCHANGED input
    /\ \A d \in Calls \ {c} :
          /\ pc'[d] = pc[d] /\ attempt'[d] = attempt[d] /\ log'[d] = log[d]
          /\ outcome'[d] = outcome[d] /\ result'[d] = result[d]
          /\ procs'[d] = procs[d] /\ status'[d] = status[d]

LEMMA InitInv == Init => Inv
<1>1. ASSUME Init PROVE TypeOK
  BY <1>1, InvocationAssumption DEF Init, TypeOK, PCs, Gate!AInit
<1>2. ASSUME Init, NEW c \in Calls PROVE TriesInv(c) /\ ConsentInv(c)
  BY <1>2, InvocationAssumption DEF Init, TriesInv, ConsentInv, Untried
<1>3. ASSUME Init, NEW c \in Calls PROVE LogInv(c)
  <2>1. log[c] = <<>> /\ Len(log[c]) = 0 /\ pc[c] = "idle"
    BY <1>3 DEF Init
  <2> QED
    BY <2>1 DEF LogInv, CountsUp, NextFailure, Untried, Closed
<1> QED
  BY <1>1, <1>2, <1>3 DEF Inv, CallInv

\* A step of one call that keeps its own invariant keeps everyone's.
LEMMA OthersKept == ASSUME Inv, NEW c \in Calls, OwnStep(c), TypeOK', CallInv(c)'
                    PROVE  Inv'
<1>1. ASSUME NEW d \in Calls, d # c PROVE CallInv(d)'
  <2>1. CallInv(d)
    BY DEF Inv
  <2>2. /\ pc'[d] = pc[d] /\ attempt'[d] = attempt[d] /\ log'[d] = log[d]
        /\ outcome'[d] = outcome[d] /\ result'[d] = result[d]
        /\ procs'[d] = procs[d] /\ status'[d] = status[d]
        /\ request' = request /\ gated' = gated
    BY <1>1 DEF OwnStep, input
  <2>3. TriesInv(d)' /\ ConsentInv(d)'
    BY <2>1, <2>2 DEF CallInv, TriesInv, ConsentInv, Untried
  <2>4. LogInv(d)'
    BY <2>1, <2>2 DEF CallInv, LogInv, CountsUp, Closes, Closed, Untried, NextFailure, Tells
  <2> QED
    BY <2>3, <2>4 DEF CallInv
<1> QED
  BY <1>1 DEF Inv

-----------------------------------------------------------------------------
(***************************************************************************)
(* What the parts of a step do to their call.                              *)
(***************************************************************************)
\* Publishing keeps the log's type and puts the event last.
LEMMA PublishLast ==
    ASSUME TypeOK, NEW c \in Calls, NEW e \in Events, Publish(c, e)
    PROVE  /\ log' \in [Calls -> Seq(Events)]
           /\ Len(log'[c]) = Len(log[c]) + 1 /\ Len(log[c]) \in Nat
           /\ log'[c][Len(log'[c])] = e
           /\ \A i \in 1..Len(log[c]) : log'[c][i] = log[c][i]
           /\ \A d \in Calls \ {c} : log'[d] = log[d]
<1>1. log \in [Calls -> Seq(Events)]
  BY DEF TypeOK
<1>2. log[c] \in Seq(Events) /\ log'[c] = Append(log[c], e)
  BY <1>1 DEF Publish
<1>3. /\ Append(log[c], e) \in Seq(Events)
      /\ Len(log'[c]) = Len(log[c]) + 1 /\ Len(log[c]) \in Nat
      /\ log'[c][Len(log'[c])] = e
      /\ \A i \in 1..Len(log[c]) : log'[c][i] = log[c][i]
  BY <1>2
<1> QED
  BY <1>1, <1>2, <1>3 DEF Publish

\* An open call that publishes an event, a failure with its number, goes on
\* counting up, and the new event alone may be a closing one.
LEMMA PublishCounts ==
    ASSUME TypeOK, NEW c \in Calls, LogInv(c), ~Closed(c), NEW e \in Events,
           Publish(c, e), UNCHANGED input,
           e.type = "failed" => e.attempt = NextFailure(c)
    PROVE  /\ CountsUp(c)'
           /\ \A i \in 1..Len(log'[c]) :
                 Closes(c, log[c][i])' => i = Len(log'[c]) /\ Closes(c, e)
           /\ NextFailure(c)' = IF e.type = "failed" THEN e.attempt + 1 ELSE 1
<1>1. /\ Len(log'[c]) = Len(log[c]) + 1 /\ Len(log[c]) \in Nat
      /\ log'[c][Len(log'[c])] = e
      /\ \A i \in 1..Len(log[c]) : log'[c][i] = log[c][i]
  BY PublishLast
<1>2. ASSUME NEW i \in 1..Len(log'[c])
      PROVE  i = Len(log'[c]) \/ (i \in 1..Len(log[c]) /\ i # Len(log'[c]))
  BY <1>1, <1>2
<1>3. CountsUp(c)'
  <2>1. ASSUME NEW i \in 1..Len(log'[c]), log'[c][i].type = "failed"
        PROVE  log'[c][i].attempt = IF i > 1 /\ log'[c][i - 1].type = "failed"
                                    THEN log'[c][i - 1].attempt + 1 ELSE 1
    <3>1. CASE i \in 1..Len(log[c])
      <4>1. log'[c][i] = log[c][i] /\ (i > 1 => log'[c][i - 1] = log[c][i - 1])
        BY <1>1, <3>1
      <4> QED
        BY <2>1, <3>1, <4>1 DEF LogInv, CountsUp
    <3>2. CASE i = Len(log'[c])
      <4>1. i > 1 => i - 1 = Len(log[c]) /\ log'[c][i - 1] = log[c][Len(log[c])]
        BY <1>1, <3>2
      <4>2. i > 1 <=> Len(log[c]) > 0
        BY <1>1, <3>2
      <4>3. log'[c][i].attempt = NextFailure(c)
        BY <1>1, <2>1, <3>2
      <4> QED
        BY <4>1, <4>2, <4>3 DEF NextFailure
    <3> QED
      BY <1>2, <3>1, <3>2
  <2> QED
    BY <2>1 DEF CountsUp
<1>4. ASSUME NEW i \in 1..Len(log'[c]), Closes(c, log[c][i])'
      PROVE  i = Len(log'[c]) /\ Closes(c, e)
  <2>1. CASE i \in 1..Len(log[c])
    <3>1. Closes(c, log[c][i])
      BY <1>1, <1>4, <2>1 DEF Closes, input
    <3> QED
      BY <2>1, <3>1 DEF LogInv
  <2>2. CASE i = Len(log'[c])
    BY <1>1, <1>4, <2>2 DEF Closes, input
  <2> QED
    BY <1>2, <2>1, <2>2
<1>5. NextFailure(c)' = IF e.type = "failed" THEN e.attempt + 1 ELSE 1
  BY <1>1 DEF NextFailure
<1> QED
  BY <1>3, <1>4, <1>5

\* A step that leaves the log alone keeps what only the log says.
LEMMA LogKept ==
    ASSUME TypeOK, NEW c \in Calls, LogInv(c), log'[c] = log[c], UNCHANGED input
    PROVE  /\ CountsUp(c)'
           /\ NextFailure(c)' = NextFailure(c)
           /\ \A i \in 1..Len(log'[c]) : Closes(c, log[c][i])' <=> Closes(c, log[c][i])
  BY DEF LogInv, CountsUp, NextFailure, Closes, input

\* A call that fails for good has told its outcome.
LEMMA FailTells ==
    ASSUME TypeOK, NEW c \in Calls, LogInv(c), ~Closed(c), NEW class \in Classes,
           Fail(c, class, NextFailure(c)), NextFailure(c) \in Nat, UNCHANGED input,
           \/ class \notin Retryable
           \/ NextFailure(c) > MaxRetries
           \/ request[c] = "unknown_tool"
    PROVE  /\ pc' \in [Calls -> PCs] /\ pc'[c] = "closing"
           /\ log' \in [Calls -> Seq(Events)]
           /\ outcome' \in [Calls -> Classes \cup {"none", "ok"}] /\ result' = result
           /\ LogInv(c)'
           /\ \A d \in Calls \ {c} :
                 pc'[d] = pc[d] /\ log'[d] = log[d] /\ outcome'[d] = outcome[d]
<1> DEFINE e == Event("failed", class, NextFailure(c))
<1>1. e \in Events /\ e.type = "failed" /\ e.class = class /\ e.attempt = NextFailure(c)
  BY DEF Event, Events
<1>2. Publish(c, e)
  BY DEF Fail
<1> HIDE DEF e
<1>3. /\ log' \in [Calls -> Seq(Events)]
      /\ log'[c][Len(log'[c])] = e
      /\ \A d \in Calls \ {c} : log'[d] = log[d]
  BY <1>1, <1>2, PublishLast
<1>4. /\ CountsUp(c)'
      /\ \A i \in 1..Len(log'[c]) : Closes(c, log[c][i])' => i = Len(log'[c])
  BY <1>1, <1>2, PublishCounts
<1>5. /\ pc' \in [Calls -> PCs] /\ pc'[c] = "closing"
      /\ outcome' \in [Calls -> Classes \cup {"none", "ok"}] /\ outcome'[c] = class
      /\ \A d \in Calls \ {c} : pc'[d] = pc[d] /\ outcome'[d] = outcome[d]
  BY DEF Fail, Goto, TypeOK, PCs
<1>6. Closes(c, log[c][Len(log[c])])'
  BY <1>1, <1>3 DEF Closes, input
<1>7. Tells(log[c][Len(log[c])], outcome[c])'
  BY <1>1, <1>3, <1>5 DEF Tells, Classes
<1>8. LogInv(c)'
  BY <1>4, <1>5, <1>6, <1>7 DEF LogInv, Closed, Untried
<1> QED
  BY <1>3, <1>5, <1>8 DEF Fail

\* An attempt that may start.
LEMMA StartToolStarts ==
    ASSUME TypeOK, NEW c \in Calls, StartTool(c), attempt[c] <= MaxRetries,
           procs[c] = 0
    PROVE  /\ pc' \in [Calls -> PCs] /\ pc'[c] = "running"
           /\ attempt' \in [Calls -> 0..(MaxRetries + 1)]
           /\ procs' \in [Calls -> Nat] /\ procs'[c] <= 1
           /\ request[c] # "bash" => procs'[c] = 0
           /\ \A d \in Calls \ {c} :
                 pc'[d] = pc[d] /\ attempt'[d] = attempt[d] /\ procs'[d] = procs[d]
<1>1. attempt[c] + 1 \in 0..(MaxRetries + 1)
  BY InvocationAssumption DEF TypeOK
<1> QED
  BY <1>1 DEF StartTool, Goto, TypeOK, PCs

\* A process that is gone leaves none, of a call that has at most one.
LEMMA ProcessGoneLeavesNone ==
    ASSUME TypeOK, NEW c \in Calls, TriesInv(c), ProcessGone(c)
    PROVE  /\ procs' \in [Calls -> Nat] /\ procs'[c] = 0
           /\ \A d \in Calls \ {c} : procs'[d] = procs[d]
  BY DEF TypeOK, TriesInv, ProcessGone

-----------------------------------------------------------------------------
(***************************************************************************)
(* The actions.                                                            *)
(***************************************************************************)
LEMMA InvokeStep == ASSUME Inv, NEW c \in Calls, Invoke(c) PROVE Inv'
<1>1. TypeOK /\ CallInv(c) /\ LogInv(c)
  BY DEF Inv, CallInv
<1> DEFINE e == Event("started", "none", 0)
<1>2. e \in Events /\ e.type # "failed" /\ ~Closes(c, e)
  BY DEF Event, Events, Closes
<1>3. Publish(c, e) /\ ~Closed(c) /\ UNCHANGED input
  BY DEF Invoke, Closed
<1> HIDE DEF e
<1>4. log' \in [Calls -> Seq(Events)] /\ \A d \in Calls \ {c} : log'[d] = log[d]
  BY <1>1, <1>2, <1>3, PublishLast
<1>5. /\ CountsUp(c)' /\ NextFailure(c)' = 1
      /\ \A i \in 1..Len(log'[c]) : ~Closes(c, log[c][i])'
  BY <1>1, <1>2, <1>3, PublishCounts
<1>6. /\ TypeOK' /\ pc'[c] = "announcing"
      /\ UNCHANGED <<input, attempt, outcome, result, procs, status>>
  BY <1>1, <1>4 DEF Invoke, Goto, TypeOK, PCs, input, gate, ends
<1>7. OwnStep(c)
  BY <1>1, <1>4, <1>6 DEF Invoke, Goto, OwnStep, TypeOK
<1>8. TriesInv(c)' /\ ConsentInv(c)'
  BY <1>1, <1>6 DEF Invoke, CallInv, TriesInv, ConsentInv, Untried, input
<1>9. LogInv(c)'
  BY <1>5, <1>6 DEF LogInv, Closed, Untried
<1> QED
  BY <1>6, <1>7, <1>8, <1>9, OthersKept DEF CallInv

\* An error that ends a call before its first attempt.
LEMMA EarlyFail ==
    ASSUME Inv, NEW c \in Calls, Untried(c), NEW class \in Classes, Fail(c, class, 1),
           class \notin Retryable \/ request[c] = "unknown_tool",
           UNCHANGED <<input, attempt, procs, answer>>,
           status' \in [Calls -> {"idle", "open", "allowed", "refused", "abandoned"}],
           \A d \in Calls \ {c} : status'[d] = status[d]
    PROVE  Inv'
<1>1. TypeOK /\ CallInv(c) /\ LogInv(c)
  BY DEF Inv, CallInv
<1>2. ~Closed(c) /\ NextFailure(c) = 1 /\ UNCHANGED input
  BY <1>1 DEF Untried, Closed, LogInv
<1>3. /\ pc' \in [Calls -> PCs] /\ pc'[c] = "closing"
      /\ log' \in [Calls -> Seq(Events)]
      /\ outcome' \in [Calls -> Classes \cup {"none", "ok"}] /\ result' = result
      /\ LogInv(c)'
      /\ \A d \in Calls \ {c} :
            pc'[d] = pc[d] /\ log'[d] = log[d] /\ outcome'[d] = outcome[d]
  BY <1>1, <1>2, FailTells
<1>4. TypeOK'
  BY <1>1, <1>3 DEF TypeOK, input
<1>5. OwnStep(c)
  BY <1>3 DEF OwnStep
<1>6. TriesInv(c)' /\ ConsentInv(c)'
  BY <1>1, <1>3 DEF CallInv, TriesInv, ConsentInv, Untried, input
<1> QED
  BY <1>3, <1>4, <1>5, <1>6, OthersKept DEF CallInv

LEMMA RejectStep == ASSUME Inv, NEW c \in Calls, Reject(c) PROVE Inv'
<1>1. Untried(c)
  BY DEF Reject, Untried
<1>2. /\ status' \in [Calls -> {"idle", "open", "allowed", "refused", "abandoned"}]
      /\ \A d \in Calls \ {c} : status'[d] = status[d]
      /\ UNCHANGED <<input, attempt, procs, answer>>
  BY DEF Reject, Inv, TypeOK, gate
<1>3. \E class \in Classes :
        Fail(c, class, 1) /\ (class \notin Retryable \/ request[c] = "unknown_tool")
  BY DEF Reject, Classes, Retryable
<1> QED
  BY <1>1, <1>2, <1>3, EarlyFail

\* An attempt that starts with consent, or without a gate.
LEMMA Starts ==
    ASSUME Inv, NEW c \in Calls, StartTool(c),
           \/ Untried(c) /\ request[c] # "unknown_tool"
           \/ pc[c] = "backing_off",
           UNCHANGED <<input, log, ends, answer>>,
           status' \in [Calls -> {"idle", "open", "allowed", "refused", "abandoned"}],
           \A d \in Calls \ {c} : status'[d] = status[d],
           c \in gated => status'[c] = "allowed"
    PROVE  Inv'
<1>1. TypeOK /\ CallInv(c) /\ LogInv(c)
  BY DEF Inv, CallInv
<1>2. attempt[c] <= MaxRetries /\ procs[c] = 0
  BY <1>1, InvocationAssumption DEF CallInv, TriesInv
<1>3. /\ pc' \in [Calls -> PCs] /\ pc'[c] = "running"
      /\ attempt' \in [Calls -> 0..(MaxRetries + 1)]
      /\ procs' \in [Calls -> Nat] /\ procs'[c] <= 1
      /\ request[c] # "bash" => procs'[c] = 0
      /\ \A d \in Calls \ {c} :
            pc'[d] = pc[d] /\ attempt'[d] = attempt[d] /\ procs'[d] = procs[d]
  BY <1>1, <1>2, StartToolStarts
<1>4. TypeOK'
  BY <1>1, <1>3 DEF TypeOK, input, ends
<1>5. OwnStep(c)
  BY <1>3 DEF OwnStep, ends
<1>6. TriesInv(c)' /\ ConsentInv(c)'
  BY <1>3 DEF TriesInv, ConsentInv, Untried, input
<1>7. NextFailure(c) = attempt[c] + 1 /\ request[c] # "unknown_tool"
  <2>1. CASE Untried(c) /\ request[c] # "unknown_tool"
    <3>1. NextFailure(c) = 1 /\ attempt[c] = 0
      BY <1>1, <2>1 DEF LogInv, CallInv, TriesInv
    <3> QED
      BY <2>1, <3>1
  <2>2. CASE pc[c] = "backing_off"
    BY <1>1, <2>2 DEF LogInv, Closed
  <2> QED
    BY <2>1, <2>2
<1>8. attempt'[c] = attempt[c] + 1 /\ ~Closed(c)
  BY <1>1 DEF StartTool, TypeOK, Untried, Closed
<1>9. LogInv(c)'
  <2>1. /\ CountsUp(c)' /\ NextFailure(c)' = NextFailure(c)
        /\ \A i \in 1..Len(log'[c]) : ~Closes(c, log[c][i])'
    BY <1>1, <1>8, LogKept DEF LogInv
  <2> QED
    BY <1>3, <1>7, <1>8, <2>1 DEF LogInv, Closed, Untried, input
<1> QED
  BY <1>4, <1>5, <1>6, <1>9, OthersKept DEF CallInv

LEMMA UngatedStep == ASSUME Inv, NEW c \in Calls, Ungated(c) PROVE Inv'
<1>1. Untried(c) /\ StartTool(c) /\ c \notin gated /\ request[c] # "unknown_tool"
  BY DEF Ungated, Proceeds, Untried
<1>2. /\ UNCHANGED <<input, log, ends, answer, status>>
      /\ status' \in [Calls -> {"idle", "open", "allowed", "refused", "abandoned"}]
  BY DEF Ungated, gate, Inv, TypeOK
<1> QED
  BY <1>1, <1>2, Starts

LEMMA AutoDecidedStep == ASSUME Inv, NEW c \in Calls, AutoDecided(c) PROVE Inv'
<1>1. Untried(c) /\ UNCHANGED <<input, answer>> /\ request[c] # "unknown_tool"
  BY DEF AutoDecided, Proceeds, Untried, Gate!Settle
<1>2. /\ status' \in [Calls -> {"idle", "open", "allowed", "refused", "abandoned"}]
      /\ \A d \in Calls \ {c} : status'[d] = status[d]
  BY DEF AutoDecided, Gate!Settle, Inv, TypeOK
<1>3. CASE status'[c] = "allowed" /\ StartTool(c) /\ UNCHANGED <<log, ends>>
  BY <1>1, <1>2, <1>3, Starts
<1>4. CASE Fail(c, "permission_denied", 1) /\ UNCHANGED <<attempt, procs>>
  <2>1. "permission_denied" \in Classes /\ "permission_denied" \notin Retryable
    BY DEF Classes, Retryable
  <2> QED
    BY <1>1, <1>2, <1>4, <2>1, EarlyFail
<1> QED
  BY <1>3, <1>4 DEF AutoDecided

\* The gate opens the call, or its answer is announced: no attempt yet.
LEMMA Waits ==
    ASSUME Inv, NEW c \in Calls, Untried(c), request[c] # "unknown_tool",
           NEW p \in {"asking", "granting", "denying"},
           Goto(c, p), UNCHANGED <<input, attempt, ends, procs, answer>>,
           \/ log' = log
           \/ \E e \in Events : Publish(c, e) /\ e.type \in {"granted", "denied"},
           status' \in [Calls -> {"idle", "open", "allowed", "refused", "abandoned"}],
           \A d \in Calls \ {c} : status'[d] = status[d],
           p = "granting" => status'[c] = "allowed"
    PROVE  Inv'
<1>1. TypeOK /\ CallInv(c) /\ LogInv(c) /\ ~Closed(c)
  BY DEF Inv, CallInv, Untried, Closed
<1>2. /\ pc' \in [Calls -> PCs] /\ pc'[c] = p
      /\ \A d \in Calls \ {c} : pc'[d] = pc[d]
  BY <1>1 DEF Goto, TypeOK, PCs
<1>3. /\ log' \in [Calls -> Seq(Events)] /\ \A d \in Calls \ {c} : log'[d] = log[d]
      /\ CountsUp(c)' /\ NextFailure(c)' = 1
      /\ \A i \in 1..Len(log'[c]) : ~Closes(c, log[c][i])'
  <2>1. CASE log' = log
    BY <1>1, <2>1, LogKept DEF LogInv, TypeOK
  <2>2. ASSUME NEW e \in Events, Publish(c, e), e.type \in {"granted", "denied"}
        PROVE  /\ log' \in [Calls -> Seq(Events)] /\ \A d \in Calls \ {c} : log'[d] = log[d]
               /\ CountsUp(c)' /\ NextFailure(c)' = 1
               /\ \A i \in 1..Len(log'[c]) : ~Closes(c, log[c][i])'
    <3>1. e.type # "failed" /\ ~Closes(c, e)
      BY <2>2 DEF Closes
    <3> QED
      BY <1>1, <2>2, <3>1, PublishLast, PublishCounts
  <2> QED
    BY <2>1, <2>2
<1>4. TypeOK'
  BY <1>1, <1>2, <1>3 DEF TypeOK, input, ends
<1>5. OwnStep(c)
  BY <1>2, <1>3 DEF OwnStep, ends
<1>6. TriesInv(c)' /\ ConsentInv(c)'
  BY <1>1, <1>2 DEF CallInv, TriesInv, ConsentInv, Untried, input
<1>7. LogInv(c)'
  BY <1>2, <1>3 DEF LogInv, Closed, Untried, input
<1> QED
  BY <1>4, <1>5, <1>6, <1>7, OthersKept DEF CallInv

LEMMA AskStep == ASSUME Inv, NEW c \in Calls, Ask(c) PROVE Inv'
<1>1. /\ Untried(c) /\ request[c] # "unknown_tool" /\ Goto(c, "asking")
      /\ UNCHANGED <<input, attempt, log, ends, procs, answer>>
  BY DEF Ask, Proceeds, Untried, Gate!Open
<1>2. /\ status' \in [Calls -> {"idle", "open", "allowed", "refused", "abandoned"}]
      /\ \A d \in Calls \ {c} : status'[d] = status[d]
  BY <1>1 DEF Ask, Gate!Open, Inv, TypeOK
<1> QED
  BY <1>1, <1>2, Waits

LEMMA GrantedStep == ASSUME Inv, NEW c \in Calls, Granted(c) PROVE Inv'
<1>1. /\ Untried(c) /\ request[c] # "unknown_tool" /\ Goto(c, "granting")
      /\ UNCHANGED <<input, attempt, ends, procs, answer>>
  BY DEF Granted, Untried, Gate!Grant, Inv, CallInv, LogInv, Closed
<1>2. \E e \in Events : Publish(c, e) /\ e.type \in {"granted", "denied"}
  BY DEF Granted, Event, Events
<1>3. /\ status' \in [Calls -> {"idle", "open", "allowed", "refused", "abandoned"}]
      /\ status'[c] = "allowed"
      /\ \A d \in Calls \ {c} : status'[d] = status[d]
  BY DEF Granted, Gate!Grant, Inv, TypeOK
<1> QED
  BY <1>1, <1>2, <1>3, Waits

LEMMA DeniedStep == ASSUME Inv, NEW c \in Calls, Denied(c) PROVE Inv'
<1>1. /\ Untried(c) /\ request[c] # "unknown_tool" /\ Goto(c, "denying")
      /\ UNCHANGED <<input, attempt, ends, procs, answer>>
  BY DEF Denied, Untried, Gate!Decline, Inv, CallInv, LogInv, Closed
<1>2. \E e \in Events : Publish(c, e) /\ e.type \in {"granted", "denied"}
  BY DEF Denied, Event, Events
<1>3. /\ status' \in [Calls -> {"idle", "open", "allowed", "refused", "abandoned"}]
      /\ \A d \in Calls \ {c} : status'[d] = status[d]
  BY DEF Denied, Gate!Decline, Inv, TypeOK
<1> QED
  BY <1>1, <1>2, <1>3, Waits

LEMMA DecidedStep == ASSUME Inv, NEW c \in Calls, Decided(c) PROVE Inv'
<1>1. /\ UNCHANGED <<input, answer, status>>
      /\ status' \in [Calls -> {"idle", "open", "allowed", "refused", "abandoned"}]
  BY DEF Decided, gate, Inv, TypeOK
<1>2. CASE pc[c] = "granting" /\ StartTool(c) /\ UNCHANGED <<log, ends>>
  <2>1. /\ Untried(c) /\ (c \in gated => status'[c] = "allowed")
        /\ request[c] # "unknown_tool"
    BY <1>1, <1>2 DEF Untried, Inv, CallInv, ConsentInv, LogInv, Closed
  <2> QED
    BY <1>1, <1>2, <2>1, Starts
<1>3. CASE pc[c] = "denying" /\ Fail(c, "permission_denied", 1) /\ UNCHANGED <<attempt, procs>>
  <2>1. /\ Untried(c)
        /\ "permission_denied" \in Classes /\ "permission_denied" \notin Retryable
    BY <1>3 DEF Untried, Classes, Retryable
  <2> QED
    BY <1>1, <1>3, <2>1, EarlyFail
<1> QED
  BY <1>2, <1>3 DEF Decided

LEMMA SucceedsStep == ASSUME Inv, NEW c \in Calls, Succeeds(c) PROVE Inv'
<1>1. TypeOK /\ CallInv(c) /\ LogInv(c) /\ TriesInv(c)
  BY DEF Inv, CallInv
<1>2. /\ procs' \in [Calls -> Nat] /\ procs'[c] = 0
      /\ \A d \in Calls \ {c} : procs'[d] = procs[d]
  BY <1>1, ProcessGoneLeavesNone DEF Succeeds
<1> DEFINE e == Event("finished", "none", 0)
<1>3. e \in Events /\ e.type = "finished"
  BY DEF Event, Events
<1>4. Publish(c, e) /\ ~Closed(c) /\ UNCHANGED input
  BY DEF Succeeds, Closed
<1> HIDE DEF e
<1>5. /\ log' \in [Calls -> Seq(Events)]
      /\ log'[c][Len(log'[c])] = e
      /\ \A d \in Calls \ {c} : log'[d] = log[d]
      /\ CountsUp(c)'
      /\ \A i \in 1..Len(log'[c]) : Closes(c, log[c][i])' => i = Len(log'[c])
  BY <1>1, <1>3, <1>4, PublishLast, PublishCounts
<1>6. /\ pc' \in [Calls -> PCs] /\ pc'[c] = "closing"
      /\ outcome' \in [Calls -> Classes \cup {"none", "ok"}] /\ outcome'[c] = "ok"
      /\ UNCHANGED <<input, attempt, result, status, answer>>
      /\ \A d \in Calls \ {c} : pc'[d] = pc[d] /\ outcome'[d] = outcome[d]
  BY <1>1 DEF Succeeds, Goto, TypeOK, PCs, gate
<1>7. TypeOK'
  BY <1>1, <1>2, <1>5, <1>6 DEF TypeOK, input
<1>8. OwnStep(c)
  BY <1>2, <1>5, <1>6 DEF OwnStep
<1>9. TriesInv(c)' /\ ConsentInv(c)'
  BY <1>1, <1>2, <1>6 DEF CallInv, TriesInv, ConsentInv, Untried, input
<1>10. LogInv(c)'
  <2>1. Closes(c, log[c][Len(log[c])])' /\ Tells(log[c][Len(log[c])], outcome[c])'
    BY <1>3, <1>5, <1>6 DEF Closes, Tells
  <2> QED
    BY <1>5, <1>6, <2>1 DEF LogInv, Closed, Untried
<1> QED
  BY <1>7, <1>8, <1>9, <1>10, OthersKept DEF CallInv

\* A failed attempt: the call sleeps on a retryable error, which leaves no
\* process, or fails.
LEMMA FailedAttempt ==
    ASSUME Inv, NEW c \in Calls, NEW class \in Classes, ToolFails(c, class),
           procs' \in [Calls -> Nat], \A d \in Calls \ {c} : procs'[d] = procs[d],
           procs'[c] <= 1, request[c] # "bash" => procs'[c] = 0,
           procs'[c] = 0 \/ class = "timeout"
    PROVE  Inv'
<1>1. TypeOK /\ CallInv(c) /\ LogInv(c)
  BY DEF Inv, CallInv
<1>2. UNCHANGED <<input, attempt, status, answer>> /\ pc[c] = "running"
  BY DEF ToolFails, gate
<1>3. /\ ~Closed(c) /\ request[c] # "unknown_tool"
      /\ NextFailure(c) = attempt[c] /\ attempt[c] \in 0..(MaxRetries + 1)
  BY <1>1, <1>2 DEF LogInv, Closed, TypeOK
<1>4. CASE /\ class \in Retryable /\ attempt[c] <= MaxRetries
           /\ Goto(c, "backing_off")
           /\ Publish(c, Event("failed", class, attempt[c]))
           /\ UNCHANGED ends
  <2> DEFINE e == Event("failed", class, attempt[c])
  <2>1. /\ e \in Events /\ e.type = "failed" /\ e.attempt = attempt[c]
        /\ Publish(c, e) /\ UNCHANGED input
    BY <1>2, <1>3, <1>4, InvocationAssumption DEF Event, Events
  <2>2. ~Closes(c, e)
    BY <1>3, <1>4, InvocationAssumption DEF Closes, Event
  <2> HIDE DEF e
  <2>3. /\ log' \in [Calls -> Seq(Events)] /\ \A d \in Calls \ {c} : log'[d] = log[d]
        /\ CountsUp(c)' /\ NextFailure(c)' = attempt[c] + 1
        /\ \A i \in 1..Len(log'[c]) : ~Closes(c, log[c][i])'
    BY <1>1, <1>3, <2>1, <2>2, PublishLast, PublishCounts
  <2>4. /\ pc' \in [Calls -> PCs] /\ pc'[c] = "backing_off" /\ procs'[c] = 0
        /\ \A d \in Calls \ {c} : pc'[d] = pc[d]
    BY <1>1, <1>4 DEF Goto, TypeOK, PCs, Retryable
  <2>5. TypeOK'
    BY <1>1, <1>2, <1>4, <2>3, <2>4 DEF TypeOK, input, ends
  <2>6. OwnStep(c)
    BY <1>2, <1>4, <2>3, <2>4 DEF OwnStep, ends
  <2>7. c \in gated => status[c] = "allowed"
    BY <1>1, <1>2 DEF CallInv, ConsentInv
  <2>8. TriesInv(c)' /\ ConsentInv(c)'
    BY <1>2, <1>4, <2>4, <2>7 DEF TriesInv, ConsentInv, Untried, input
  <2>9. LogInv(c)'
    BY <1>2, <1>3, <2>3, <2>4 DEF LogInv, Closed, Untried, input
  <2> QED
    BY <2>5, <2>6, <2>8, <2>9, OthersKept DEF CallInv
<1>5. CASE ~(class \in Retryable /\ attempt[c] <= MaxRetries) /\ Fail(c, class, attempt[c])
  <2>1. /\ Fail(c, class, NextFailure(c)) /\ NextFailure(c) \in Nat /\ UNCHANGED input
        /\ class \notin Retryable \/ NextFailure(c) > MaxRetries
    BY <1>2, <1>3, <1>5, InvocationAssumption
  <2>2. /\ pc' \in [Calls -> PCs] /\ pc'[c] = "closing"
        /\ log' \in [Calls -> Seq(Events)]
        /\ outcome' \in [Calls -> Classes \cup {"none", "ok"}] /\ result' = result
        /\ LogInv(c)'
        /\ \A d \in Calls \ {c} :
              pc'[d] = pc[d] /\ log'[d] = log[d] /\ outcome'[d] = outcome[d]
    BY <1>1, <1>3, <2>1, FailTells
  <2>3. TypeOK'
    BY <1>1, <1>2, <2>2 DEF TypeOK, input
  <2>4. OwnStep(c)
    BY <1>2, <2>2 DEF OwnStep
  <2>5. TriesInv(c)' /\ ConsentInv(c)'
    BY <1>1, <1>2, <2>2 DEF CallInv, TriesInv, ConsentInv, Untried, input
  <2> QED
    BY <2>2, <2>3, <2>4, <2>5, OthersKept DEF CallInv
<1> QED
  BY <1>4, <1>5 DEF ToolFails

LEMMA ReportsErrorStep == ASSUME Inv, NEW c \in Calls, ReportsError(c) PROVE Inv'
<1>1. PICK class \in Retryable \cup {"timeout"} : ToolFails(c, class)
  BY DEF ReportsError
<1>2. class \in Classes
  BY DEF Retryable, Classes
<1>3. /\ procs' \in [Calls -> Nat] /\ procs'[c] = 0
      /\ \A d \in Calls \ {c} : procs'[d] = procs[d]
  BY ProcessGoneLeavesNone DEF ReportsError, Inv, CallInv
<1> QED
  BY <1>1, <1>2, <1>3, FailedAttempt

LEMMA TimesOutStep == ASSUME Inv, NEW c \in Calls, TimesOut(c) PROVE Inv'
<1>1. ToolFails(c, "timeout") /\ procs' = procs /\ "timeout" \in Classes
  BY DEF TimesOut, Classes
<1>2. /\ procs \in [Calls -> Nat] /\ procs[c] <= 1
      /\ request[c] # "bash" => procs[c] = 0
  BY DEF Inv, TypeOK, CallInv, TriesInv
<1> QED
  BY <1>1, <1>2, FailedAttempt

LEMMA RetryStep == ASSUME Inv, NEW c \in Calls, Retry(c) PROVE Inv'
<1>1. pc[c] = "backing_off" /\ StartTool(c)
  BY DEF Retry
<1>2. /\ UNCHANGED <<input, log, ends, answer, status>>
      /\ status' \in [Calls -> {"idle", "open", "allowed", "refused", "abandoned"}]
      /\ c \in gated => status'[c] = "allowed"
  BY DEF Retry, gate, Inv, TypeOK, CallInv, ConsentInv
<1> QED
  BY <1>1, <1>2, Starts

LEMMA ReturnStep == ASSUME Inv, NEW c \in Calls, Return(c) PROVE Inv'
<1>1. TypeOK /\ CallInv(c) /\ LogInv(c)
  BY DEF Inv, CallInv
<1>2. /\ TypeOK' /\ pc[c] = "closing" /\ pc'[c] = "returned" /\ OwnStep(c)
      /\ result'[c] = outcome[c] /\ UNCHANGED <<input, attempt, log, outcome, procs, gate>>
  BY <1>1 DEF Return, Goto, TypeOK, PCs, OwnStep, input, gate
<1>3. TriesInv(c)' /\ ConsentInv(c)'
  BY <1>1, <1>2 DEF CallInv, TriesInv, ConsentInv, Untried, input, gate
<1>4. LogInv(c)'
  BY <1>1, <1>2, LogKept DEF LogInv, Closed, Untried, input, Closes, Tells
<1> QED
  BY <1>2, <1>3, <1>4, OthersKept DEF CallInv

\* A step that changes nothing of what LogInv speaks about.
LEMMA LogInvKept ==
    ASSUME NEW c \in Calls, LogInv(c),
           UNCHANGED <<input, pc, attempt, log, outcome, result>>
    PROVE  LogInv(c)'
  BY DEF LogInv, CountsUp, NextFailure, Closes, Closed, Untried, Tells, input

LEMMA CancelStep == ASSUME Inv, NEW c \in Calls, Cancel(c) PROVE Inv'
<1>1. TypeOK /\ CallInv(c)
  BY DEF Inv
<1>2. /\ pc' \in [Calls -> PCs] /\ pc'[c] = "cancelled"
      /\ UNCHANGED <<input, attempt, log, outcome, result, procs, answer>>
      /\ \A d \in Calls \ {c} : pc'[d] = pc[d]
  BY <1>1 DEF Cancel, Goto, TypeOK, PCs, gate, ends, Gate!AbandonAll
<1>3. /\ status' \in [Calls -> {"idle", "open", "allowed", "refused", "abandoned"}]
      /\ \A d \in Calls \ {c} : status'[d] = status[d]
      /\ pc[c] # "asking" => status' = status
  BY <1>1 DEF Cancel, TypeOK, gate, Gate!AbandonAll
<1>4. TypeOK'
  BY <1>1, <1>2, <1>3 DEF TypeOK, input
<1>5. OwnStep(c)
  BY <1>2, <1>3 DEF OwnStep
<1>6. TriesInv(c)'
  BY <1>1, <1>2 DEF CallInv, TriesInv, Untried, input
<1>7. ConsentInv(c)'
  <2>1. CASE pc[c] = "asking"
    BY <1>1, <1>2, <2>1 DEF CallInv, TriesInv, ConsentInv, Untried, input
  <2>2. CASE pc[c] # "asking"
    BY <1>1, <1>2, <1>3, <2>2 DEF CallInv, ConsentInv, input
  <2> QED
    BY <2>1, <2>2
<1>8. LogInv(c)'
  <2>1. LogInv(c) /\ UNCHANGED input
    BY <1>1, <1>2 DEF CallInv
  <2> QED
    BY <1>1, <1>2, <2>1, LogKept DEF LogInv, Closed, Untried
<1> QED
  BY <1>4, <1>5, <1>6, <1>7, <1>8, OthersKept DEF CallInv

LEMMA OrphanExitsStep == ASSUME Inv, NEW c \in Calls, OrphanExits(c) PROVE Inv'
<1>1. TypeOK /\ CallInv(c)
  BY DEF Inv
<1>2. /\ procs' \in [Calls -> Nat] /\ procs'[c] = procs[c] - 1 /\ procs[c] \in Nat
      /\ procs[c] > 0
      /\ \A d \in Calls \ {c} : procs'[d] = procs[d]
  BY <1>1 DEF OrphanExits, TypeOK
<1>3. TypeOK'
  BY <1>1, <1>2 DEF OrphanExits, TypeOK, input, ends, gate
<1>4. OwnStep(c)
  BY <1>2 DEF OrphanExits, OwnStep, ends, gate
<1>5. TriesInv(c)' /\ ConsentInv(c)'
  BY <1>1, <1>2 DEF CallInv, OrphanExits, TriesInv, ConsentInv, Untried, input, gate
<1>6. LogInv(c)'
  BY <1>1, LogInvKept DEF OrphanExits, CallInv, ends
<1> QED
  BY <1>3, <1>4, <1>5, <1>6, OthersKept DEF CallInv

LEMMA AnswerStep ==
    ASSUME Inv, NEW c \in Calls, NEW d \in Allow \cup Refuse, Answer(c, d) PROVE Inv'
<1>1. TypeOK /\ CallInv(c)
  BY DEF Inv
<1>2. /\ answer' \in [Calls -> Allow \cup Refuse \cup {NoAnswer}]
      /\ UNCHANGED <<pc, input, attempt, log, outcome, result, procs, status>>
  BY <1>1 DEF Answer, Gate!AnswerAll, TypeOK, ends
<1>3. TypeOK' /\ OwnStep(c)
  BY <1>1, <1>2 DEF TypeOK, OwnStep, input
<1>4. TriesInv(c)' /\ ConsentInv(c)'
  BY <1>1, <1>2 DEF CallInv, TriesInv, ConsentInv, Untried, input
<1>5. LogInv(c)'
  BY <1>1, <1>2, LogInvKept DEF CallInv
<1> QED
  BY <1>3, <1>4, <1>5, OthersKept DEF CallInv

LEMMA StutterStep == ASSUME Inv, UNCHANGED vars PROVE Inv'
<1>1. TypeOK'
  BY DEF Inv, TypeOK, vars
<1>2. ASSUME NEW c \in Calls PROVE CallInv(c)'
  <2>1. TriesInv(c)' /\ ConsentInv(c)'
    BY DEF Inv, CallInv, TriesInv, ConsentInv, Untried, vars
  <2>2. LogInv(c)'
    BY LogInvKept DEF Inv, CallInv, vars, input
  <2> QED
    BY <2>1, <2>2 DEF CallInv
<1> QED
  BY <1>1, <1>2 DEF Inv

-----------------------------------------------------------------------------
LEMMA NextInv == ASSUME Inv, [Next]_vars PROVE Inv'
<1>1. ASSUME NEW c \in Calls, Step(c) PROVE Inv'
  BY <1>1, RejectStep, UngatedStep, AutoDecidedStep, AskStep, GrantedStep, DeniedStep,
     DecidedStep, SucceedsStep, ReportsErrorStep, TimesOutStep, RetryStep, ReturnStep
     DEF Step
<1>2. ASSUME NEW c \in Calls, Invoke(c) PROVE Inv'
  BY <1>2, InvokeStep
<1>3. ASSUME NEW c \in Calls, Cancel(c) PROVE Inv'
  BY <1>3, CancelStep
<1>4. ASSUME NEW c \in Calls, OrphanExits(c) PROVE Inv'
  BY <1>4, OrphanExitsStep
<1>5. ASSUME NEW c \in Calls, NEW d \in Allow \cup Refuse, Answer(c, d) PROVE Inv'
  BY <1>5, AnswerStep
<1>6. CASE UNCHANGED vars
  BY <1>6, StutterStep
<1> QED
  BY <1>1, <1>2, <1>3, <1>4, <1>5, <1>6 DEF Next

\* The invariant of every call (invoke_tool with any gate).
THEOREM CallInvHolds == Spec => []Inv
<1>1. Init => Inv
  BY InitInv
<1>2. Inv /\ [Next]_vars => Inv'
  BY NextInv
<1> QED
  BY <1>1, <1>2, PTL DEF Spec

\* The state of a call has its types, and there are at most MaxRetries + 1
\* attempts (invoke_tool's loop).
THEOREM TypeCorrect == Spec => []TypeOK
<1>1. Inv => TypeOK
  BY DEF Inv
<1> QED
  BY <1>1, CallInvHolds, PTL

\* No attempt of a gated call starts without the gate's consent, whatever is
\* answered, cancelled or retried (invoke_tool between check_and_wait and
\* tool.invoke).
THEOREM NoToolWithoutConsentHolds == Spec => []NoToolWithoutConsent
<1>1. Inv => NoToolWithoutConsent
  <2>1. ASSUME Inv, NEW c \in gated, attempt[c] > 0 PROVE status[c] = "allowed"
    BY <2>1 DEF Inv, TypeOK, CallInv, ConsentInv
  <2> QED
    BY <2>1 DEF NoToolWithoutConsent
<1> QED
  BY <1>1, CallInvHolds, PTL

\* A call never has two processes, because nothing that may leave one behind is
\* retried (_RETRYABLE, bash under wait_for).
THEOREM NoTwoProcessesHolds == Spec => []NoTwoProcesses
<1>1. Inv => NoTwoProcesses
  BY DEF Inv, CallInv, TriesInv, NoTwoProcesses
<1> QED
  BY <1>1, CallInvHolds, PTL

\* A call publishes one closing event at most and nothing behind it, its
\* failures count the attempts up, and one that returned did publish the
\* closing event, which tells its ToolResult (invoke_tool and _fail).
THEOREM ResultWasPublishedHolds == Spec => []ResultWasPublished
<1>1. Inv => ResultWasPublished
  BY DEF Inv, CallInv, LogInv, ResultWasPublished
<1> QED
  BY <1>1, CallInvHolds, PTL
=============================================================================
