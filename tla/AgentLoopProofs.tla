-------------------------- MODULE AgentLoopProofs --------------------------
(***************************************************************************)
(* Proofs about the agent loop, for any number of runs, steps and calls:   *)
(* the step budget, what a success means, and the thread it goes on with - *)
(* a run only adds to what it read, and what it sends to the LLM pairs     *)
(* every tool_use the loop took up with its tool_result.                   *)
(***************************************************************************)
EXTENDS AgentLoop, SequenceTheorems, FiniteSetTheorems, TLAPS

-----------------------------------------------------------------------------
(***************************************************************************)
(* Trim.                                                                   *)
(***************************************************************************)
\* A non-empty set of numbers up to n has a largest one: of the sets of
\* larger elements one is minimal.
LEMMA Largest ==
  ASSUME NEW n \in Nat, NEW T, T \subseteq 0..n, T # {}
  PROVE  \E x \in T : \A y \in T : y <= x
<1> DEFINE Above(x) == {y \in T : y > x}
           F == {Above(x) : x \in T}
           R == StrictSubsetOrdering(T)
<1>1. IsFiniteSet(T)
  <2>1. IsFiniteSet(0..n)
    BY FS_Interval
  <2>2. QED
    BY <2>1, FS_Subset
<1>2. F \subseteq FiniteSubsetsOf(T) /\ F # {}
  <2>1. ASSUME NEW x \in T PROVE Above(x) \in FiniteSubsetsOf(T)
    <3>1. Above(x) \subseteq T
      OBVIOUS
    <3>2. IsFiniteSet(Above(x))
      BY <1>1, <3>1, FS_Subset
    <3>3. QED
      BY <3>1, <3>2 DEF FiniteSubsetsOf
  <2>2. QED
    BY <2>1
<1>3. IsWellFoundedOn(R, FiniteSubsetsOf(T))
  BY FS_StrictSubsetOrderingWellFounded
<1>4. PICK U \in F : \A V \in F : ~ (<<V, U>> \in R)
  <2> HIDE DEF F, R
  <2>1. QED
    BY <1>2, <1>3, WFMin
<1>5. PICK x \in T : U = Above(x)
  OBVIOUS
<1>6. ASSUME NEW y \in T, y > x PROVE FALSE
  <2>1. y \in Above(x) /\ y \notin Above(y)
    BY <1>6
  <2>2. Above(y) \subseteq Above(x)
    <3>1. ASSUME NEW z \in T, z > y PROVE z > x
      <4>1. x \in Int /\ y \in Int /\ z \in Int
        OBVIOUS
      <4>2. QED
        BY <1>6, <3>1, <4>1
    <3>2. QED
      BY <3>1
  <2>3. <<Above(y), U>> \in R
    BY <1>5, <2>1, <2>2 DEF StrictSubsetOrdering
  <2>4. QED
    BY <1>4, <2>3
<1>7. QED
  BY <1>6

LEMMA UsedOrAnswered ==
  ASSUME NEW q, NEW k, NEW x
  PROVE  /\ x \in Used(q, k) <=> \E i \in 1..k : x \in q[i].uses
         /\ x \in Answered(q, k) <=> \E i \in 1..k : x \in q[i].results
BY DEF Used, Answered

\* One message more: its own ids, and nothing else, are added.
LEMMA UsedAppend ==
  ASSUME NEW q \in Seq(Messages), NEW m \in Messages
  PROVE  /\ Used(Append(q, m), Len(Append(q, m))) = Used(q, Len(q)) \cup m.uses
         /\ Answered(Append(q, m), Len(Append(q, m))) = Answered(q, Len(q)) \cup m.results
<1> DEFINE a == Append(q, m)
<1>1. Len(a) = Len(q) + 1 /\ a[Len(q) + 1] = m /\ \A i \in 1..Len(q) : a[i] = q[i]
  OBVIOUS
<1>2. Len(q) \in Nat
  OBVIOUS
<1> HIDE DEF a
<1>3. ASSUME NEW x PROVE x \in Used(a, Len(a)) <=> x \in Used(q, Len(q)) \cup m.uses
  BY <1>1, <1>2, UsedOrAnswered
<1>4. ASSUME NEW x PROVE x \in Answered(a, Len(a)) <=> x \in Answered(q, Len(q)) \cup m.results
  BY <1>1, <1>2, UsedOrAnswered
<1>5. QED
  BY <1>3, <1>4 DEF a

\* No call waits for a result but those that the loop did not take up.
Settled(q) == Used(q, Len(q)) \subseteq Answered(q, Len(q)) \cup stray

\* A message with calls of that kind alone leaves what is settled settled.
LEMMA SettledAppend ==
  ASSUME NEW q \in Seq(Messages), NEW m \in Messages, Settled(q),
         stray \cup m.uses \subseteq stray', NEW a, a = Append(q, m)
  PROVE  Used(a, Len(a)) \subseteq Answered(a, Len(a)) \cup stray'
BY UsedAppend DEF Settled

LEMMA BalancedSettles ==
  ASSUME NEW q, Balanced(q, Len(q))
  PROVE  Settled(q)
BY DEF Balanced, Settled

\* _trim_orphan_tool_use keeps a beginning of the thread in which no tool_use
\* waits for its result.
LEMMA TrimBalances ==
  ASSUME NEW q \in Seq(Messages)
  PROVE  /\ Trim(q) \in Seq(Messages)
         /\ Len(Trim(q)) <= Len(q)
         /\ \A i \in 1..Len(Trim(q)) : Trim(q)[i] = q[i]
         /\ Balanced(Trim(q), Len(Trim(q)))
<1> DEFINE ends == {k \in 0..Len(q) : Balanced(q, k)}
           k == CHOOSE k \in ends : \A j \in ends : j <= k
<1>1. 0 \in ends
  BY UsedOrAnswered DEF Balanced
<1>2. \E x \in ends : \A y \in ends : y <= x
  <2>1. Len(q) \in Nat /\ ends \subseteq 0..Len(q) /\ ends # {}
    BY <1>1
  <2> HIDE DEF ends
  <2>2. QED
    BY <2>1, Largest
<1>3. k \in ends
  <2> HIDE DEF ends
  <2>1. QED
    BY <1>2
<1>4. Trim(q) = SubSeq(q, 1, k)
  BY DEF Trim
<1> HIDE DEF k
<1>5. k \in 0..Len(q) /\ Balanced(q, k)
  BY <1>3
<1>6. Trim(q) \in Seq(Messages) /\ Len(Trim(q)) = k /\ \A i \in 1..k : Trim(q)[i] = q[i]
  BY <1>4, <1>5
<1>7. Used(Trim(q), k) = Used(q, k) /\ Answered(Trim(q), k) = Answered(q, k)
  BY <1>6 DEF Used, Answered
<1>8. QED
  BY <1>5, <1>6, <1>7 DEF Balanced

-----------------------------------------------------------------------------
(***************************************************************************)
(* The inductive invariant.                                                *)
(***************************************************************************)
Waiting == {todo[i] : i \in 1..Len(todo)}

\* Where the run stands against its budget.
StepInv ==
    /\ pc # "idle" => run >= 1 /\ step >= 1
    /\ pc \in {"planning", "acting", "compacting"} => status = "running"
    /\ pc \in {"wrapping", "compacting"} /\ status = "running" => step < max_steps
    /\ pc = "finishing" => status # "running"

\* Which calls of the context have no result yet.
CallInv ==
    /\ pc \in {"planning", "wrapping", "compacting"} =>
          Settled(messages)
    /\ pc = "acting" =>
          /\ todo # <<>> /\ messages # <<>>
          /\ Used(messages, Len(messages)) \subseteq
                Answered(messages, Len(messages)) \cup stray \cup Waiting

LoopInv == TypeOK /\ StepInv /\ CallInv /\ SuccessIsAnAnswer

LEMMA MessageTypes ==
  ASSUME NEW r \in 0..MaxRuns, NEW ids \in SUBSET Ids
  PROVE  /\ UserMessage(r) \in Messages /\ UserMessage(r).uses = {}
         /\ UserMessage(r).results = {}
         /\ Text("assistant", r) \in Messages /\ Text("assistant", r).uses = {}
         /\ Assistant(r, ids) \in Messages /\ Assistant(r, ids).uses = ids
         /\ Assistant(r, ids).results = {} /\ Assistant(r, ids).role = "assistant"
         /\ Results(r, ids) \in Messages /\ Results(r, ids).results = ids
         /\ Results(r, ids).uses = {}
BY DEF UserMessage, Assistant, Results, Text, Messages

LEMMA CallIdsType ==
  ASSUME TypeOK, StepInv, pc = "planning", NEW n \in 1..MaxCalls
  PROVE  /\ CallIds(n) \in SUBSET Ids
         /\ [i \in 1..n |-> <<run, step, i>>] \in Seq(Ids)
<1>1. run \in 1..MaxRuns /\ step \in 1..max_steps
  BY DEF TypeOK, StepInv
<1>2. n \in Nat /\ \A i \in 1..n : <<run, step, i>> \in Ids
  BY <1>1, LoopAssumption DEF Ids
<1>3. QED
  BY <1>2 DEF CallIds

\* add_tool_result adds the id to the results, and nothing to the calls.
LEMMA AddResultEffect ==
  ASSUME messages \in Seq(Messages), messages # <<>>, run \in 0..MaxRuns,
         NEW id \in Ids
  PROVE  LET q == AddResult(id) IN
         /\ q \in Seq(Messages) /\ q # <<>>
         /\ Used(q, Len(q)) = Used(messages, Len(messages))
         /\ Answered(q, Len(q)) = Answered(messages, Len(messages)) \cup {id}
<1> DEFINE n == Len(messages)
           last == messages[n]
<1>1. n \in Nat \ {0} /\ last \in Messages
  BY ElementOfSeq
<1>2. CASE last.role = "user" /\ last.results # {}
  <2> DEFINE m == [last EXCEPT !.results = @ \cup {id}]
             q == [messages EXCEPT ![n] = m]
  <2>1. AddResult(id) = q
    BY <1>2 DEF AddResult
  <2>2. m \in Messages /\ m.uses = last.uses /\ m.results = last.results \cup {id}
    BY <1>1 DEF Messages
  <2>3. q \in Seq(Messages) /\ Len(q) = n /\ q[n] = m
    <3> HIDE DEF m
    <3>1. q \in Seq(Messages) /\ Len(q) = n
      BY <1>1, <2>2, ExceptSeq
    <3>2. messages \in [1..n -> Messages]
      BY LenProperties
    <3>3. QED
      BY <1>1, <3>1, <3>2
  <2>4. \A i \in 1..n : i # n => q[i] = messages[i]
    BY <1>1
  <2> HIDE DEF m, q
  <2>5. ASSUME NEW x PROVE x \in Used(q, n) <=> x \in Used(messages, n)
    BY <1>1, <2>2, <2>3, <2>4, UsedOrAnswered
  <2>6. ASSUME NEW x PROVE x \in Answered(q, n) <=> x \in Answered(messages, n) \cup {id}
    BY <1>1, <2>2, <2>3, <2>4, UsedOrAnswered
  <2>7. q # <<>>
    BY <1>1, <2>3
  <2>8. QED
    BY <2>1, <2>3, <2>5, <2>6, <2>7
<1>3. CASE ~(last.role = "user" /\ last.results # {})
  <2> DEFINE m == Results(run, {id})
  <2>1. AddResult(id) = Append(messages, m)
    BY <1>3 DEF AddResult
  <2>2. m \in Messages /\ m.uses = {} /\ m.results = {id}
    BY MessageTypes
  <2> HIDE DEF m
  <2> DEFINE q == Append(messages, m)
  <2>3. q \in Seq(Messages) /\ q # <<>>
    BY <2>2
  <2>4. Used(q, Len(q)) = Used(messages, Len(messages)) \cup m.uses
    BY <2>2, UsedAppend
  <2>5. Answered(q, Len(q)) = Answered(messages, Len(messages)) \cup m.results
    BY <2>2, UsedAppend
  <2> HIDE DEF q
  <2>6. AddResult(id) = q
    BY <2>1 DEF q
  <2>7. QED
    BY <2>2, <2>3, <2>4, <2>5, <2>6
<1>4. QED
  BY <1>2, <1>3

\* What the end of a step decides.
LEMMA EndStepEffect ==
  ASSUME TypeOK, status = "running", step >= 1, NEW stop, EndStep(stop)
  PROVE  /\ pc' \in {"wrapping", "compacting"}
         /\ status' \in {"running", "success", "failed"}
         /\ status' = "running" => step < max_steps
         /\ pc' = "compacting" => status' = "running"
         /\ status' = "success" => stop = "end_turn"
BY LoopAssumption DEF EndStep, TypeOK

LEMMA InitInv == Init => LoopInv
BY LoopAssumption DEF Init, LoopInv, TypeOK, StepInv, CallInv, SuccessIsAnAnswer

LEMMA StartRunInv == LoopInv /\ StartRun => LoopInv'
<1> SUFFICES ASSUME LoopInv, StartRun PROVE LoopInv'
  OBVIOUS
<1> USE DEF LoopInv
<1>1. run' \in 1..MaxRuns /\ run' = run + 1
  BY LoopAssumption DEF TypeOK, StartRun
<1>2. thread' \in Seq(Messages)
  <2> DEFINE r == run'
  <2>1. UserMessage(run') \in Messages
    <3>1. r \in 0..MaxRuns
      BY <1>1, LoopAssumption
    <3> HIDE DEF r
    <3>2. UserMessage(r) \in Messages
      BY <3>1 DEF UserMessage, Text, Messages
    <3>3. QED
      BY <3>2 DEF r
  <2>2. thread \in Seq(Messages) /\ thread' = Append(thread, UserMessage(run'))
    BY DEF TypeOK, StartRun
  <2>3. QED
    BY <2>1, <2>2
<1>3. Trim(thread') \in Seq(Messages) /\ Balanced(Trim(thread'), Len(Trim(thread')))
  BY <1>2, TrimBalances
<1>4. <<UserMessage(run')>> \in Seq(Messages) /\ Balanced(<<UserMessage(run')>>, 1)
  <2>1. UserMessage(run') \in Messages /\ UserMessage(run').uses = {}
    BY <1>1, MessageTypes
  <2>2. QED
    BY <2>1, UsedOrAnswered DEF Balanced
<1>5. messages' \in Seq(Messages) /\ Balanced(messages', Len(messages'))
  BY <1>3, <1>4 DEF StartRun
<1>6. TypeOK'
  <2>1. prefill' \in Nat
    BY <1>3 DEF StartRun
  <2>2. step' = 1 /\ step' \in 0..max_steps
    BY LoopAssumption DEF StartRun
  <2>3. /\ pc' = "planning" /\ status' = "running"
        /\ todo' = todo /\ compacted' = compacted /\ stray' = stray
    BY DEF StartRun, history
  <2>4. run' \in 0..MaxRuns
    BY <1>1, LoopAssumption
  <2> HIDE DEF LoopInv
  <2>5. todo \in Seq(Ids) /\ compacted \subseteq 1..MaxRuns /\ stray \subseteq Ids
    BY DEF LoopInv, TypeOK
  <2>6. QED
    BY <1>2, <1>5, <2>1, <2>2, <2>3, <2>4, <2>5 DEF TypeOK
<1>7. StepInv' /\ SuccessIsAnAnswer'
  BY <1>1 DEF StepInv, SuccessIsAnAnswer, StartRun
<1>8. CallInv'
  BY <1>5 DEF CallInv, StartRun, Settled, Balanced
<1>9. QED
  BY <1>6, <1>7, <1>8

LEMMA AnswerTextInv ==
  ASSUME LoopInv, NEW stop, AnswerText(stop)
  PROVE  LoopInv'
<1> USE DEF LoopInv
<1> DEFINE m == Assistant(run, {})
<1>1. status = "running" /\ step >= 1 /\ run \in 0..MaxRuns /\ pc = "planning"
  BY DEF AnswerText, StepInv, TypeOK
<1>2. m \in Messages /\ m.uses = {} /\ m.role = "assistant"
  BY <1>1, MessageTypes
<1>3. messages' = Append(messages, m) /\ messages \in Seq(Messages)
  BY DEF AnswerText, Observed, TypeOK
<1>4. Settled(messages) /\ stray' = stray
  BY <1>1 DEF CallInv, AnswerText, history
<1>5. Used(messages', Len(messages')) \subseteq Answered(messages', Len(messages')) \cup stray'
  <2> HIDE DEF m
  <2>1. QED
    BY <1>2, <1>3, <1>4, SettledAppend
<1>6. messages' \in Seq(Messages) /\ messages'[Len(messages')] = m
  BY <1>2, <1>3
<1>7. EndStep(stop)
  BY DEF AnswerText
<1>8. TypeOK'
  BY <1>1, <1>6, <1>7, EndStepEffect DEF TypeOK, AnswerText, store, history
<1>9. StepInv'
  BY <1>1, <1>7, EndStepEffect DEF StepInv, AnswerText, store
<1>10. CallInv' /\ SuccessIsAnAnswer'
  BY <1>1, <1>2, <1>5, <1>6, <1>7, EndStepEffect
     DEF CallInv, SuccessIsAnAnswer, Settled
<1>11. QED
  BY <1>8, <1>9, <1>10

LEMMA AnswerStrayInv ==
  ASSUME LoopInv, NEW stop, NEW n \in 1..MaxCalls, AnswerStray(stop, n)
  PROVE  LoopInv'
<1> USE DEF LoopInv
<1> DEFINE ids == CallIds(n)
           m == Assistant(run, ids)
<1>1. status = "running" /\ step >= 1 /\ run \in 0..MaxRuns /\ pc = "planning"
  BY DEF AnswerStray, StepInv, TypeOK
<1>2. ids \in SUBSET Ids
  BY <1>1, CallIdsType
<1>3. messages' = Append(messages, m) /\ stray' = stray \cup ids
  BY DEF AnswerStray, Observed
<1> HIDE DEF ids
<1>4. m \in Messages /\ m.uses = ids /\ m.role = "assistant"
  BY <1>1, <1>2, MessageTypes
<1> HIDE DEF m
<1>5. messages \in Seq(Messages) /\ Settled(messages)
  BY <1>1 DEF CallInv, TypeOK
<1>6. Used(messages', Len(messages')) \subseteq Answered(messages', Len(messages')) \cup stray'
  BY <1>3, <1>4, <1>5, SettledAppend
<1>7. messages' \in Seq(Messages) /\ messages'[Len(messages')] = m
  BY <1>3, <1>4, <1>5
<1>8. EndStep(stop) /\ UNCHANGED <<store, step, todo, compacted>>
  BY DEF AnswerStray
<1>9. TypeOK'
  BY <1>1, <1>2, <1>3, <1>7, <1>8, EndStepEffect DEF TypeOK, store
<1>10. StepInv'
  BY <1>1, <1>8, EndStepEffect DEF StepInv, store
<1>11. CallInv' /\ SuccessIsAnAnswer'
  BY <1>1, <1>4, <1>6, <1>7, <1>8, EndStepEffect
     DEF CallInv, SuccessIsAnAnswer, Settled
<1>12. QED
  BY <1>9, <1>10, <1>11

LEMMA AnswerToolsInv ==
  ASSUME LoopInv, NEW n \in 1..MaxCalls, AnswerTools(n)
  PROVE  LoopInv'
<1> USE DEF LoopInv
<1> DEFINE m == Assistant(run, CallIds(n))
<1>1. pc = "planning" /\ run \in 0..MaxRuns /\ messages \in Seq(Messages)
  BY DEF AnswerTools, TypeOK
<1>2. CallIds(n) \in SUBSET Ids /\ todo' \in Seq(Ids)
  BY <1>1, CallIdsType DEF AnswerTools
<1>3. m \in Messages /\ m.uses = CallIds(n) /\ m.results = {}
  BY <1>1, <1>2, MessageTypes
<1>4. messages' = Append(messages, m)
  BY DEF AnswerTools, Observed
<1>5. messages' \in Seq(Messages) /\ messages' # <<>>
  BY <1>1, <1>3, <1>4
<1>6. n \in Nat /\ n >= 1 /\ todo' = [i \in 1..n |-> <<run, step, i>>]
  BY LoopAssumption DEF AnswerTools
<1>7. todo' # <<>> /\ Waiting' = CallIds(n)
  <2>1. Len(todo') = n /\ \A i \in 1..n : todo'[i] = <<run, step, i>>
    BY <1>6
  <2>2. todo' # <<>>
    <3>1. Len(todo') # 0
      BY <1>6, <2>1
    <3>2. QED
      BY <1>2, <3>1, EmptySeq
  <2>3. Waiting' = {<<run, step, i>> : i \in 1..n}
    BY <2>1 DEF Waiting
  <2>4. QED
    BY <2>2, <2>3 DEF CallIds
<1>8. Used(messages', Len(messages')) \subseteq
        Answered(messages', Len(messages')) \cup stray' \cup Waiting'
  <2>1. /\ Used(messages, Len(messages)) \subseteq Answered(messages, Len(messages)) \cup stray
        /\ stray' = stray
    BY <1>1 DEF CallInv, Settled, AnswerTools, history
  <2> HIDE DEF m
  <2>2. Used(messages', Len(messages')) = Used(messages, Len(messages)) \cup m.uses
    BY <1>1, <1>3, <1>4, UsedAppend
  <2>3. Answered(messages', Len(messages')) = Answered(messages, Len(messages)) \cup m.results
    BY <1>1, <1>3, <1>4, UsedAppend
  <2>4. QED
    BY <1>3, <1>7, <2>1, <2>2, <2>3
<1>9. TypeOK'
  BY <1>2, <1>5 DEF TypeOK, AnswerTools, store, history
<1>10. StepInv' /\ CallInv' /\ SuccessIsAnAnswer'
  BY <1>1, <1>5, <1>7, <1>8 DEF StepInv, CallInv, SuccessIsAnAnswer, AnswerTools, store
<1>11. QED
  BY <1>9, <1>10

LEMMA AnswerCutInv ==
  ASSUME LoopInv, NEW n \in 1..MaxCalls, AnswerCut(n)
  PROVE  LoopInv'
<1> USE DEF LoopInv
<1> DEFINE ids == CallIds(n)
           m == Assistant(run, ids)
           res == Results(run, ids)
           q == Append(messages, m)
<1>1. /\ pc = "planning" /\ run \in 0..MaxRuns /\ messages \in Seq(Messages)
      /\ status = "running" /\ step >= 1
  BY DEF AnswerCut, TypeOK, StepInv
<1>2. ids \in SUBSET Ids
  BY <1>1, CallIdsType
<1>3. m \in Messages /\ m.uses = ids /\ m.results = {}
  BY <1>1, <1>2, MessageTypes
<1>4. res \in Messages /\ res.uses = {} /\ res.results = ids
  BY <1>1, <1>2, MessageTypes
<1>5. messages' = q \o <<res>>
  BY DEF AnswerCut, Observed
<1> HIDE DEF m, res, ids
<1>6. q \in Seq(Messages)
  BY <1>1, <1>3
<1>7. messages' = Append(q, res) /\ messages' \in Seq(Messages)
  BY <1>4, <1>5, <1>6
<1>8. Used(q, Len(q)) \subseteq Answered(q, Len(q)) \cup stray \cup ids
  <2>1. Used(messages, Len(messages)) \subseteq Answered(messages, Len(messages)) \cup stray
    BY <1>1 DEF CallInv, Settled
  <2>2. QED
    BY <1>1, <1>3, <2>1, UsedAppend
<1>9. Used(messages', Len(messages')) \subseteq Answered(messages', Len(messages')) \cup stray'
  <2> HIDE DEF q
  <2>1. stray' = stray
    BY DEF AnswerCut, history
  <2>2. QED
    BY <1>4, <1>6, <1>7, <1>8, <2>1, UsedAppend
<1>10. EndStep("max_tokens")
  BY DEF AnswerCut
<1>11. TypeOK'
  BY <1>1, <1>7, <1>10, EndStepEffect DEF TypeOK, AnswerCut, store, history
<1>12. StepInv' /\ CallInv' /\ SuccessIsAnAnswer'
  BY <1>1, <1>9, <1>10, EndStepEffect
     DEF StepInv, CallInv, SuccessIsAnAnswer, AnswerCut, Settled, store
<1>13. QED
  BY <1>11, <1>12

LEMMA ToolDoneInv == LoopInv /\ ToolDone => LoopInv'
<1> SUFFICES ASSUME LoopInv, ToolDone PROVE LoopInv'
  OBVIOUS
<1> USE DEF LoopInv
<1> DEFINE id == Head(todo)
           q == AddResult(id)
<1>1. /\ pc = "acting" /\ status = "running" /\ step >= 1 /\ run \in 0..MaxRuns
      /\ todo \in Seq(Ids) /\ todo # <<>>
      /\ messages \in Seq(Messages) /\ messages # <<>>
  BY DEF ToolDone, TypeOK, StepInv, CallInv
<1>2. id \in Ids /\ Tail(todo) \in Seq(Ids) /\ todo' = Tail(todo)
  BY <1>1 DEF ToolDone
<1>3. messages' = q
  BY DEF ToolDone
<1> HIDE DEF q
<1>4. /\ q \in Seq(Messages) /\ q # <<>>
      /\ Used(q, Len(q)) = Used(messages, Len(messages))
      /\ Answered(q, Len(q)) = Answered(messages, Len(messages)) \cup {id}
  BY <1>1, <1>2, AddResultEffect DEF q
<1>5. Waiting \subseteq {id} \cup Waiting'
  <2>1. ASSUME NEW i \in 1..Len(todo) PROVE todo[i] \in {id} \cup Waiting'
    <3>1. CASE i = 1
      BY <1>1, <3>1
    <3>2. CASE i # 1
      <4>1. i - 1 \in 1..Len(todo') /\ todo'[i - 1] = todo[i]
        BY <1>1, <1>2, <3>2
      <4>2. QED
        BY <4>1 DEF Waiting
    <3>3. QED
      BY <3>1, <3>2
  <2>2. QED
    BY <2>1 DEF Waiting
<1>6. /\ Used(q, Len(q)) \subseteq Answered(q, Len(q)) \cup stray' \cup Waiting'
      /\ stray' = stray
  BY <1>1, <1>4, <1>5 DEF CallInv, ToolDone, history
<1>7. CASE todo' = <<>>
  <2>1. EndStep("tool_use")
    BY <1>7 DEF ToolDone
  <2>2. Waiting' = {}
    BY <1>7 DEF Waiting
  <2>3. Used(messages', Len(messages')) \subseteq Answered(messages', Len(messages')) \cup stray'
    BY <1>3, <1>6, <2>2
  <2>4. TypeOK'
    BY <1>1, <1>2, <1>3, <1>4, <2>1, EndStepEffect
       DEF TypeOK, ToolDone, store, history
  <2>5. StepInv' /\ CallInv' /\ SuccessIsAnAnswer'
    BY <1>1, <2>1, <2>3, EndStepEffect
       DEF StepInv, CallInv, SuccessIsAnAnswer, ToolDone, Settled, store
  <2>6. QED
    BY <2>4, <2>5
<1>8. CASE todo' # <<>>
  <2>1. pc' = "acting" /\ status' = "running"
    BY <1>1, <1>8 DEF ToolDone
  <2>2. TypeOK'
    BY <1>2, <1>3, <1>4, <2>1 DEF TypeOK, ToolDone, store, history
  <2>3. StepInv' /\ CallInv' /\ SuccessIsAnAnswer'
    BY <1>1, <1>3, <1>4, <1>6, <1>8, <2>1
       DEF StepInv, CallInv, SuccessIsAnAnswer, ToolDone, store
  <2>4. QED
    BY <2>2, <2>3
<1>9. QED
  BY <1>7, <1>8

LEMMA CompactContextInv == LoopInv /\ CompactContext => LoopInv'
<1> SUFFICES ASSUME LoopInv, CompactContext PROVE LoopInv'
  OBVIOUS
<1> USE DEF LoopInv
<1>1. Summary \in Seq(Messages) /\ Balanced(Summary, Len(Summary))
  <2>1. /\ UserMessage(0) \in Messages /\ UserMessage(0).uses = {}
        /\ Text("assistant", 0) \in Messages /\ Text("assistant", 0).uses = {}
    BY LoopAssumption, MessageTypes
  <2>2. /\ Summary \in Seq(Messages) /\ Len(Summary) = 2
        /\ Summary[1] = UserMessage(0) /\ Summary[2] = Text("assistant", 0)
    BY <2>1 DEF Summary
  <2>3. Used(Summary, 2) = {}
    BY <2>1, <2>2, UsedOrAnswered
  <2>4. QED
    BY <2>2, <2>3 DEF Balanced
<1>2. /\ messages' \in Seq(Messages) /\ stray' = stray
      /\ Used(messages', Len(messages')) \subseteq Answered(messages', Len(messages')) \cup stray'
  BY <1>1 DEF CompactContext, TypeOK, CallInv, Settled, Balanced
<1>3. run \in 1..MaxRuns /\ status = "running" /\ step < max_steps
  BY DEF CompactContext, StepInv, TypeOK
<1>4. TypeOK'
  BY <1>2, <1>3 DEF CompactContext, TypeOK, store
<1>5. StepInv' /\ CallInv' /\ SuccessIsAnAnswer'
  BY <1>2, <1>3 DEF StepInv, CallInv, SuccessIsAnAnswer, CompactContext, Settled, store
<1>6. QED
  BY <1>4, <1>5

LEMMA WrappedInv == LoopInv /\ Wrapped => LoopInv'
<1> SUFFICES ASSUME LoopInv, Wrapped PROVE LoopInv'
  OBVIOUS
<1> USE DEF LoopInv
<1>1. status = "running" => step < max_steps
  BY DEF Wrapped, StepInv
<1>2. TypeOK'
  BY <1>1, LoopAssumption DEF TypeOK, Wrapped, NextStep, store, history
<1>3. StepInv' /\ CallInv' /\ SuccessIsAnAnswer'
  BY <1>1 DEF TypeOK, StepInv, CallInv, SuccessIsAnAnswer, Wrapped, NextStep, Settled, store, history
<1>4. QED
  BY <1>2, <1>3

\* The steps that end a run, or stand beside it.
LEMMA OtherStepsInv ==
  ASSUME LoopInv, ChatFails \/ Cancel \/ CancelFinish \/ UNCHANGED vars
  PROVE  LoopInv'
<1> USE DEF LoopInv
<1>1. CASE ChatFails
  BY <1>1 DEF ChatFails, TypeOK, StepInv, CallInv, SuccessIsAnAnswer, store, history
<1>2. CASE Cancel
  BY <1>2 DEF Cancel, TypeOK, StepInv, CallInv, SuccessIsAnAnswer, store, history
<1>3. CASE CancelFinish
  BY <1>3 DEF CancelFinish, EndRun, TypeOK, StepInv, CallInv, SuccessIsAnAnswer, history
<1>4. CASE UNCHANGED vars
  BY <1>4 DEF vars, TypeOK, StepInv, CallInv, SuccessIsAnAnswer, Waiting, Settled
<1>5. QED
  BY <1>1, <1>2, <1>3, <1>4

LEMMA FinishRunInv == LoopInv /\ FinishRun => LoopInv'
<1> SUFFICES ASSUME LoopInv, FinishRun PROVE LoopInv'
  OBVIOUS
<1> USE DEF LoopInv
<1>1. messages \in Seq(Messages) /\ thread \in Seq(Messages) /\ prefill \in Nat
  BY DEF TypeOK
<1>2. \A i \in (prefill + 1)..Len(messages) : messages[i] \in Messages
  BY <1>1
<1>3. SubSeq(messages, prefill + 1, Len(messages)) \in Seq(Messages)
  BY <1>1, <1>2, SubSeqProperties
<1>4. thread' \in Seq(Messages)
  BY <1>1, <1>3 DEF FinishRun
<1>5. QED
  BY <1>4 DEF FinishRun, EndRun, TypeOK, StepInv, CallInv, SuccessIsAnAnswer, history

LEMMA TruncateInv ==
  ASSUME LoopInv, NEW k \in 0..Len(thread), Truncate(k)
  PROVE  LoopInv'
<1> USE DEF LoopInv
<1>1. thread' \in Seq(Messages)
  BY DEF Truncate, TypeOK
<1>2. QED
  BY <1>1 DEF Truncate, TypeOK, StepInv, CallInv, SuccessIsAnAnswer, history

LEMMA NextInv == LoopInv /\ [Next]_vars => LoopInv'
BY StartRunInv, AnswerTextInv, AnswerStrayInv, AnswerToolsInv, AnswerCutInv, ToolDoneInv,
   CompactContextInv, WrappedInv, OtherStepsInv, FinishRunInv, TruncateInv
   DEF Next

LEMMA LoopInvHolds == Spec => []LoopInv
<1>1. Init => LoopInv
  BY InitInv
<1>2. LoopInv /\ [Next]_vars => LoopInv'
  BY NextInv
<1>3. QED
  BY <1>1, <1>2, PTL DEF Spec

-----------------------------------------------------------------------------
\* The state of the loop has its types (loop.py, context.py).
THEOREM TypeCorrect == Spec => []TypeOK
<1>1. LoopInv => TypeOK
  BY DEF LoopInv
<1>2. QED
  BY <1>1, LoopInvHolds, PTL

\* The loop calls the LLM at most max_steps times, whatever the LLM asks for,
\* and no run is left running when it ends (loop.py:115).
THEOREM StepBudgetHolds == Spec => []StepBudget
<1>1. LoopInv => StepBudget
  BY LoopAssumption DEF LoopInv, TypeOK, StepInv, StepBudget
<1>2. QED
  BY <1>1, LoopInvHolds, PTL

\* A success ends with the LLM's own message and leaves no call unanswered that
\* the loop took up, also in a session that was cancelled, cut off, truncated
\* or compacted before (loop.py:89-118, _trim_orphan_tool_use).
THEOREM SuccessIsAnAnswerHolds == Spec => []SuccessIsAnAnswer
<1>1. LoopInv => SuccessIsAnAnswer
  BY DEF LoopInv
<1>2. QED
  BY <1>1, LoopInvHolds, PTL

-----------------------------------------------------------------------------
(***************************************************************************)
(* The context against the thread.                                         *)
(***************************************************************************)
\* ContextExtendsHistory, message by message; a run that waits for a tool has
\* added a message of its own, so that add_tool_result cannot write into the
\* history.
HistoryInv ==
    pc # "idle" /\ run \notin compacted =>
        /\ prefill = Len(Trim(thread))
        /\ Len(messages) >= prefill
        /\ \A i \in 1..prefill : messages[i] = Trim(thread)[i]
        /\ pc = "acting" => Len(messages) > prefill

\* What a message more, or a result more, does to the context.
Extends(q, p, n) ==
    /\ Len(p) >= Len(q)
    /\ \A i \in 1..n : p[i] = q[i]

LEMMA AppendExtends ==
  ASSUME NEW q \in Seq(Messages), NEW m \in Messages, NEW n \in 0..Len(q)
  PROVE  /\ Append(q, m) \in Seq(Messages) /\ Len(Append(q, m)) = Len(q) + 1
         /\ Append(q, m)[Len(q) + 1] = m
         /\ \A i \in 1..Len(q) : Append(q, m)[i] = q[i]
         /\ Extends(q, Append(q, m), n)
BY DEF Extends

\* add_tool_result, message by message: q is p with its last message widened by
\* a result, or with a message more.
Widened(p, q, id) ==
    /\ p[Len(p)].role = "user" /\ p[Len(p)].results # {}
    /\ Len(q) = Len(p)
    /\ \A i \in 1..Len(p) : i # Len(p) => q[i] = p[i]
    /\ q[Len(p)].uses = p[Len(p)].uses
    /\ q[Len(p)].role = "user"
    /\ q[Len(p)].results = p[Len(p)].results \cup {id}

Added(p, q, id) ==
    /\ ~ (p[Len(p)].role = "user" /\ p[Len(p)].results # {})
    /\ Len(q) = Len(p) + 1
    /\ \A i \in 1..Len(p) : q[i] = p[i]
    /\ q[Len(p) + 1].uses = {}
    /\ q[Len(p) + 1].role = "user"
    /\ q[Len(p) + 1].results = {id}

LEMMA AddResultCases ==
  ASSUME messages \in Seq(Messages), messages # <<>>, run \in 0..MaxRuns,
         NEW id \in Ids
  PROVE  \/ Widened(messages, AddResult(id), id)
         \/ Added(messages, AddResult(id), id)
<1> DEFINE n == Len(messages)
           last == messages[n]
<1>1. n \in Nat \ {0} /\ last \in Messages
  BY ElementOfSeq
<1>2. CASE last.role = "user" /\ last.results # {}
  <2> DEFINE m == [last EXCEPT !.results = @ \cup {id}]
             q == [messages EXCEPT ![n] = m]
  <2>1. AddResult(id) = q
    BY <1>2 DEF AddResult
  <2>2. /\ m \in Messages /\ m.uses = last.uses /\ m.role = "user"
        /\ m.results = last.results \cup {id}
    BY <1>1, <1>2 DEF Messages
  <2>3. q \in Seq(Messages) /\ Len(q) = n /\ q[n] = m
    <3> HIDE DEF m
    <3>1. q \in Seq(Messages) /\ Len(q) = n
      BY <1>1, <2>2, ExceptSeq
    <3>2. messages \in [1..n -> Messages]
      BY LenProperties
    <3>3. QED
      BY <1>1, <3>1, <3>2
  <2>4. \A i \in 1..n : i # n => q[i] = messages[i]
    BY <1>1
  <2> HIDE DEF m, q
  <2>5. Widened(messages, q, id)
    BY <1>1, <1>2, <2>2, <2>3, <2>4 DEF Widened
  <2>6. QED
    BY <2>1, <2>5
<1>3. CASE ~(last.role = "user" /\ last.results # {})
  <2> DEFINE m == Results(run, {id})
  <2>1. AddResult(id) = Append(messages, m)
    BY <1>3 DEF AddResult
  <2>2. m \in Messages /\ m.uses = {} /\ m.role = "user" /\ m.results = {id}
    <3>1. m \in Messages /\ m.uses = {} /\ m.results = {id}
      BY MessageTypes
    <3>2. m.role = "user"
      BY DEF Results, Text
    <3>3. QED
      BY <3>1, <3>2
  <2> HIDE DEF m
  <2>3. /\ Append(messages, m) \in Seq(Messages)
        /\ Len(Append(messages, m)) = n + 1
        /\ Append(messages, m)[n + 1] = m
        /\ \A i \in 1..n : Append(messages, m)[i] = messages[i]
    BY <2>2
  <2> DEFINE q == Append(messages, m)
  <2> HIDE DEF q
  <2>4. Added(messages, q, id)
    BY <1>1, <1>3, <2>2, <2>3 DEF Added, q
  <2>5. QED
    BY <2>1, <2>4 DEF q
<1>4. QED
  BY <1>2, <1>3

\* A step of a run that goes on keeps what the context took from the thread.
LEMMA KeepsHistory ==
  ASSUME HistoryInv, pc # "idle", thread' = thread, prefill' = prefill,
         run' = run, compacted \subseteq compacted',
         run \notin compacted' =>
             /\ Extends(messages, messages', prefill)
             /\ pc' = "acting" => Len(messages') > prefill,
         Len(messages) \in Nat, Len(messages') \in Nat, prefill \in Nat
  PROVE  HistoryInv'
BY DEF HistoryInv, Extends

LEMMA HistoryNext ==
  ASSUME LoopInv, HistoryInv, [Next]_vars
  PROVE  HistoryInv'
<1> USE DEF LoopInv
<1>0. /\ messages \in Seq(Messages) /\ Len(messages) \in Nat /\ prefill \in Nat
      /\ thread \in Seq(Messages) /\ run \in 0..MaxRuns
  BY DEF TypeOK
<1>1. messages' \in Seq(Messages) /\ Len(messages') \in Nat
  <2>1. LoopInv'
    BY NextInv
  <2>2. messages' \in Seq(Messages)
    BY <2>1 DEF TypeOK
  <2>3. QED
    BY <2>2
<1>2. CASE StartRun
  <2>1. Trim(thread') \in Seq(Messages)
    <3>1. LoopInv'
      BY NextInv
    <3>2. QED
      BY <3>1, TrimBalances DEF TypeOK
  <2>2. /\ prefill' = Len(Trim(thread')) /\ pc' = "planning"
        /\ messages' = IF prefill' = 0 THEN <<UserMessage(run')>> ELSE Trim(thread')
    BY <1>2 DEF StartRun
  <2>3. CASE prefill' = 0
    BY <1>1, <2>2, <2>3 DEF HistoryInv
  <2>4. CASE prefill' # 0
    BY <2>1, <2>2, <2>4 DEF HistoryInv
  <2>5. QED
    BY <2>3, <2>4
<1>3. ASSUME NEW stop, AnswerText(stop) PROVE HistoryInv'
  <2> DEFINE m == Assistant(run, {})
  <2>1. m \in Messages
    BY <1>0, MessageTypes
  <2>2. messages' = Append(messages, m)
    BY <1>3 DEF AnswerText, Observed
  <2> HIDE DEF m
  <2>3. run \notin compacted => Extends(messages, messages', prefill)
    <3>1. run \notin compacted => prefill \in 0..Len(messages)
      BY <1>0, <1>3 DEF HistoryInv, AnswerText
    <3>2. QED
      BY <1>0, <2>1, <2>2, <3>1, AppendExtends
  <2>4. pc' # "acting" /\ pc # "idle" /\ UNCHANGED <<store, compacted>>
    BY <1>3 DEF AnswerText, EndStep, history
  <2>5. QED
    BY <1>0, <1>1, <2>3, <2>4, KeepsHistory DEF store
<1>4. ASSUME NEW n \in 1..MaxCalls, AnswerTools(n) PROVE HistoryInv'
  <2> DEFINE m == Assistant(run, CallIds(n))
  <2>1. m \in Messages
    BY <1>0, <1>4, CallIdsType, MessageTypes DEF AnswerTools
  <2>2. messages' = Append(messages, m)
    BY <1>4 DEF AnswerTools, Observed
  <2> HIDE DEF m
  <2>3. run \notin compacted =>
          Extends(messages, messages', prefill) /\ Len(messages') > prefill
    BY <1>0, <1>4, <2>1, <2>2, AppendExtends DEF HistoryInv, AnswerTools
  <2>4. pc # "idle" /\ UNCHANGED <<store, compacted>>
    BY <1>4 DEF AnswerTools, history
  <2>5. QED
    BY <1>0, <1>1, <2>3, <2>4, KeepsHistory DEF store
<1>5. ASSUME NEW n \in 1..MaxCalls, AnswerCut(n) PROVE HistoryInv'
  <2> DEFINE m == Assistant(run, CallIds(n))
             r == Results(run, CallIds(n))
             q == Append(messages, m)
  <2>1. m \in Messages /\ r \in Messages
    BY <1>0, <1>5, CallIdsType, MessageTypes DEF AnswerCut
  <2>2. messages' = q \o <<r>>
    BY <1>5 DEF AnswerCut, Observed
  <2> HIDE DEF m, r
  <2>3. /\ q \in Seq(Messages) /\ Len(q) = Len(messages) + 1
        /\ \A i \in 1..Len(messages) : q[i] = messages[i]
    BY <1>0, <2>1
  <2> HIDE DEF q
  <2>4. /\ Len(messages') = Len(q) + 1
        /\ \A i \in 1..Len(q) : messages'[i] = q[i]
    BY <2>1, <2>2, <2>3
  <2>5. run \notin compacted => Extends(messages, messages', prefill)
    BY <1>0, <1>5, <2>3, <2>4 DEF HistoryInv, AnswerCut, Extends
  <2>6. pc' # "acting" /\ pc # "idle" /\ UNCHANGED <<store, compacted>>
    BY <1>5 DEF AnswerCut, EndStep, history
  <2>7. QED
    BY <1>0, <1>1, <2>5, <2>6, KeepsHistory DEF store
<1>6. CASE ToolDone
  <2> DEFINE id == Head(todo)
  <2>1. pc = "acting" /\ messages # <<>> /\ id \in Ids /\ messages' = AddResult(id)
    BY <1>6 DEF ToolDone, CallInv, TypeOK
  <2> HIDE DEF id
  <2> DEFINE q == AddResult(id)
  <2>2. /\ Len(q) >= Len(messages)
        /\ \A i \in 1..Len(messages) : i # Len(messages) => q[i] = messages[i]
    <3>1. Widened(messages, q, id) \/ Added(messages, q, id)
      BY <1>0, <2>1, AddResultCases
    <3> HIDE DEF q
    <3>2. QED
      BY <1>0, <3>1 DEF Widened, Added
  <2> HIDE DEF q
  <2>3. run \notin compacted =>
          Extends(messages, messages', prefill) /\ Len(messages') > prefill
    BY <1>0, <1>1, <2>1, <2>2 DEF HistoryInv, Extends, q
  <2>4. UNCHANGED <<store, compacted>>
    BY <1>6 DEF ToolDone, history
  <2>5. QED
    BY <1>0, <1>1, <2>1, <2>3, <2>4, KeepsHistory DEF store
<1>7. CASE CompactContext
  <2>1. /\ pc # "idle" /\ pc' # "acting" /\ UNCHANGED store
        /\ compacted \subseteq compacted'
        /\ run \notin compacted' => messages' = messages
    BY <1>7 DEF CompactContext
  <2>2. run \notin compacted' => Extends(messages, messages', prefill)
    BY <1>0, <2>1 DEF Extends
  <2>3. QED
    BY <1>0, <1>1, <2>1, <2>2, KeepsHistory DEF store
<1>8. CASE ChatFails \/ Wrapped \/ Cancel
  <2>1. /\ pc # "idle" /\ pc' # "acting" /\ UNCHANGED <<store, messages, compacted>>
    BY <1>8 DEF ChatFails, Wrapped, Cancel, NextStep, history
  <2>2. Extends(messages, messages', prefill)
    BY <1>0, <2>1 DEF Extends
  <2>3. QED
    BY <1>0, <1>1, <2>1, <2>2, KeepsHistory DEF store
<1>9. CASE FinishRun \/ CancelFinish \/ \E k \in 0..Len(thread) : Truncate(k)
  BY <1>9 DEF FinishRun, CancelFinish, EndRun, Truncate, HistoryInv, history
<1>10. CASE UNCHANGED vars
  BY <1>10 DEF vars, HistoryInv
<1>11. ASSUME NEW stop, NEW n \in 1..MaxCalls, AnswerStray(stop, n)
       PROVE  HistoryInv'
  <2> DEFINE m == Assistant(run, CallIds(n))
  <2>1. m \in Messages
    BY <1>0, <1>11, CallIdsType, MessageTypes DEF AnswerStray
  <2>2. messages' = Append(messages, m)
    BY <1>11 DEF AnswerStray, Observed
  <2> HIDE DEF m
  <2>3. run \notin compacted => Extends(messages, messages', prefill)
    <3>1. run \notin compacted => prefill \in 0..Len(messages)
      BY <1>0, <1>11 DEF HistoryInv, AnswerStray
    <3>2. QED
      BY <1>0, <2>1, <2>2, <3>1, AppendExtends
  <2>4. pc' # "acting" /\ pc # "idle" /\ UNCHANGED <<store, compacted>>
    BY <1>11 DEF AnswerStray, EndStep
  <2>5. QED
    BY <1>0, <1>1, <2>3, <2>4, KeepsHistory DEF store
<1>12. QED
  BY <1>2, <1>3, <1>4, <1>5, <1>6, <1>7, <1>8, <1>9, <1>10, <1>11 DEF Next

\* A run only adds to the history it read: nothing that was in the thread is
\* rewritten or reordered in its context (ExecutionContext copies the history,
\* context.py; read_messages trims it, store.py).
THEOREM ContextExtendsHistoryHolds == Spec => []ContextExtendsHistory
<1>1. Init => HistoryInv
  BY DEF Init, HistoryInv
<1>2. LoopInv /\ HistoryInv /\ [Next]_vars => HistoryInv'
  BY HistoryNext
<1>3. LoopInv /\ HistoryInv => ContextExtendsHistory
  <2> SUFFICES ASSUME LoopInv, HistoryInv, pc # "idle", run \notin compacted
               PROVE  /\ Len(messages) >= prefill
                      /\ SubSeq(messages, 1, prefill) = Trim(thread)
    BY DEF ContextExtendsHistory
  <2>1. messages \in Seq(Messages) /\ prefill \in Nat /\ Trim(thread) \in Seq(Messages)
    BY TrimBalances DEF LoopInv, TypeOK
  <2>2. /\ prefill = Len(Trim(thread)) /\ Len(messages) >= prefill
        /\ \A i \in 1..prefill : messages[i] = Trim(thread)[i]
    BY DEF HistoryInv
  <2> DEFINE s == SubSeq(messages, 1, prefill)
             t == Trim(thread)
  <2>3. s \in Seq(Messages) /\ Len(s) = prefill /\ \A i \in 1..prefill : s[i] = messages[i]
    BY <2>1, <2>2
  <2> HIDE DEF s, t
  <2>4. s = t
    BY <2>1, <2>2, <2>3, SeqEqual DEF t
  <2>5. QED
    BY <2>2, <2>4 DEF s, t
<1>4. QED
  BY <1>1, <1>2, <1>3, LoopInvHolds, PTL DEF Spec
-----------------------------------------------------------------------------
(***************************************************************************)
(* What is paired.  A thread may end a run amid its calls, so it is orderly *)
(* only: a result stands behind the call it answers, no call is made twice, *)
(* and a message's calls are all taken up or none is.  An orderly sequence *)
(* that is settled is paired.                                              *)
(***************************************************************************)
Whole(m, s) ==
    /\ m.uses \subseteq s \/ m.uses \cap s = {}
    /\ m.results \cap s = {}

Orderly(q, y) ==
    /\ \A i \in 1..Len(q) : \A x \in q[i].results : i > 1 /\ x \in q[i - 1].uses
    /\ \A i, j \in 1..Len(q) : \A x \in q[i].uses : x \in q[j].uses => i = j
    /\ \A i \in 1..Len(q) : Whole(q[i], y)

LEMMA OrderlyPairs ==
  ASSUME NEW q \in Seq(Messages), Orderly(q, stray), Settled(q)
  PROVE  Paired(q)
<1> DEFINE n == Len(q)
<1>1. n \in Nat
  OBVIOUS
<1>2. ASSUME NEW i \in 1..n, ~ (q[i].uses \subseteq stray), NEW x \in q[i].uses
      PROVE  i < n /\ x \in q[i + 1].results
  <2>1. x \in Answered(q, n)
    BY <1>2, UsedOrAnswered DEF Settled, Orderly, Whole
  <2>2. PICK j \in 1..n : x \in q[j].results
    BY <2>1, UsedOrAnswered
  <2>3. j > 1 /\ x \in q[j - 1].uses /\ j - 1 \in 1..n
    BY <1>1, <2>2 DEF Orderly
  <2>4. j - 1 = i
    BY <1>2, <2>3 DEF Orderly
  <2>5. QED
    BY <1>1, <2>2, <2>3, <2>4
<1>3. ASSUME NEW i \in 1..n, NEW x \in q[i].results
      PROVE  i > 1 /\ x \in q[i - 1].uses
  BY DEF Orderly
<1>4. ASSUME NEW i \in 1..n, ~ (q[i].uses \subseteq stray)
      PROVE  i < n /\ q[i].uses = q[i + 1].results
  <2>1. i < n /\ \A x \in q[i].uses : x \in q[i + 1].results
    BY <1>2, <1>4
  <2>2. i + 1 \in 1..n /\ (i + 1) - 1 = i
    BY <1>1, <2>1
  <2>3. \A x \in q[i + 1].results : x \in q[i].uses
    BY <1>3, <2>2
  <2>4. QED
    BY <2>1, <2>3
<1>5. ASSUME NEW i \in 1..n, q[i].results # {}
      PROVE  i > 1 /\ q[i].results = q[i - 1].uses
  <2>1. i > 1 /\ \A x \in q[i].results : x \in q[i - 1].uses
    BY <1>3, <1>5
  <2>2. i - 1 \in 1..n /\ ~ (q[i - 1].uses \subseteq stray) /\ (i - 1) + 1 = i
    BY <1>1, <1>5, <2>1 DEF Orderly, Whole
  <2>3. q[i - 1].uses = q[i].results
    BY <1>4, <2>2
  <2>4. QED
    BY <2>1, <2>3
<1>6. QED
  BY <1>4, <1>5 DEF Paired

\* A beginning of an orderly sequence is orderly.
LEMMA OrderlyPrefix ==
  ASSUME NEW q, NEW p, NEW y, Len(q) \in Nat, Len(p) \in Nat, Orderly(q, y),
         Len(p) <= Len(q), \A i \in 1..Len(p) : p[i] = q[i]
  PROVE  Orderly(p, y)
<1>1. \A i \in 1..Len(p) : i \in 1..Len(q) /\ (i > 1 => i - 1 \in 1..Len(p))
  OBVIOUS
<1>2. ASSUME NEW i \in 1..Len(p), NEW x \in p[i].results
      PROVE  i > 1 /\ x \in p[i - 1].uses
  <2>1. i \in 1..Len(q) /\ p[i] = q[i]
    BY <1>1
  <2>2. i > 1 /\ x \in q[i - 1].uses
    BY <1>2, <2>1 DEF Orderly
  <2>3. i - 1 \in 1..Len(p)
    BY <1>1, <2>2
  <2>4. p[i - 1] = q[i - 1]
    BY <2>3
  <2>5. QED
    BY <2>2, <2>4
<1>3. ASSUME NEW i \in 1..Len(p), NEW j \in 1..Len(p),
             NEW x \in p[i].uses, x \in p[j].uses
      PROVE  i = j
  <2>1. i \in 1..Len(q) /\ p[i] = q[i] /\ j \in 1..Len(q) /\ p[j] = q[j]
    BY <1>1
  <2>2. QED
    BY <1>3, <2>1 DEF Orderly
<1>4. \A i \in 1..Len(p) : Whole(p[i], y)
  BY <1>1 DEF Orderly
<1>5. QED
  BY <1>2, <1>3, <1>4 DEF Orderly

\* One message more, with fresh calls and results of the message before it.
LEMMA OrderlyAppend ==
  ASSUME NEW q, NEW a, NEW y, Len(q) \in Nat, Orderly(q, y),
         Len(a) = Len(q) + 1, \A i \in 1..Len(q) : a[i] = q[i],
         Whole(a[Len(q) + 1], y),
         \A x \in a[Len(q) + 1].results : Len(q) > 0 /\ x \in q[Len(q)].uses,
         \A i \in 1..Len(q) : \A x \in q[i].uses : x \notin a[Len(q) + 1].uses
  PROVE  Orderly(a, y)
<1> DEFINE n == Len(q)
<1>1. n \in Nat /\ Len(a) = n + 1 /\ \A i \in 1..n : a[i] = q[i]
  OBVIOUS
<1>2. ASSUME NEW i \in 1..(n + 1), NEW x \in a[i].results
      PROVE  i > 1 /\ x \in a[i - 1].uses
  <2>1. CASE i = n + 1
    <3>1. n > 0 /\ x \in q[n].uses
      BY <1>1, <1>2, <2>1
    <3>2. n \in 1..n /\ i - 1 = n
      BY <1>1, <2>1, <3>1
    <3>3. QED
      BY <1>1, <2>1, <3>1, <3>2
  <2>2. CASE i # n + 1
    <3>1. i \in 1..n
      BY <1>1, <2>2
    <3>2. i > 1 /\ x \in q[i - 1].uses
      BY <1>1, <1>2, <3>1 DEF Orderly
    <3>3. QED
      BY <1>1, <3>1, <3>2
  <2>3. QED
    BY <2>1, <2>2
<1>3. ASSUME NEW i \in 1..(n + 1), NEW j \in 1..(n + 1),
             NEW x \in a[i].uses, x \in a[j].uses
      PROVE  i = j
  <2>1. CASE i \in 1..n /\ j \in 1..n
    BY <1>1, <1>3, <2>1 DEF Orderly
  <2>2. CASE i = n + 1 \/ j = n + 1
    BY <1>1, <1>3, <2>2
  <2>3. QED
    BY <1>1, <2>1, <2>2
<1>4. ASSUME NEW i \in 1..(n + 1) PROVE Whole(a[i], y)
  BY <1>1 DEF Orderly
<1>5. QED
  BY <1>1, <1>2, <1>3, <1>4 DEF Orderly

\* A result more in the last message, for a call of the one before it.
LEMMA OrderlyWidened ==
  ASSUME NEW p \in Seq(Messages), NEW q \in Seq(Messages), NEW id, NEW y, Orderly(p, y),
         Widened(p, q, id), Len(p) > 1, id \in p[Len(p) - 1].uses,
         id \notin y
  PROVE  Orderly(q, y)
<1> DEFINE n == Len(p)
<1>1. /\ n \in Nat /\ n > 1 /\ Len(q) = n /\ n - 1 \in 1..n
      /\ \A i \in 1..n : q[i].uses = p[i].uses
      /\ \A i \in 1..n : \A x \in q[i].results :
            x \in p[i].results \/ (i = n /\ x = id)
  BY DEF Widened
<1>2. ASSUME NEW i \in 1..n, NEW x \in q[i].results
      PROVE  i > 1 /\ x \in q[i - 1].uses
  <2>1. CASE x \in p[i].results
    <3>1. i > 1 /\ x \in p[i - 1].uses
      BY <2>1 DEF Orderly
    <3>2. i - 1 \in 1..n
      BY <1>1, <3>1
    <3>3. QED
      BY <1>1, <3>1, <3>2
  <2>2. CASE i = n /\ x = id
    BY <1>1, <2>2
  <2>3. QED
    BY <1>1, <2>1, <2>2
<1>3. \A i, j \in 1..n : \A x \in q[i].uses : x \in q[j].uses => i = j
  BY <1>1 DEF Orderly
<1>4. \A i \in 1..n : Whole(q[i], y)
  BY <1>1 DEF Orderly, Whole
<1>5. QED
  BY <1>1, <1>2, <1>3, <1>4 DEF Orderly

-----------------------------------------------------------------------------
(***************************************************************************)
(* The inductive invariant.                                                *)
(***************************************************************************)
\* The context q of the current run, whose calls were made up to step s, those
\* in y not taken up: its ids tell the run and the step, what the run added
\* starts behind whole pairs, and what it read has no call that waits.
Context(q, s, y) ==
    /\ Orderly(q, y)
    /\ \A i \in 1..Len(q) : \A x \in q[i].uses :
          /\ x[1] <= run
          /\ x[1] = run => x[2] <= s
          /\ i > prefill => x[1] = run
          /\ x \in y => i > prefill
    /\ Len(q) > prefill => q[prefill + 1].results = {}
    /\ \A x \in y : x[1] = run => x[2] <= s

\* The calls without a result are those of the last step's message.
Asked(q) ==
    /\ Waiting \cap stray = {}
    /\ \/ q[Len(q)].role = "assistant" /\ Waiting \subseteq q[Len(q)].uses
       \/ /\ q[Len(q)].role = "user" /\ q[Len(q)].results # {}
          /\ Len(q) > 1 /\ Waiting \subseteq q[Len(q) - 1].uses

ThreadInv ==
    /\ Orderly(thread, stray)
    /\ \A x \in stray : x[1] <= run
    /\ \A i \in 1..Len(thread) : \A x \in thread[i].uses :
          x[1] <= run /\ (pc # "idle" => x[1] < run)

ContextInv ==
    pc # "idle" =>
        /\ Context(messages, IF pc = "planning" THEN step - 1 ELSE step, stray)
        /\ pc = "acting" => Asked(messages)

PairInv == compacted = {} => ThreadInv /\ ContextInv

\* Numbers of the run and of the step, as far as arithmetic is concerned.
LEMMA Counters ==
  ASSUME LoopInv
  PROVE  /\ run \in Nat /\ step \in Nat /\ prefill \in Nat
         /\ thread \in Seq(Messages) /\ messages \in Seq(Messages)
         /\ pc # "idle" => run >= 1 /\ step >= 1
<1>1. /\ run \in 0..MaxRuns /\ step \in 0..max_steps /\ prefill \in Nat
      /\ thread \in Seq(Messages) /\ messages \in Seq(Messages)
  BY DEF LoopInv, TypeOK
<1>2. pc # "idle" => run >= 1 /\ step >= 1
  BY DEF LoopInv, StepInv
<1>3. QED
  BY <1>1, <1>2, LoopAssumption

LEMMA IdParts ==
  ASSUME NEW x \in Ids
  PROVE  x[1] \in Nat /\ x[2] \in Nat
BY LoopAssumption DEF Ids

LEMMA UsesAreIds ==
  ASSUME NEW q \in Seq(Messages), NEW i \in 1..Len(q), NEW x \in q[i].uses
  PROVE  x \in Ids /\ x[1] \in Nat /\ x[2] \in Nat
<1>1. q[i] \in Messages
  OBVIOUS
<1>2. x \in Ids
  BY <1>1 DEF Messages
<1>3. QED
  BY <1>2, IdParts

\* One message more in a context.
LEMMA ContextAppend ==
  ASSUME NEW q \in Seq(Messages), NEW a, NEW s \in Int, NEW t \in Int, s <= t,
         NEW y \in SUBSET Ids, Context(q, s, y),
         run \in Nat, prefill \in Nat, Len(q) >= prefill,
         Len(a) = Len(q) + 1, Whole(a[Len(q) + 1], y), \A i \in 1..Len(q) : a[i] = q[i],
         \A x \in a[Len(q) + 1].results :
            Len(q) > prefill /\ x \in q[Len(q)].uses,
         \A x \in a[Len(q) + 1].uses : x[1] = run /\ x[2] <= t,
         \A i \in 1..Len(q) : \A x \in q[i].uses : x \notin a[Len(q) + 1].uses
  PROVE  Context(a, t, y)
<1> DEFINE n == Len(q)
<1>1. n \in Nat
  OBVIOUS
<1>2. Orderly(a, y)
  <2>1. \A x \in a[n + 1].results : n > 0 /\ x \in q[n].uses
    BY <1>1
  <2>2. QED
    BY <1>1, <2>1, OrderlyAppend DEF Context
<1>3. ASSUME NEW i \in 1..Len(a), NEW x \in a[i].uses
      PROVE  /\ x[1] <= run
             /\ x[1] = run => x[2] <= t
             /\ i > prefill => x[1] = run
             /\ x \in y => i > prefill
  <2>1. CASE i \in 1..n
    <3>1. x \in q[i].uses /\ x[2] \in Nat
      BY <1>3, <2>1, UsesAreIds
    <3>2. QED
      BY <2>1, <3>1 DEF Context
  <2>2. CASE i = n + 1
    BY <1>3, <2>2
  <2>3. QED
    BY <1>1, <2>1, <2>2
<1>4. ASSUME Len(a) > prefill PROVE a[prefill + 1].results = {}
  <2>1. CASE n > prefill
    <3>1. prefill + 1 \in 1..n
      BY <1>1, <2>1
    <3>2. QED
      BY <2>1, <3>1 DEF Context
  <2>2. CASE n = prefill
    BY <1>1, <2>2
  <2>3. QED
    BY <1>1, <2>1, <2>2
<1>5. ASSUME NEW x \in y, x[1] = run PROVE x[2] <= t
  <2>1. x[2] <= s /\ x[2] \in Nat
    BY <1>5, IdParts DEF Context
  <2>2. QED
    BY <2>1
<1>6. QED
  BY <1>2, <1>3, <1>4, <1>5 DEF Context

\* Calls made up to an earlier step were made up to a later one.
LEMMA ContextLater ==
  ASSUME NEW q \in Seq(Messages), NEW s \in Int, NEW t \in Int, s <= t,
         NEW y \in SUBSET Ids, Context(q, s, y)
  PROVE  Context(q, t, y)
<1>1. ASSUME NEW i \in 1..Len(q), NEW x \in q[i].uses, x[1] = run
      PROVE  x[2] <= t
  <2>1. x[2] \in Nat /\ x[2] <= s
    BY <1>1, UsesAreIds DEF Context
  <2>2. QED
    BY <2>1
<1>2. ASSUME NEW x \in y, x[1] = run PROVE x[2] <= t
  <2>1. x[2] <= s /\ x[2] \in Nat
    BY <1>2, IdParts DEF Context
  <2>2. QED
    BY <2>1
<1>3. QED
  BY <1>1, <1>2 DEF Context

\* The calls of a step bear new ids.
LEMMA FreshCalls ==
  ASSUME LoopInv, NEW n, NEW q \in Seq(Messages), Context(q, step - 1, stray)
  PROVE  /\ \A x \in CallIds(n) : x[1] = run /\ x[2] = step
         /\ \A i \in 1..Len(q) : \A x \in q[i].uses : x \notin CallIds(n)
         /\ CallIds(n) \cap stray = {}
<1>1. \A x \in CallIds(n) : x[1] = run /\ x[2] = step
  BY DEF CallIds
<1>2. ASSUME NEW i \in 1..Len(q), NEW x \in q[i].uses, x \in CallIds(n)
      PROVE  FALSE
  <2>1. x[1] = run /\ x[2] = step
    BY <1>1, <1>2
  <2>2. x[2] <= step - 1
    BY <2>1 DEF Context
  <2>3. QED
    BY <2>1, <2>2, Counters
<1>3. ASSUME NEW x \in stray, x \in CallIds(n) PROVE FALSE
  <2>1. x[1] = run /\ x[2] = step
    BY <1>1, <1>3
  <2>2. x[2] <= step - 1
    BY <2>1 DEF Context
  <2>3. QED
    BY <2>1, <2>2, Counters
<1>4. QED
  BY <1>1, <1>2, <1>3

\* New calls of the step s that the loop does not take up.
LEMMA ContextStray ==
  ASSUME NEW q \in Seq(Messages), NEW s \in Int, NEW y \in SUBSET Ids, Context(q, s, y),
         NEW new, \A x \in new : x[1] = run /\ x[2] = s,
         \A i \in 1..Len(q) : \A x \in q[i].uses : x \notin new
  PROVE  Context(q, s, y \cup new)
<1>1. ASSUME NEW i \in 1..Len(q) PROVE q[i].results \cap new = {}
  <2>1. ASSUME NEW x \in q[i].results PROVE x \notin new
    <3>1. i > 1 /\ x \in q[i - 1].uses
      BY DEF Context, Orderly
    <3>2. i - 1 \in 1..Len(q)
      BY <3>1
    <3>3. QED
      BY <3>1, <3>2
  <2>2. QED
    BY <2>1
<1>2. \A i \in 1..Len(q) : Whole(q[i], y \cup new)
  BY <1>1 DEF Context, Orderly, Whole
<1>3. Orderly(q, y \cup new)
  BY <1>2 DEF Context, Orderly
<1>4. ASSUME NEW x \in y \cup new, x[1] = run PROVE x[2] <= s
  BY <1>4 DEF Context
<1>5. QED
  BY <1>3, <1>4 DEF Context
-----------------------------------------------------------------------------
(***************************************************************************)
(* Each step keeps it.                                                     *)
(***************************************************************************)
\* What a step of a run finds, while no run was compacted.
LEMMA Running ==
  ASSUME LoopInv, HistoryInv, PairInv, compacted = {}, pc # "idle"
  PROVE  /\ run \in Nat /\ step \in Nat /\ prefill \in Nat
         /\ thread \in Seq(Messages) /\ messages \in Seq(Messages)
         /\ Len(messages) \in Nat /\ Len(messages) >= prefill
         /\ ThreadInv
         /\ stray \in SUBSET Ids
         /\ pc = "planning" => Context(messages, step - 1, stray)
         /\ pc # "planning" => Context(messages, step, stray)
         /\ pc = "acting" => Asked(messages) /\ Len(messages) > prefill
<1>1. Len(messages) >= prefill /\ (pc = "acting" => Len(messages) > prefill)
  BY DEF HistoryInv
<1>2. stray \in SUBSET Ids
  BY DEF LoopInv, TypeOK
<1>3. QED
  BY <1>1, <1>2, Counters DEF PairInv, ContextInv

\* A step that leaves the thread and goes on with the run.
LEMMA ThreadKept ==
  ASSUME ThreadInv, pc # "idle", UNCHANGED <<thread, run, stray>>
  PROVE  ThreadInv'
BY DEF ThreadInv, Orderly, Whole

LEMMA StartRunPairs ==
  ASSUME LoopInv, PairInv, StartRun
  PROVE  PairInv'
<1> SUFFICES ASSUME compacted' = {} PROVE ThreadInv' /\ ContextInv'
  BY DEF PairInv
<1> DEFINE r == run + 1
           m == UserMessage(r)
           t == Append(thread, m)
<1>1. /\ thread' = t /\ run' = r /\ step' = 1 /\ pc' = "planning" /\ pc = "idle"
      /\ prefill' = Len(Trim(t))
      /\ messages' = IF prefill' = 0 THEN <<m>> ELSE Trim(t)
      /\ compacted = {} /\ stray' = stray /\ r \in 0..MaxRuns
  <2>1. run < MaxRuns /\ run \in 0..MaxRuns
    BY DEF StartRun, LoopInv, TypeOK
  <2>2. QED
    BY <2>1, LoopAssumption DEF StartRun, history
<1>2. /\ run \in Nat /\ thread \in Seq(Messages) /\ ThreadInv
  BY <1>1, Counters DEF PairInv
<1>3. m \in Messages /\ m.uses = {} /\ m.results = {}
  <2> HIDE DEF r
  <2>1. QED
    BY <1>1, MessageTypes
<1> HIDE DEF m
<1>4. /\ t \in Seq(Messages) /\ Len(t) = Len(thread) + 1 /\ t[Len(thread) + 1] = m
      /\ \A i \in 1..Len(thread) : t[i] = thread[i]
  BY <1>2, <1>3
<1> HIDE DEF t
<1>5. Orderly(t, stray)
  BY <1>2, <1>3, <1>4, OrderlyAppend DEF ThreadInv, Whole
<1>6. ASSUME NEW i \in 1..Len(t), NEW x \in t[i].uses PROVE x[1] < r
  <2>1. i # Len(thread) + 1
    BY <1>3, <1>4, <1>6
  <2>2. i \in 1..Len(thread) /\ x \in thread[i].uses
    BY <1>2, <1>4, <1>6, <2>1
  <2>3. x[1] <= run /\ x[1] \in Nat
    BY <1>2, <2>2, UsesAreIds DEF ThreadInv
  <2>4. QED
    BY <1>2, <2>3
<1>7. ThreadInv'
  <2>1. ASSUME NEW i \in 1..Len(t), NEW x \in t[i].uses
        PROVE  x[1] <= r /\ x[1] < r
    BY <1>2, <1>4, <1>6, UsesAreIds
  <2>2. ASSUME NEW x \in stray PROVE x[1] <= r
    <3>1. x[1] <= run /\ x[1] \in Nat
      BY <1>2, IdParts DEF ThreadInv, LoopInv, TypeOK
    <3>2. QED
      BY <1>2, <3>1
  <2> HIDE DEF r
  <2>3. QED
    BY <1>1, <1>5, <2>1, <2>2 DEF ThreadInv, Orderly, Whole
<1> DEFINE u == Trim(t)
<1>8. /\ u \in Seq(Messages) /\ Len(u) <= Len(t)
      /\ \A i \in 1..Len(u) : u[i] = t[i]
      /\ Balanced(u, Len(u))
  BY <1>4, TrimBalances
<1> HIDE DEF u
<1>9. Orderly(u, stray)
  <2>1. Len(u) \in Nat /\ Len(t) \in Nat
    BY <1>4, <1>8
  <2>2. QED
    BY <1>5, <1>8, <2>1, OrderlyPrefix
<1>10. /\ Orderly(messages', stray) /\ messages' \in Seq(Messages)
       /\ \A i \in 1..Len(messages') : \A x \in messages'[i].uses :
             x[1] < r /\ i <= prefill' /\ x \notin stray
       /\ Len(messages') > prefill' => messages'[prefill' + 1].results = {}
  <2>1. CASE prefill' = 0
    <3>1. /\ messages' = <<m>> /\ Len(messages') = 1 /\ messages'[1] = m
          /\ messages' \in Seq(Messages)
      BY <1>1, <1>3, <2>1
    <3>2. QED
      BY <1>3, <2>1, <3>1 DEF Orderly, Whole
  <2>2. CASE prefill' # 0
    <3>1. messages' = u /\ Len(u) = prefill' /\ Len(u) \in Nat
      BY <1>1, <1>8, <2>2 DEF u
    <3>2. ASSUME NEW i \in 1..Len(u), NEW x \in u[i].uses
          PROVE  x[1] < r /\ i <= prefill' /\ x \notin stray
      <4>1. i \in 1..Len(t) /\ x \in t[i].uses
        BY <1>4, <1>8, <3>1, <3>2
      <4>2. PICK j \in 1..Len(u) : x \in u[j].results
        BY <1>8, <3>2, UsedOrAnswered DEF Balanced
      <4>3. x \notin stray
        BY <1>9, <4>2 DEF Orderly, Whole
      <4>4. QED
        BY <1>6, <3>1, <4>1, <4>3
    <3>3. QED
      BY <1>8, <1>9, <3>1, <3>2
  <2>3. QED
    BY <2>1, <2>2
<1>11. Context(messages, step - 1, stray)'
  <2>1. ASSUME NEW i \in 1..Len(messages'), NEW x \in messages'[i].uses
        PROVE  /\ x[1] <= run'
               /\ x[1] = run' => x[2] <= step' - 1
               /\ i > prefill' => x[1] = run'
               /\ x \in stray => i > prefill'
    <3>1. x[1] < r /\ i <= prefill' /\ x[1] \in Nat /\ i \in Nat /\ x \notin stray
      BY <1>10, UsesAreIds
    <3>2. prefill' \in Nat /\ r \in Nat
      BY <1>1, <1>2, <1>8 DEF u
    <3>3. QED
      BY <1>1, <3>1, <3>2
  <2>2. ASSUME NEW x \in stray PROVE x[1] # run'
    <3>1. x[1] <= run /\ x[1] \in Nat
      BY <1>2, IdParts DEF ThreadInv, LoopInv, TypeOK
    <3>2. QED
      BY <1>1, <1>2, <3>1
  <2> HIDE DEF r
  <2>3. QED
    BY <1>1, <1>10, <2>1, <2>2 DEF Context, Orderly, Whole
<1>12. ContextInv'
  BY <1>1, <1>11 DEF ContextInv
<1>13. QED
  BY <1>7, <1>12

LEMMA AnswerTextPairs ==
  ASSUME LoopInv, HistoryInv, PairInv, NEW stop, AnswerText(stop)
  PROVE  PairInv'
<1> SUFFICES ASSUME compacted' = {} PROVE ThreadInv' /\ ContextInv'
  BY DEF PairInv
<1>1. /\ pc = "planning" /\ compacted = {} /\ pc' \notin {"idle", "planning", "acting"}
      /\ UNCHANGED <<thread, run, prefill, step, stray>>
  BY DEF AnswerText, EndStep, store, history
<1>2. /\ run \in Nat /\ step \in Nat /\ prefill \in Nat /\ messages \in Seq(Messages)
      /\ Len(messages) \in Nat /\ Len(messages) >= prefill
      /\ ThreadInv /\ Context(messages, step - 1, stray) /\ stray \in SUBSET Ids
  BY <1>1, Running
<1> DEFINE m == Assistant(run, {})
           a == Append(messages, m)
<1>3. m \in Messages /\ m.uses = {} /\ m.results = {} /\ messages' = a
  BY MessageTypes DEF AnswerText, Observed, LoopInv, TypeOK
<1> HIDE DEF m
<1>4. /\ Len(a) = Len(messages) + 1 /\ a[Len(messages) + 1] = m
      /\ \A i \in 1..Len(messages) : a[i] = messages[i]
  BY <1>2, <1>3
<1> HIDE DEF a
<1>5. Context(a, step, stray)
  <2>1. step - 1 \in Int /\ step \in Int /\ step - 1 <= step
    BY <1>2
  <2>2. QED
    BY <1>2, <1>3, <1>4, <2>1, ContextAppend DEF Whole
<1>6. ContextInv'
  BY <1>1, <1>3, <1>5 DEF ContextInv, Context, Orderly, Whole
<1>7. QED
  BY <1>1, <1>2, <1>6, ThreadKept

LEMMA AnswerToolsPairs ==
  ASSUME LoopInv, HistoryInv, PairInv, NEW n \in 1..MaxCalls, AnswerTools(n)
  PROVE  PairInv'
<1> SUFFICES ASSUME compacted' = {} PROVE ThreadInv' /\ ContextInv'
  BY DEF PairInv
<1>1. /\ pc = "planning" /\ compacted = {} /\ pc' = "acting"
      /\ UNCHANGED <<thread, run, prefill, step, stray>>
      /\ todo' = [i \in 1..n |-> <<run, step, i>>]
  BY DEF AnswerTools, store, history
<1>2. /\ run \in Nat /\ step \in Nat /\ prefill \in Nat /\ messages \in Seq(Messages)
      /\ Len(messages) \in Nat /\ Len(messages) >= prefill
      /\ ThreadInv /\ Context(messages, step - 1, stray) /\ stray \in SUBSET Ids
  BY <1>1, Running
<1> DEFINE ids == CallIds(n)
           m == Assistant(run, ids)
           a == Append(messages, m)
<1>3. ids \in SUBSET Ids
  BY <1>1, CallIdsType DEF LoopInv
<1>4. run \in 0..MaxRuns /\ messages' = a
  BY DEF AnswerTools, Observed, LoopInv, TypeOK
<1>5. /\ \A x \in ids : x[1] = run /\ x[2] = step
      /\ \A i \in 1..Len(messages) : \A x \in messages[i].uses : x \notin ids
      /\ ids \cap stray = {}
  BY <1>2, FreshCalls
<1>6. \A i \in DOMAIN todo' : todo'[i] \in ids
  BY <1>1 DEF CallIds
<1> HIDE DEF ids
<1>7. m \in Messages /\ m.uses = ids /\ m.results = {} /\ m.role = "assistant"
  BY <1>3, <1>4, MessageTypes
<1> HIDE DEF m
<1>8. /\ Len(a) = Len(messages) + 1 /\ a[Len(messages) + 1] = m
      /\ \A i \in 1..Len(messages) : a[i] = messages[i]
  BY <1>2, <1>7
<1> HIDE DEF a
<1>9. Context(a, step, stray)
  <2>1. step - 1 \in Int /\ step \in Int /\ step - 1 <= step
    BY <1>2
  <2>2. \A x \in a[Len(messages) + 1].uses : x[1] = run /\ x[2] <= step
    BY <1>2, <1>5, <1>7, <1>8
  <2>3. QED
    BY <1>2, <1>5, <1>7, <1>8, <2>1, <2>2, ContextAppend DEF Whole
<1>10. Asked(messages)'
  <2>1. Len(todo') \in Nat /\ DOMAIN todo' = 1..Len(todo')
    BY <1>1, LoopAssumption
  <2>2. Waiting' \subseteq ids
    BY <1>6, <2>1 DEF Waiting
  <2>3. messages'[Len(messages')] = m
    BY <1>4, <1>8
  <2>4. QED
    BY <1>1, <1>5, <1>7, <2>2, <2>3 DEF Asked
<1>11. ContextInv'
  BY <1>1, <1>4, <1>9, <1>10 DEF ContextInv, Context, Orderly, Whole
<1>12. QED
  BY <1>1, <1>2, <1>11, ThreadKept

LEMMA AnswerStrayPairs ==
  ASSUME LoopInv, HistoryInv, PairInv, NEW stop, NEW n \in 1..MaxCalls,
         AnswerStray(stop, n)
  PROVE  PairInv'
<1> SUFFICES ASSUME compacted' = {} PROVE ThreadInv' /\ ContextInv'
  BY DEF PairInv
<1> DEFINE ids == CallIds(n)
           m == Assistant(run, ids)
           a == Append(messages, m)
           y == stray \cup ids
<1>1. /\ pc = "planning" /\ compacted = {} /\ pc' \notin {"idle", "planning", "acting"}
      /\ UNCHANGED <<thread, run, prefill, step>>
      /\ stray' = y /\ messages' = a
  BY DEF AnswerStray, EndStep, Observed, store
<1>2. /\ run \in Nat /\ step \in Nat /\ prefill \in Nat /\ messages \in Seq(Messages)
      /\ Len(messages) \in Nat /\ Len(messages) >= prefill /\ thread \in Seq(Messages)
      /\ ThreadInv /\ Context(messages, step - 1, stray) /\ stray \in SUBSET Ids
  BY <1>1, Running
<1>3. ids \in SUBSET Ids
  BY <1>1, CallIdsType DEF LoopInv
<1>4. /\ \A x \in ids : x[1] = run /\ x[2] = step
      /\ \A i \in 1..Len(messages) : \A x \in messages[i].uses : x \notin ids
      /\ ids \cap stray = {}
  BY <1>2, FreshCalls
<1> HIDE DEF ids
<1>5. m \in Messages /\ m.uses = ids /\ m.results = {}
  BY <1>3, MessageTypes DEF LoopInv, TypeOK
<1> HIDE DEF m
<1>6. /\ Len(a) = Len(messages) + 1 /\ a[Len(messages) + 1] = m
      /\ \A i \in 1..Len(messages) : a[i] = messages[i]
  BY <1>2, <1>5
<1> HIDE DEF a
<1>7. Context(messages, step, y)
  <2>1. step - 1 \in Int /\ step \in Int /\ step - 1 <= step
    BY <1>2
  <2>2. Context(messages, step, stray)
    BY <1>2, <2>1, ContextLater
  <2>3. QED
    BY <1>2, <1>4, <2>1, <2>2, ContextStray
<1>8. Context(a, step, y)
  <2>1. step \in Int /\ step <= step /\ y \in SUBSET Ids
    BY <1>2, <1>3
  <2>2. Whole(m, y)
    BY <1>5 DEF Whole
  <2>3. \A x \in m.uses : x[1] = run /\ x[2] <= step
    BY <1>2, <1>4, <1>5
  <2> HIDE DEF y
  <2>4. QED
    BY <1>2, <1>4, <1>5, <1>6, <1>7, <2>1, <2>2, <2>3, ContextAppend
<1>9. \A i \in 1..Len(thread) : Whole(thread[i], y)
  <2>1. ASSUME NEW i \in 1..Len(thread), NEW x \in thread[i].uses PROVE x \notin ids
    BY <1>1, <1>2, <1>4 DEF ThreadInv
  <2>2. ASSUME NEW i \in 1..Len(thread), NEW x \in thread[i].results PROVE x \notin ids
    <3>1. i > 1 /\ x \in thread[i - 1].uses
      BY <1>2 DEF ThreadInv, Orderly
    <3>2. i - 1 \in 1..Len(thread)
      BY <1>2, <3>1
    <3>3. QED
      BY <2>1, <3>1, <3>2
  <2>3. \A i \in 1..Len(thread) : Whole(thread[i], stray)
    BY <1>2 DEF ThreadInv, Orderly
  <2>4. QED
    BY <2>1, <2>2, <2>3 DEF Whole
<1>10. ThreadInv'
  <2>1. Orderly(thread, y)
    BY <1>2, <1>9 DEF ThreadInv, Orderly
  <2>2. \A x \in y : x[1] <= run
    BY <1>2, <1>4 DEF ThreadInv
  <2>3. \A i \in 1..Len(thread) : \A x \in thread[i].uses : x[1] <= run /\ x[1] < run
    BY <1>1, <1>2 DEF ThreadInv
  <2> HIDE DEF y
  <2>4. QED
    BY <1>1, <2>1, <2>2, <2>3 DEF ThreadInv
<1>11. ContextInv'
  <2> HIDE DEF y
  <2>1. QED
    BY <1>1, <1>8 DEF ContextInv, Context
<1>12. QED
  BY <1>10, <1>11

LEMMA AnswerCutPairs ==
  ASSUME LoopInv, HistoryInv, PairInv, NEW n \in 1..MaxCalls, AnswerCut(n)
  PROVE  PairInv'
<1> SUFFICES ASSUME compacted' = {} PROVE ThreadInv' /\ ContextInv'
  BY DEF PairInv
<1>1. /\ pc = "planning" /\ compacted = {} /\ pc' \notin {"idle", "planning", "acting"}
      /\ UNCHANGED <<thread, run, prefill, step, stray>>
  BY DEF AnswerCut, EndStep, store, history
<1>2. /\ run \in Nat /\ step \in Nat /\ prefill \in Nat /\ messages \in Seq(Messages)
      /\ Len(messages) \in Nat /\ Len(messages) >= prefill
      /\ ThreadInv /\ Context(messages, step - 1, stray) /\ stray \in SUBSET Ids
  BY <1>1, Running
<1> DEFINE ids == CallIds(n)
           m == Assistant(run, ids)
           r == Results(run, ids)
           a == Append(messages, m)
           b == Append(a, r)
<1>3. ids \in SUBSET Ids
  BY <1>1, CallIdsType DEF LoopInv
<1>4. run \in 0..MaxRuns /\ messages' = a \o <<r>>
  BY DEF AnswerCut, Observed, LoopInv, TypeOK
<1>5. /\ \A x \in ids : x[1] = run /\ x[2] = step
      /\ \A i \in 1..Len(messages) : \A x \in messages[i].uses : x \notin ids
      /\ ids \cap stray = {}
  BY <1>2, FreshCalls
<1> HIDE DEF ids
<1>6. /\ m \in Messages /\ m.uses = ids /\ m.results = {}
      /\ r \in Messages /\ r.uses = {} /\ r.results = ids
  BY <1>3, <1>4, MessageTypes
<1> HIDE DEF m, r
<1>7. /\ a \in Seq(Messages) /\ Len(a) = Len(messages) + 1 /\ a[Len(messages) + 1] = m
      /\ \A i \in 1..Len(messages) : a[i] = messages[i]
  BY <1>2, <1>6
<1> HIDE DEF a
<1>8. Context(a, step, stray)
  <2>1. step - 1 \in Int /\ step \in Int /\ step - 1 <= step
    BY <1>2
  <2>2. \A x \in a[Len(messages) + 1].uses : x[1] = run /\ x[2] <= step
    BY <1>2, <1>5, <1>6, <1>7
  <2>3. QED
    BY <1>2, <1>5, <1>6, <1>7, <2>1, <2>2, ContextAppend DEF Whole
<1>9. messages' = b
  BY <1>4, <1>6, <1>7
<1>10. /\ Len(b) = Len(a) + 1 /\ b[Len(a) + 1] = r
       /\ \A i \in 1..Len(a) : b[i] = a[i]
  BY <1>6, <1>7
<1> HIDE DEF b
<1>11. Context(b, step, stray)
  <2>1. Len(a) > prefill /\ a[Len(a)] = m /\ Len(a) >= prefill
    BY <1>2, <1>7
  <2>2. \A x \in b[Len(a) + 1].results : Len(a) > prefill /\ x \in a[Len(a)].uses
    BY <1>6, <1>10, <2>1
  <2>3. step \in Int /\ step <= step
    BY <1>2
  <2>4. QED
    BY <1>2, <1>5, <1>6, <1>7, <1>8, <1>10, <2>1, <2>2, <2>3, ContextAppend DEF Whole
<1>12. ContextInv'
  BY <1>1, <1>9, <1>11 DEF ContextInv, Context, Orderly, Whole
<1>13. QED
  BY <1>1, <1>2, <1>12, ThreadKept

LEMMA ToolDonePairs ==
  ASSUME LoopInv, HistoryInv, PairInv, ToolDone
  PROVE  PairInv'
<1> SUFFICES ASSUME compacted' = {} PROVE ThreadInv' /\ ContextInv'
  BY DEF PairInv
<1> DEFINE id == Head(todo)
           q == AddResult(id)
           n == Len(messages)
<1>1. /\ pc = "acting" /\ compacted = {} /\ pc' \notin {"idle", "planning"}
      /\ UNCHANGED <<thread, run, prefill, step, stray>>
      /\ messages' = q /\ todo' = Tail(todo)
  BY DEF ToolDone, EndStep, store, history
<1>2. /\ run \in Nat /\ step \in Nat /\ prefill \in Nat /\ messages \in Seq(Messages)
      /\ n \in Nat /\ n > prefill
      /\ ThreadInv /\ Context(messages, step, stray) /\ Asked(messages)
      /\ stray \in SUBSET Ids
  BY <1>1, Running
<1>3. todo \in Seq(Ids) /\ todo # <<>> /\ messages # <<>> /\ run \in 0..MaxRuns
  BY <1>1 DEF LoopInv, TypeOK, CallInv
<1>4. id \in Ids /\ id \in Waiting /\ Waiting' \subseteq Waiting /\ id \notin stray
  <2>1. id \in Ids /\ id = todo[1] /\ 1 \in 1..Len(todo)
    BY <1>3
  <2>2. ASSUME NEW i \in 1..Len(todo') PROVE todo'[i] \in Waiting
    <3>1. i + 1 \in 1..Len(todo) /\ todo'[i] = todo[i + 1]
      BY <1>1, <1>3
    <3>2. QED
      BY <3>1 DEF Waiting
  <2>3. id \in Waiting
    BY <2>1 DEF Waiting
  <2>4. Waiting' \subseteq Waiting
    BY <2>2 DEF Waiting
  <2>5. QED
    BY <1>2, <2>1, <2>3, <2>4 DEF Asked
<1>5. q \in Seq(Messages)
  BY <1>2, <1>3, <1>4, AddResultEffect
<1>6. Widened(messages, q, id) \/ Added(messages, q, id)
  BY <1>2, <1>3, <1>4, AddResultCases
<1> HIDE DEF id, q
<1>7. CASE Widened(messages, q, id)
  <2>1. /\ n > 1 /\ Waiting \subseteq messages[n - 1].uses
        /\ messages[n].role = "user" /\ messages[n].results # {}
    BY <1>2, <1>7 DEF Widened, Asked
  <2>2. Orderly(q, stray)
    BY <1>2, <1>4, <1>5, <1>7, <2>1, OrderlyWidened DEF Context
  <2>3. /\ Len(q) = n /\ \A i \in 1..n : q[i].uses = messages[i].uses
        /\ \A i \in 1..n : i # n => q[i] = messages[i]
        /\ q[n].role = "user" /\ id \in q[n].results
    BY <1>7 DEF Widened
  <2>4. prefill + 1 # n
    BY <1>2, <2>1 DEF Context
  <2>5. q[prefill + 1].results = {}
    <3>1. prefill + 1 \in 1..n /\ messages[prefill + 1].results = {}
      BY <1>2 DEF Context
    <3>2. QED
      BY <2>3, <2>4, <3>1
  <2>6. \A i \in 1..Len(q) : \A x \in q[i].uses :
           /\ x[1] <= run
           /\ x[1] = run => x[2] <= step
           /\ i > prefill => x[1] = run
           /\ x \in stray => i > prefill
    BY <1>2, <2>3 DEF Context
  <2>7. Context(q, step, stray)
    BY <1>2, <2>2, <2>5, <2>6 DEF Context
  <2>8. Asked(messages)'
    <3>1. n - 1 \in 1..n /\ n - 1 # n
      BY <1>2, <2>1
    <3>2. Waiting' \subseteq q[n - 1].uses
      BY <1>4, <2>1, <2>3, <3>1
    <3>3. QED
      BY <1>1, <1>2, <1>4, <2>1, <2>3, <3>2 DEF Asked
  <2>9. QED
    BY <1>1, <1>2, <2>7, <2>8, ThreadKept DEF ContextInv, Context, Orderly, Whole
<1>8. CASE Added(messages, q, id)
  <2>1. messages[n].role = "assistant" /\ Waiting \subseteq messages[n].uses
    BY <1>2, <1>8 DEF Added, Asked
  <2>2. /\ Len(q) = n + 1 /\ \A i \in 1..n : q[i] = messages[i]
        /\ q[n + 1].uses = {} /\ q[n + 1].role = "user" /\ q[n + 1].results = {id}
    BY <1>8 DEF Added
  <2>3. Context(q, step, stray)
    <3>1. step \in Int /\ step <= step /\ n >= prefill
      BY <1>2
    <3>2. \A x \in q[n + 1].results : n > prefill /\ x \in messages[n].uses
      BY <1>2, <1>4, <2>1, <2>2
    <3>3. QED
      BY <1>2, <1>4, <2>2, <3>1, <3>2, ContextAppend DEF Whole
  <2>4. Asked(messages)'
    <3>1. n \in 1..n /\ (n + 1) - 1 = n /\ n + 1 > 1
      BY <1>2
    <3>2. q[(n + 1) - 1] = messages[n]
      BY <2>2, <3>1
    <3>3. q[Len(q)].role = "user" /\ q[Len(q)].results # {} /\ Len(q) > 1
      BY <2>2, <3>1
    <3>4. Waiting' \subseteq q[Len(q) - 1].uses
      BY <1>4, <2>1, <2>2, <3>2
    <3>5. QED
      BY <1>1, <1>2, <1>4, <3>3, <3>4 DEF Asked
  <2>5. QED
    BY <1>1, <1>2, <2>3, <2>4, ThreadKept DEF ContextInv, Context, Orderly, Whole
<1>9. QED
  BY <1>6, <1>7, <1>8

\* The steps that leave the messages of the run alone.
LEMMA QuietPairs ==
  ASSUME LoopInv, HistoryInv, PairInv,
         CompactContext \/ ChatFails \/ Wrapped \/ Cancel
  PROVE  PairInv'
<1> SUFFICES ASSUME compacted' = {} PROVE ThreadInv' /\ ContextInv'
  BY DEF PairInv
<1>1. /\ pc # "idle" /\ compacted = {} /\ pc' \notin {"idle", "acting"}
      /\ UNCHANGED <<thread, run, prefill, messages, stray>>
  BY DEF CompactContext, ChatFails, Wrapped, Cancel, NextStep, store, history
<1>2. /\ run \in Nat /\ step \in Nat /\ prefill \in Nat /\ messages \in Seq(Messages)
      /\ ThreadInv /\ stray \in SUBSET Ids
      /\ pc = "planning" => Context(messages, step - 1, stray) /\ stray \in SUBSET Ids
      /\ pc # "planning" => Context(messages, step, stray)
  BY <1>1, Running
<1>3. Context(messages, step, stray)
  <2>1. step - 1 \in Int /\ step \in Int /\ step - 1 <= step
    BY <1>2
  <2>2. QED
    BY <1>2, <2>1, ContextLater
<1>4. CASE pc' = "planning"
  <2>1. step' = step + 1
    BY <1>4 DEF CompactContext, ChatFails, Wrapped, Cancel, NextStep
  <2>2. step' - 1 = step
    BY <1>2, <2>1
  <2>3. QED
    BY <1>1, <1>2, <1>3, <1>4, <2>2, ThreadKept DEF ContextInv, Context, Orderly, Whole
<1>5. CASE pc' # "planning"
  <2>1. step' = step
    BY <1>1, <1>5 DEF CompactContext, ChatFails, Wrapped, Cancel, NextStep
  <2>2. QED
    BY <1>1, <1>2, <1>3, <1>5, <2>1, ThreadKept DEF ContextInv, Context, Orderly, Whole
<1>6. QED
  BY <1>4, <1>5

LEMMA FinishRunPairs ==
  ASSUME LoopInv, HistoryInv, PairInv, FinishRun
  PROVE  PairInv'
<1> SUFFICES ASSUME compacted' = {} PROVE ThreadInv' /\ ContextInv'
  BY DEF PairInv
<1> DEFINE tail == SubSeq(messages, prefill + 1, Len(messages))
           t == thread \o tail
           k == Len(thread)
<1>1. /\ pc = "finishing" /\ compacted = {} /\ pc' = "idle" /\ run' = run
      /\ thread' = t /\ stray' = stray
  BY DEF FinishRun, EndRun, history
<1>2. /\ run \in Nat /\ prefill \in Nat /\ messages \in Seq(Messages)
      /\ thread \in Seq(Messages) /\ k \in Nat
      /\ Len(messages) \in Nat /\ Len(messages) >= prefill
      /\ ThreadInv /\ Context(messages, step, stray) /\ stray \in SUBSET Ids
  BY <1>1, Running
<1>3. /\ tail \in Seq(Messages) /\ Len(tail) = Len(messages) - prefill
      /\ \A i \in 1..Len(tail) : tail[i] = messages[prefill + i]
  <2>1. \A i \in (prefill + 1)..Len(messages) : messages[i] \in Messages
    BY <1>2
  <2>2. QED
    BY <1>2, <2>1, SubSeqProperties
<1> HIDE DEF tail
<1>4. /\ Len(t) = k + Len(tail) /\ Len(tail) \in Nat
      /\ \A i \in 1..k : t[i] = thread[i]
      /\ \A i \in (k + 1)..Len(t) : t[i] = tail[i - k] /\ i - k \in 1..Len(tail)
  <2>1. Len(t) = k + Len(tail) /\ Len(tail) \in Nat
    <3>1. Len(tail) \in Nat
      BY <1>3
    <3>2. Len(t) = k + Len(tail)
      BY <1>2, <1>3, ConcatProperties
    <3>3. QED
      BY <3>1, <3>2
  <2>2. \A i \in 1..k : t[i] = thread[i]
    BY <1>2, <1>3
  <2>3. ASSUME NEW i \in (k + 1)..Len(t)
        PROVE  t[i] = tail[i - k] /\ i - k \in 1..Len(tail)
    <3>1. i \in Int /\ i > k /\ i <= k + Len(tail)
      BY <1>2, <2>1
    <3>2. i - k \in 1..Len(tail) /\ i \in 1..(k + Len(tail)) /\ ~ (i <= k)
      BY <1>2, <2>1, <3>1
    <3>3. QED
      BY <1>2, <1>3, <3>1, <3>2, ConcatProperties
  <2>4. QED
    BY <2>1, <2>2, <2>3
<1>5. \A i \in (k + 1)..Len(t) :
         /\ t[i] = messages[prefill + (i - k)]
         /\ prefill + (i - k) \in 1..Len(messages)
  <2>1. ASSUME NEW i \in (k + 1)..Len(t)
        PROVE  /\ t[i] = messages[prefill + (i - k)]
               /\ prefill + (i - k) \in 1..Len(messages)
    <3> DEFINE d == i - k
    <3>1. t[i] = tail[d] /\ d \in 1..Len(tail)
      BY <1>4
    <3> HIDE DEF d
    <3>2. tail[d] = messages[prefill + d] /\ prefill + d \in 1..Len(messages)
      BY <1>2, <1>3, <3>1
    <3>3. QED
      BY <3>1, <3>2 DEF d
  <2>2. QED
    BY <2>1
<1> HIDE DEF t
<1>6. ASSUME NEW i \in 1..Len(t), NEW x \in t[i].uses
      PROVE  /\ x[1] \in Nat
             /\ i <= k => x \in thread[i].uses /\ x[1] < run
             /\ i > k => x \in messages[prefill + (i - k)].uses /\ x[1] = run
  <2>1. CASE i <= k
    <3>1. i \in 1..k /\ x \in thread[i].uses
      BY <1>2, <1>4, <1>6, <2>1
    <3>2. QED
      BY <1>1, <1>2, <2>1, <3>1, UsesAreIds DEF ThreadInv
  <2>2. CASE i > k
    <3>1. /\ prefill + (i - k) \in 1..Len(messages) /\ prefill + (i - k) > prefill
          /\ x \in messages[prefill + (i - k)].uses
      BY <1>2, <1>4, <1>5, <1>6, <2>2
    <3>2. x[1] = run /\ x[1] \in Nat
      BY <1>2, <3>1, UsesAreIds DEF Context
    <3>3. QED
      BY <1>2, <2>2, <3>1, <3>2
  <2>3. QED
    BY <1>2, <2>1, <2>2
<1>7. ASSUME NEW i \in 1..Len(t), NEW x \in t[i].results
      PROVE  i > 1 /\ x \in t[i - 1].uses
  <2>1. CASE i <= k
    <3>1. i \in 1..k /\ x \in thread[i].results
      BY <1>2, <1>4, <1>7, <2>1
    <3>2. i > 1 /\ x \in thread[i - 1].uses /\ i - 1 \in 1..k
      BY <1>2, <3>1 DEF ThreadInv, Orderly
    <3>3. QED
      BY <1>4, <3>2
  <2>2. CASE i > k
    <3> DEFINE j == prefill + (i - k)
    <3>1. j \in 1..Len(messages) /\ x \in messages[j].results
      BY <1>2, <1>4, <1>5, <1>7, <2>2
    <3>2. i # k + 1
      <4>1. ASSUME i = k + 1 PROVE FALSE
        <5>1. j = prefill + 1
          BY <1>2, <4>1
        <5>2. QED
          BY <1>2, <3>1, <5>1 DEF Context
      <4>2. QED
        BY <4>1
    <3>3. j > 1 /\ x \in messages[j - 1].uses
      BY <1>2, <3>1 DEF Context, Orderly
    <3>4. i - 1 \in (k + 1)..Len(t) /\ prefill + ((i - 1) - k) = j - 1
      BY <1>2, <1>4, <2>2, <3>2
    <3>5. t[i - 1] = messages[j - 1]
      BY <1>5, <3>4
    <3>6. QED
      BY <1>2, <2>2, <3>2, <3>3, <3>5
  <2>3. QED
    BY <1>2, <2>1, <2>2
<1>8. ASSUME NEW i \in 1..Len(t), NEW j \in 1..Len(t),
             NEW x \in t[i].uses, x \in t[j].uses
      PROVE  i = j
  <2>1. CASE i <= k /\ j <= k
    <3>1. i \in 1..k /\ j \in 1..k /\ x \in thread[i].uses /\ x \in thread[j].uses
      BY <1>2, <1>6, <1>8, <2>1
    <3>2. QED
      BY <1>2, <3>1 DEF ThreadInv, Orderly
  <2>2. CASE i > k /\ j > k
    <3>1. /\ prefill + (i - k) \in 1..Len(messages)
          /\ prefill + (j - k) \in 1..Len(messages)
          /\ x \in messages[prefill + (i - k)].uses
          /\ x \in messages[prefill + (j - k)].uses
      BY <1>2, <1>4, <1>5, <1>6, <1>8, <2>2
    <3>2. prefill + (i - k) = prefill + (j - k)
      BY <1>2, <3>1 DEF Context, Orderly
    <3>3. QED
      BY <1>2, <3>2
  <2>3. CASE i <= k /\ j > k
    <3>1. x[1] < run /\ x[1] = run
      BY <1>6, <1>8, <2>3
    <3>2. QED
      BY <1>2, <1>6, <1>8, <3>1
  <2>4. CASE i > k /\ j <= k
    <3>1. x[1] < run /\ x[1] = run
      BY <1>6, <1>8, <2>4
    <3>2. QED
      BY <1>2, <1>6, <1>8, <3>1
  <2>5. QED
    BY <1>2, <1>8, <2>1, <2>2, <2>3, <2>4
<1>9. ThreadInv'
  <2>1. ASSUME NEW i \in 1..Len(t), NEW x \in t[i].uses PROVE x[1] <= run
    BY <1>2, <1>6
  <2>2. ASSUME NEW i \in 1..Len(t) PROVE Whole(t[i], stray)
    <3>1. CASE i <= k
      <4>1. i \in 1..k /\ t[i] = thread[i]
        BY <1>2, <1>4, <3>1
      <4>2. QED
        BY <1>2, <4>1 DEF ThreadInv, Orderly
    <3>2. CASE i > k
      <4>1. i \in (k + 1)..Len(t)
        BY <1>2, <1>4, <3>2
      <4>2. QED
        BY <1>2, <1>5, <4>1 DEF Context, Orderly
    <3>3. QED
      BY <1>2, <3>1, <3>2
  <2>3. Orderly(t, stray)
    BY <1>7, <1>8, <2>2 DEF Orderly
  <2>4. QED
    BY <1>1, <1>2, <2>1, <2>3 DEF ThreadInv
<1>10. QED
  BY <1>1, <1>9 DEF ContextInv

\* The steps that leave the session without a run.
LEMMA IdlePairs ==
  ASSUME LoopInv, PairInv,
         CancelFinish \/ \E k \in 0..Len(thread) : Truncate(k)
  PROVE  PairInv'
<1> SUFFICES ASSUME compacted' = {} PROVE ThreadInv' /\ ContextInv'
  BY DEF PairInv
<1>1. /\ compacted = {} /\ pc' = "idle" /\ run' = run /\ stray' = stray
  BY DEF CancelFinish, EndRun, Truncate, history
<1>2. ThreadInv /\ thread \in Seq(Messages)
  BY <1>1, Counters DEF PairInv
<1>3. CASE CancelFinish
  BY <1>1, <1>2, <1>3 DEF CancelFinish, EndRun, ThreadInv, ContextInv, Orderly, Whole
<1>4. ASSUME NEW k \in 0..Len(thread), Truncate(k) PROVE ThreadInv' /\ ContextInv'
  <2>1. /\ thread' = SubSeq(thread, 1, k) /\ Len(thread) \in Nat /\ k \in Nat
        /\ k <= Len(thread)
    BY <1>2, <1>4 DEF Truncate
  <2>2. /\ Len(thread') = k /\ \A i \in 1..k : thread'[i] = thread[i]
    BY <1>2, <2>1
  <2>3. Orderly(thread', stray)
    BY <1>2, <2>1, <2>2, OrderlyPrefix DEF ThreadInv
  <2>4. ASSUME NEW i \in 1..Len(thread'), NEW x \in thread'[i].uses
        PROVE  x[1] <= run
    <3>1. i \in 1..Len(thread) /\ x \in thread[i].uses
      BY <2>1, <2>2
    <3>2. QED
      BY <1>2, <3>1 DEF ThreadInv
  <2>5. QED
    BY <1>1, <1>2, <2>3, <2>4 DEF ThreadInv, ContextInv
<1>5. QED
  BY <1>3, <1>4

LEMMA PairNext ==
  ASSUME LoopInv, HistoryInv, PairInv, [Next]_vars
  PROVE  PairInv'
<1>1. CASE UNCHANGED vars
  BY <1>1 DEF vars, PairInv, ThreadInv, ContextInv, Context, Orderly, Whole, Asked, Waiting
<1>2. QED
  BY <1>1, StartRunPairs, AnswerTextPairs, AnswerStrayPairs, AnswerToolsPairs, AnswerCutPairs,
     ToolDonePairs, QuietPairs, FinishRunPairs, IdlePairs DEF Next

\* Whatever was cancelled, cut off or truncated before, a request pairs every
\* tool_use with its tool_result, in a session none of whose runs was compacted,
\* but for the calls that came with a stop reason other than tool_use and
\* max_tokens: those a request repeats unanswered if they are of its own run,
\* and never if they are of an earlier one (read_messages, store.py:80; the
\* synthetic results and the branches of loop.py:89-109; add_tool_result).
THEOREM RequestsArePairedHolds == Spec => []RequestsArePaired
<1>1. Init => HistoryInv /\ PairInv
  BY DEF Init, HistoryInv, PairInv, ThreadInv, ContextInv, Orderly
<1>2. LoopInv /\ HistoryInv /\ PairInv /\ [Next]_vars => HistoryInv' /\ PairInv'
  BY HistoryNext, PairNext
<1>3. LoopInv /\ HistoryInv /\ PairInv => RequestsArePaired
  <2> SUFFICES ASSUME LoopInv, HistoryInv, PairInv, pc = "planning", compacted = {}
               PROVE  /\ Paired(messages)
                      /\ \A id \in StrayIn(messages) : id[1] = run
    BY DEF RequestsArePaired
  <2>1. Context(messages, step - 1, stray) /\ messages \in Seq(Messages)
    BY Running
  <2>2. Settled(messages)
    BY DEF LoopInv, CallInv
  <2>3. Paired(messages)
    BY <2>1, <2>2, OrderlyPairs DEF Context
  <2>4. ASSUME NEW id \in StrayIn(messages) PROVE id[1] = run
    <3>1. id \in stray /\ \E i \in 1..Len(messages) : id \in messages[i].uses
      BY UsedOrAnswered DEF StrayIn
    <3>2. QED
      BY <2>1, <3>1 DEF Context
  <2>5. QED
    BY <2>3, <2>4
<1>4. QED
  BY <1>1, <1>2, <1>3, LoopInvHolds, PTL DEF Spec
=============================================================================
