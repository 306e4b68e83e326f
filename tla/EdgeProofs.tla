----------------------------- MODULE EdgeProofs -----------------------------
(***************************************************************************)
(* Proofs about the edges of the system, where it meets what it does not   *)
(* control:                                                                *)
(*                                                                         *)
(*   - LlmCall and the trace below it, for any number of calls, attempts   *)
(*     and tokens: the answer is the text of one attempt, and the trace    *)
(*     tells the calls as they happened.  The two invariants share nothing *)
(*     but the step: a call touches the trace only by Emit, and the trace  *)
(*     touches no call.                                                    *)
(*                                                                         *)
(*   - Lifecycle, the daemon that makes the calls: what its configuration  *)
(*     comes to, and what its shutdown leaves behind.                      *)
(*                                                                         *)
(*   - Tui, the client at the other end of the daemon's socket, for any    *)
(*     number of requests, inputs and connections.                         *)
(***************************************************************************)
EXTENDS LlmCall, Lifecycle, Tui, SequenceTheorems, TLAPS

ChatStates == {"idle", "streaming", "backoff", "complete", "returned", "raised", "cancelled"}
Streamed == (1..MaxAttempts) \X Nat

(***************************************************************************)
(* The calls.                                                              *)
(***************************************************************************)
CallTypes ==
    /\ pc \in [Calls -> ChatStates]
    /\ attempt \in [Calls -> 0..MaxAttempts]
    /\ text \in [Calls -> Seq(Streamed)]
    /\ shown \in [Calls -> Seq(Streamed)]

\* Text is of the attempt under way, what is shown is of the first; while the
\* first is under way they are the same.
TextInv(c) ==
    /\ pc[c] = "idle" => attempt[c] = 0 /\ text[c] = <<>> /\ shown[c] = <<>>
    /\ pc[c] = "backoff" => attempt[c] < MaxAttempts
    /\ pc[c] # "idle" => attempt[c] >= 1
    /\ \A i \in 1..Len(text[c]) : text[c][i] = <<attempt[c], i>>
    /\ \A i \in 1..Len(shown[c]) : shown[c][i] = <<1, i>>
    /\ attempt[c] = 1 /\ pc[c] \in {"streaming", "backoff", "complete", "returned"}
          => shown[c] = text[c]

CallsInv == CallTypes /\ \A c \in Calls : TextInv(c)

\* A step of one call that keeps its own part keeps everyone's.
LEMMA OthersKept ==
    ASSUME CallsInv, NEW c \in Calls, CallTypes', TextInv(c)',
           \A d \in Calls \ {c} : /\ pc'[d] = pc[d] /\ attempt'[d] = attempt[d]
                                  /\ text'[d] = text[d] /\ shown'[d] = shown[d]
    PROVE  CallsInv'
<1>1. ASSUME NEW d \in Calls, d # c PROVE TextInv(d)'
  <2>1. /\ pc'[d] = pc[d] /\ attempt'[d] = attempt[d]
        /\ text'[d] = text[d] /\ shown'[d] = shown[d]
    BY <1>1
  <2>2. TextInv(d)
    BY DEF CallsInv
  <2> QED
    BY <2>1, <2>2 DEF TextInv
<1> QED
  BY <1>1 DEF CallsInv

\* An attempt starts with no text, and never as the first but once.
LEMMA BeginStep ==
    ASSUME CallsInv, NEW c \in Calls, pc[c] \in {"idle", "backoff"}, BeginAttempt(c)
    PROVE  CallsInv'
<1>1. CallTypes /\ TextInv(c)
  BY DEF CallsInv
<1>2. attempt[c] + 1 \in 1..MaxAttempts
  BY <1>1, LlmAssumption DEF CallTypes, TextInv
<1>3. CallTypes'
  BY <1>1, <1>2 DEF BeginAttempt, Goto, CallTypes, ChatStates
<1>4. /\ pc'[c] = "streaming" /\ attempt'[c] = attempt[c] + 1
      /\ text'[c] = <<>> /\ shown'[c] = shown[c]
      /\ \A d \in Calls \ {c} : /\ pc'[d] = pc[d] /\ attempt'[d] = attempt[d]
                                /\ text'[d] = text[d] /\ shown'[d] = shown[d]
  BY <1>1 DEF BeginAttempt, Goto, CallTypes
<1>5. attempt'[c] = 1 => shown'[c] = text'[c]
  BY <1>1, <1>4 DEF TextInv, CallTypes
<1>6. TextInv(c)'
  BY <1>1, <1>2, <1>4, <1>5 DEF TextInv
<1> QED
  BY <1>3, <1>4, <1>6, OthersKept

LEMMA TokenStep == ASSUME CallsInv, NEW c \in Calls, Token(c) PROVE CallsInv'
<1> DEFINE t == <<attempt[c], Len(text[c]) + 1>>
<1>1. CallTypes /\ TextInv(c) /\ pc[c] = "streaming"
  BY DEF CallsInv, Token
<1>2. /\ text[c] \in Seq(Streamed) /\ shown[c] \in Seq(Streamed) /\ t \in Streamed
      /\ attempt[c] \in 1..MaxAttempts
  BY <1>1 DEF CallTypes, TextInv, Streamed
<1>3. text' = [text EXCEPT ![c] = Append(@, t)] /\ pc' = pc /\ attempt' = attempt
  BY DEF Token
<1>4. \/ attempt[c] = 1 /\ shown' = [shown EXCEPT ![c] = Append(@, t)]
      \/ attempt[c] # 1 /\ shown' = shown
  BY DEF Token
<1> HIDE DEF t
<1>5. Append(text[c], t) \in Seq(Streamed) /\ Append(shown[c], t) \in Seq(Streamed)
  BY <1>2
<1>6. CallTypes'
  BY <1>1, <1>3, <1>4, <1>5 DEF CallTypes
<1>7. \A d \in Calls \ {c} : /\ pc'[d] = pc[d] /\ attempt'[d] = attempt[d]
                             /\ text'[d] = text[d] /\ shown'[d] = shown[d]
  BY <1>1, <1>3, <1>4 DEF CallTypes
<1>8. text'[c] = Append(text[c], t)
  BY <1>1, <1>3 DEF CallTypes
<1>9. \A i \in 1..Len(text'[c]) : text'[c][i] = <<attempt[c], i>>
  BY <1>1, <1>2, <1>8 DEF TextInv, t
<1>10. CASE attempt[c] = 1
  <2>1. shown'[c] = Append(shown[c], t) /\ shown[c] = text[c]
    BY <1>1, <1>4, <1>10 DEF CallTypes, TextInv
  <2>2. \A i \in 1..Len(shown'[c]) : shown'[c][i] = <<1, i>>
    BY <1>8, <1>9, <1>10, <2>1
  <2>3. TextInv(c)'
    BY <1>1, <1>3, <1>8, <1>9, <1>10, <2>1, <2>2 DEF TextInv
  <2> QED
    BY <1>6, <1>7, <2>3, OthersKept
<1>11. CASE attempt[c] # 1
  <2>1. TextInv(c)'
    BY <1>1, <1>2, <1>3, <1>4, <1>9, <1>11 DEF TextInv
  <2> QED
    BY <1>6, <1>7, <2>1, OthersKept
<1> QED
  BY <1>10, <1>11

\* An exception takes the text with it.
LEMMA LeaveStep ==
    ASSUME CallsInv, NEW c \in Calls, NEW p \in {"raised", "cancelled"}, pc[c] # "idle",
           Leave(c, p)
    PROVE  CallsInv'
<1>1. CallTypes /\ TextInv(c)
  BY DEF CallsInv
<1>2. CallTypes'
  BY <1>1 DEF Leave, Goto, CallTypes, ChatStates
<1>3. /\ pc'[c] = p /\ text'[c] = <<>> /\ attempt' = attempt /\ shown' = shown
      /\ \A d \in Calls \ {c} : /\ pc'[d] = pc[d] /\ attempt'[d] = attempt[d]
                                /\ text'[d] = text[d] /\ shown'[d] = shown[d]
  BY <1>1 DEF Leave, Goto, CallTypes
<1>4. TextInv(c)'
  BY <1>1, <1>3 DEF TextInv
<1> QED
  BY <1>2, <1>3, <1>4, OthersKept

\* The call goes on with the text it has.
LEMMA GotoStep ==
    ASSUME CallsInv, NEW c \in Calls, NEW p \in {"backoff", "complete", "returned"},
           pc[c] \in {"streaming", "complete"}, Goto(c, p), UNCHANGED <<attempt, text, shown>>,
           p = "backoff" => attempt[c] # MaxAttempts
    PROVE  CallsInv'
<1>1. CallTypes /\ TextInv(c)
  BY DEF CallsInv
<1>2. CallTypes'
  BY <1>1 DEF Goto, CallTypes, ChatStates
<1>3. /\ pc'[c] = p
      /\ \A d \in Calls \ {c} : pc'[d] = pc[d]
  BY <1>1 DEF Goto, CallTypes
<1>4. attempt[c] # MaxAttempts => attempt[c] < MaxAttempts
  BY <1>1, LlmAssumption DEF CallTypes
<1>5. TextInv(c)'
  BY <1>1, <1>3, <1>4 DEF TextInv
<1> QED
  BY <1>2, <1>3, <1>5, OthersKept

LEMMA InitCalls == Init => CallsInv
  BY LlmAssumption DEF Init, CallsInv, CallTypes, TextInv, ChatStates

LEMMA NextCalls == ASSUME CallsInv, [Next]_vars PROVE CallsInv'
<1>1. ASSUME NEW c \in Calls, Chat(c) PROVE CallsInv'
  BY <1>1, BeginStep DEF Chat
<1>2. ASSUME NEW c \in Calls, Token(c) PROVE CallsInv'
  BY <1>2, TokenStep
<1>3. ASSUME NEW c \in Calls, Dropped(c) PROVE CallsInv'
  BY <1>3, LeaveStep, GotoStep DEF Dropped
<1>4. ASSUME NEW c \in Calls, Retry(c) PROVE CallsInv'
  BY <1>4, BeginStep DEF Retry
<1>5. ASSUME NEW c \in Calls, Refused(c) PROVE CallsInv'
  BY <1>5, LeaveStep DEF Refused
<1>6. ASSUME NEW c \in Calls, NEW wants \in BOOLEAN, NEW final \in BOOLEAN,
             Complete(c, wants, final)
      PROVE  CallsInv'
  BY <1>6, GotoStep DEF Complete
<1>7. ASSUME NEW c \in Calls, Return(c) PROVE CallsInv'
  BY <1>7, GotoStep DEF Return
<1>8. ASSUME NEW c \in Calls, Cancel(c) PROVE CallsInv'
  BY <1>8, LeaveStep DEF Cancel
<1>9. CASE UNCHANGED <<pc, attempt, text, shown>>
  BY <1>9 DEF CallsInv, CallTypes, TextInv
<1> QED
  BY <1>1, <1>2, <1>3, <1>4, <1>5, <1>6, <1>7, <1>8, <1>9 DEF Next, CallStep, vars

\* The text the loop gets is one attempt's, and what clients were shown of a
\* call that needed one attempt is the answer (AnthropicProvider.chat).
THEOREM AnswerIsOneAttemptHolds == Spec => []AnswerIsOneAttempt
<1>1. Init => CallsInv
  BY InitCalls
<1>2. CallsInv /\ [Next]_vars => CallsInv'
  BY NextCalls
<1>3. CallsInv => AnswerIsOneAttempt
  BY DEF CallsInv, TextInv, AnswerIsOneAttempt
<1> QED
  BY <1>1, <1>2, <1>3, PTL DEF Spec

-----------------------------------------------------------------------------
(***************************************************************************)
(* The trace.  A drain task that lives has written all that is not in the  *)
(* queue; one that died lost a record, and nothing is written behind it.   *)
(***************************************************************************)
TraceTypes ==
    /\ queue \in Seq(Records) /\ file \in Seq(Records) /\ emitted \in Seq(Records)
    /\ undone \in Nat /\ due \in Nat
    /\ drain \in {"running", "dead", "cancelled"}
    /\ stop \in {"no", "joining", "joined", "done", "raised"}

Written ==
    /\ Len(file) <= Len(emitted)
    /\ \A i \in 1..Len(file) : file[i] = emitted[i]

Queued ==
    /\ Len(emitted) = Len(file) + Len(queue)
    /\ \A i \in 1..Len(queue) : queue[i] = emitted[Len(file) + i]

TraceInv ==
    /\ TraceTypes
    /\ undone = Len(queue)
    /\ due <= Len(emitted)
    /\ Written
    /\ drain # "dead" => Queued
    /\ stop = "joined" /\ drain # "dead" => Len(file) >= due
    /\ stop = "done" => Len(file) >= due

LEMMA InitTrace == Init => TraceInv
  BY DEF Init, TraceInit, TraceInv, TraceTypes, Written, Queued

LEMMA EmitStep == ASSUME TraceInv, NEW r \in Records, Emit(r) PROVE TraceInv'
<1>1. /\ queue' = Append(queue, r) /\ emitted' = Append(emitted, r)
      /\ undone' = undone + 1 /\ UNCHANGED <<drain, file, stop, due>>
  BY DEF Emit
<1>2. TraceTypes'
  BY <1>1 DEF TraceInv, TraceTypes
<1>3. /\ Len(queue') = Len(queue) + 1 /\ Len(emitted') = Len(emitted) + 1
      /\ queue'[Len(queue) + 1] = r /\ emitted'[Len(emitted) + 1] = r
      /\ \A i \in 1..Len(queue) : queue'[i] = queue[i]
      /\ \A i \in 1..Len(emitted) : emitted'[i] = emitted[i]
      /\ Len(queue) \in Nat /\ Len(emitted) \in Nat /\ Len(file) \in Nat
  BY <1>1 DEF TraceInv, TraceTypes
<1>4. Written'
  BY <1>1, <1>3 DEF TraceInv, Written
<1>5. ASSUME drain # "dead" PROVE Queued'
  <2>1. Len(emitted) = Len(file) + Len(queue)
    BY <1>5 DEF TraceInv, Queued
  <2>2. ASSUME NEW i \in 1..Len(queue') PROVE queue'[i] = emitted'[Len(file') + i]
    <3>1. CASE i \in 1..Len(queue)
      <4>1. Len(file) + i \in 1..Len(emitted)
        BY <1>3, <2>1, <3>1
      <4>2. queue[i] = emitted[Len(file) + i]
        BY <1>5, <3>1 DEF TraceInv, Queued
      <4> QED
        BY <1>1, <1>3, <3>1, <4>1, <4>2
    <3>2. CASE i = Len(queue) + 1
      <4>1. Len(file) + i = Len(emitted) + 1
        BY <1>3, <2>1, <3>2
      <4> QED
        BY <1>1, <1>3, <3>2, <4>1
    <3> QED
      BY <1>3, <3>1, <3>2
  <2>3. Len(emitted') = Len(file') + Len(queue')
    BY <1>1, <1>3, <2>1
  <2> QED
    BY <2>2, <2>3 DEF Queued
<1> QED
  BY <1>1, <1>2, <1>3, <1>4, <1>5 DEF TraceInv, TraceTypes

LEMMA DrainStep == ASSUME TraceInv, Drain PROVE TraceInv'
<1>1. /\ drain = "running" /\ queue # <<>> /\ queue' = Tail(queue)
      /\ undone' = undone - 1 /\ UNCHANGED <<stop, emitted, due>>
  BY DEF Drain
<1>2. /\ queue \in Seq(Records) /\ file \in Seq(Records) /\ Len(queue) \in Nat \ {0}
      /\ Len(file) \in Nat /\ Len(emitted) \in Nat /\ Head(queue) = queue[1]
      /\ Head(queue) \in Records
  BY <1>1 DEF TraceInv, TraceTypes
<1>3. /\ queue' \in Seq(Records) /\ Len(queue') = Len(queue) - 1
      /\ \A i \in 1..Len(queue') : queue'[i] = queue[i + 1]
  BY <1>1, <1>2
<1>4. CASE drain' = "dead" /\ UNCHANGED file
  <2>1. TraceTypes'
    BY <1>1, <1>2, <1>3, <1>4 DEF TraceInv, TraceTypes
  <2>2. Written'
    BY <1>1, <1>4 DEF TraceInv, Written
  <2> QED
    BY <1>1, <1>2, <1>3, <1>4, <2>1, <2>2 DEF TraceInv, TraceTypes
<1>5. CASE file' = Append(file, Head(queue)) /\ UNCHANGED drain
  <2>1. /\ file' \in Seq(Records) /\ Len(file') = Len(file) + 1
        /\ file'[Len(file) + 1] = queue[1]
        /\ \A i \in 1..Len(file) : file'[i] = file[i]
    BY <1>2, <1>5
  <2>2. TraceTypes'
    BY <1>1, <1>2, <1>3, <1>5, <2>1 DEF TraceInv, TraceTypes
  <2>3. Queued /\ Written
    BY <1>1 DEF TraceInv
  <2>4. queue[1] = emitted[Len(file) + 1] /\ Len(file) + 1 <= Len(emitted)
    BY <1>2, <2>3 DEF Queued
  <2>5. Written'
    <3>1. emitted' = emitted /\ Len(file') <= Len(emitted')
      BY <1>1, <2>1, <2>4
    <3>2. ASSUME NEW i \in 1..Len(file') PROVE file'[i] = emitted[i]
      <4>1. CASE i \in 1..Len(file)
        <5>1. file'[i] = file[i]
          BY <2>1, <4>1
        <5>2. file[i] = emitted[i]
          BY <2>3, <4>1 DEF Written
        <5> QED
          BY <5>1, <5>2
      <4>2. CASE i = Len(file) + 1
        BY <2>1, <2>4, <4>2
      <4> QED
        BY <1>2, <2>1, <4>1, <4>2
    <3> QED
      BY <3>1, <3>2 DEF Written
  <2>6. Queued'
    <3>1. Len(emitted') = Len(file') + Len(queue')
      BY <1>1, <1>2, <1>3, <2>1, <2>3 DEF Queued
    <3>2. ASSUME NEW i \in 1..Len(queue') PROVE queue'[i] = emitted'[Len(file') + i]
      <4>1. i + 1 \in 1..Len(queue) /\ queue'[i] = queue[i + 1]
        BY <1>2, <1>3
      <4>2. queue[i + 1] = emitted[Len(file) + (i + 1)]
        BY <2>3, <4>1 DEF Queued
      <4>3. Len(file) + (i + 1) = Len(file') + i
        BY <1>2, <2>1
      <4> QED
        BY <1>1, <4>1, <4>2, <4>3
    <3> QED
      BY <3>1, <3>2 DEF Queued
  <2> QED
    BY <1>1, <1>2, <1>3, <1>5, <2>1, <2>2, <2>5, <2>6 DEF TraceInv, TraceTypes
<1> QED
  BY <1>4, <1>5 DEF Drain

LEMMA StopStep == ASSUME TraceInv, Stop PROVE TraceInv'
<1>1. stop' = "joining" /\ due' = Len(emitted) /\ UNCHANGED <<queue, undone, drain, file, emitted>>
  BY DEF Stop
<1> QED
  BY <1>1 DEF TraceInv, TraceTypes, Written, Queued

\* join returns when the queue is empty, and then all that was due is written
\* unless the task died.
LEMMA JoinedStep == ASSUME TraceInv, Joined PROVE TraceInv'
<1>1. stop' = "joined" /\ undone = 0 /\ UNCHANGED <<queue, undone, drain, file, emitted, due>>
  BY DEF Joined
<1>2. drain # "dead" => Len(file) >= due
  BY <1>1 DEF TraceInv, TraceTypes, Queued
<1> QED
  BY <1>1, <1>2 DEF TraceInv, TraceTypes, Written, Queued

LEMMA StoppedStep == ASSUME TraceInv, Stopped PROVE TraceInv'
  BY DEF Stopped, TraceInv, TraceTypes, Written, Queued

LEMMA NextTrace == ASSUME TraceInv, [Next]_vars PROVE TraceInv'
<1>1. ASSUME NEW c \in Calls, NEW k \in {"api_call", "api_response"},
             Emit([call |-> c, kind |-> k])
      PROVE  TraceInv'
  <2>1. [call |-> c, kind |-> k] \in Records
    BY DEF Records
  <2> QED
    BY <1>1, <2>1, EmitStep
<1>2. CASE UNCHANGED trace
  BY <1>2 DEF trace, TraceInv, TraceTypes, Written, Queued
<1>3. CASE TraceStep
  BY <1>3, DrainStep, JoinedStep, StoppedStep DEF TraceStep
<1>4. CASE Stop
  BY <1>4, StopStep
<1>5. ASSUME NEW c \in Calls, CallStep(c) \/ Cancel(c) PROVE TraceInv'
  BY <1>1, <1>2, <1>5 DEF CallStep, Chat, Token, Dropped, Retry, Refused, Return, Complete,
     Cancel
<1> QED
  BY <1>2, <1>3, <1>4, <1>5 DEF Next, vars

\* The trace file is a beginning of what was emitted, in that order, and all
\* that was due when it was stopped without an error (TraceWriter.stop).
THEOREM TraceIsFaithfulHolds == Spec => []TraceIsFaithful
<1>1. Init => TraceInv
  BY InitTrace
<1>2. TraceInv /\ [Next]_vars => TraceInv'
  BY NextTrace
<1>3. TraceInv => TraceIsFaithful
  <2> SUFFICES ASSUME TraceInv PROVE TraceIsFaithful
    OBVIOUS
  <2>1. file \in Seq(Records) /\ emitted \in Seq(Records) /\ Len(file) <= Len(emitted)
    BY DEF TraceInv, TraceTypes, Written
  <2>2. /\ SubSeq(emitted, 1, Len(file)) \in Seq(Records)
        /\ Len(SubSeq(emitted, 1, Len(file))) = Len(file)
        /\ \A i \in 1..Len(file) : SubSeq(emitted, 1, Len(file))[i] = emitted[i]
    BY <2>1
  <2>3. file = SubSeq(emitted, 1, Len(file))
    BY <2>1, <2>2, SeqEqual DEF TraceInv, Written
  <2> QED
    BY <2>3 DEF TraceInv, TraceIsFaithful
<1> QED
  BY <1>1, <1>2, <1>3, PTL DEF Spec

-----------------------------------------------------------------------------
(***************************************************************************)
(* Lifecycle: the daemon around the calls, whose shutdown ends with the    *)
(* trace's.  It shares no variable with LlmCall.                           *)
(***************************************************************************)
\* ConnectionsOutliveRuns: behind the gather no cancelled run is left.
AfterRuns == phase \in {"closing_mcp", "stopping", "exited"} => doomed = {}

LEMMA AfterRunsStep == ASSUME AfterRuns, [LifecycleNext]_lifecycleVars PROVE AfterRuns'
<1>1. CASE DaemonStep
  <2>1. CASE Load \/ StartServer \/ ServersStarted \/ Bind \/ Gather
    BY <2>1 DEF Load, StartServer, ServersStarted, Bind, Gather, runs, AfterRuns
  <2>2. CASE CancelRuns \/ Exit
    BY <2>2 DEF CancelRuns, Exit, AfterRuns
  <2>3. CASE CloseClient \/ ClientsClosed
    BY <2>3 DEF CloseClient, ClientsClosed, runs, AfterRuns
  <2> QED
    BY <1>1, <2>1, <2>2, <2>3 DEF DaemonStep
<1>2. CASE Signal
  BY <1>2 DEF Signal, runs, AfterRuns
<1>3. ASSUME NEW r \in Runs, Admit(r) PROVE AfterRuns'
  BY <1>3 DEF Admit, AfterRuns
<1>4. ASSUME NEW r \in Runs, RunEnds(r) PROVE AfterRuns'
  BY <1>4 DEF RunEnds, AfterRuns
<1>5. CASE UNCHANGED lifecycleVars
  BY <1>5 DEF lifecycleVars, AfterRuns
<1> QED
  BY <1>1, <1>2, <1>3, <1>4, <1>5 DEF LifecycleNext

\* The shutdown takes the MCP connections away from no run that was at work
\* when it began (CoreApp.run: the gather stands before stop_all).
THEOREM ConnectionsOutliveRunsHolds == LifecycleSpec => ConnectionsOutliveRuns
<1>1. LifecycleInit => AfterRuns
  BY DEF LifecycleInit, AfterRuns
<1>2. AfterRuns /\ [LifecycleNext]_lifecycleVars => AfterRuns'
  BY AfterRunsStep
<1>3. AfterRuns /\ [LifecycleNext]_lifecycleVars =>
        [ open' # open /\ phase \in {"closing_mcp", "stopping"} => doomed = {} ]_lifecycleVars
  BY DEF AfterRuns
<1> QED
  BY <1>1, <1>2, <1>3, PTL DEF LifecycleSpec, ConnectionsOutliveRuns

-----------------------------------------------------------------------------
(***************************************************************************)
(* The configuration.                                                      *)
(***************************************************************************)

\* Behind Load the configuration is what get_config made of the sources.
ConfigInv ==
    /\ src \in Machines
    /\ phase \notin {"loading", "died"} => ~Refuses(src) /\ config = GetConfig(src)

LEMMA ConfigStep == ASSUME ConfigInv, [LifecycleNext]_lifecycleVars PROVE ConfigInv'
<1>1. CASE Load
  <2>1. src' = src
    BY <1>1 DEF Load
  <2>2. CASE Refuses(src)
    BY <1>1, <2>1, <2>2 DEF Load, ConfigInv
  <2>3. CASE ~Refuses(src)
    <3>1. config' = GetConfig(src)
      BY <1>1, <2>3 DEF Load
    <3>2. ~Refuses(src') /\ config' = GetConfig(src')
      BY <2>1, <2>3, <3>1
    <3> QED
      BY <2>1, <3>2 DEF ConfigInv
  <2> QED
    BY <2>2, <2>3
<1>2. CASE /\ UNCHANGED <<src, config>>
           /\ phase' \notin {"loading", "died"} => phase \notin {"loading", "died"}
  BY <1>2 DEF ConfigInv
<1>3. CASE StartServer \/ ServersStarted \/ Bind
  BY <1>2, <1>3 DEF StartServer, ServersStarted, Bind
<1>4. CASE CancelRuns \/ Gather \/ CloseClient \/ ClientsClosed \/ Exit
  BY <1>2, <1>4 DEF CancelRuns, Gather, CloseClient, ClientsClosed, Exit
<1>5. CASE Signal \/ UNCHANGED lifecycleVars
  BY <1>2, <1>5 DEF Signal, lifecycleVars
<1>6. ASSUME NEW r \in Runs, Admit(r) \/ RunEnds(r) PROVE ConfigInv'
  BY <1>2, <1>6 DEF Admit, RunEnds
<1> QED
  BY <1>1, <1>3, <1>4, <1>5, <1>6 DEF LifecycleNext, DaemonStep

LEMMA ConfigInvHolds == LifecycleSpec => []ConfigInv
<1>1. LifecycleInit => ConfigInv
  BY DEF LifecycleInit, ConfigInv
<1>2. ConfigInv /\ [LifecycleNext]_lifecycleVars => ConfigInv'
  BY ConfigStep
<1> QED
  BY <1>1, <1>2, PTL DEF LifecycleSpec

\* The value get_config gives a setting.
LEMMA ValueOf ==
    ASSUME NEW s \in Settings
    PROVE  GetConfig(src).values[s] =
             IF s \in src.dotenv \cup src.shell THEN FromEnv(src, s)
             ELSE ApplyFiles(Defaults, src).values[s]
  BY DEF GetConfig, ApplyEnv

LEMMA ValueOfFile ==
    ASSUME NEW s \in Settings, NEW conf, NEW name, NEW f
    PROVE  ApplyFile(conf, name, f).values[s] =
             IF f.state # "absent" /\ s \in f.sets THEN name ELSE conf.values[s]
  BY DEF ApplyFile

\* The last of some of five sources is the one behind which none comes.
LEMMA LastGiver ==
    ASSUME NEW G \in SUBSET (1..5), NEW k \in G, \A j \in G : j <= k
    PROVE  G # {} /\ (CHOOSE i \in G : \A j \in G : j <= i) = k
<1>1. \A i \in G : (\A j \in G : j <= i) => i = k
  OBVIOUS
<1> QED
  BY <1>1

LEMMA LastSourceGiven ==
    ASSUME ConfigInv, phase \notin {"loading", "died"}
    PROVE  LastSourceWins
<1> SUFFICES ASSUME NEW s \in Settings
    PROVE  LET givers == {i \in 1..5 : Gives(Order[i], s)}
               last   == CHOOSE i \in givers : \A j \in givers : j <= i
           IN config.values[s] =
                  IF givers = {} THEN Defaults.values[s]
                  ELSE IF s = "api_key" /\ s \in src.dotenv THEN "dotenv"
                  ELSE Order[last]
  BY DEF LastSourceWins
<1> DEFINE G == {i \in 1..5 : Gives(Order[i], s)}
<1> DEFINE last == CHOOSE i \in G : \A j \in G : j <= i
<1> DEFINE v == config.values[s]
<1>1. /\ src \in Sources /\ ~Refuses(src) /\ config = GetConfig(src)
  BY LifecycleAssumption DEF ConfigInv
<1>2. /\ 1 \in G <=> src.global.state = "read" /\ s \in src.global.sets /\ ~src.asked
      /\ 2 \in G <=> src.project.state = "read" /\ s \in src.project.sets /\ ~src.asked
      /\ 3 \in G <=> src.explicit.state = "read" /\ s \in src.explicit.sets /\ src.asked
      /\ 4 \in G <=> s \in src.dotenv
      /\ 5 \in G <=> s \in src.shell
  <2>1. src.asked \in BOOLEAN
    BY <1>1 DEF Sources
  <2> QED
    BY <2>1 DEF Gives, Order
<1>3. G \in SUBSET (1..5)
  OBVIOUS
<1>4. v = IF s \in src.dotenv \cup src.shell THEN FromEnv(src, s)
          ELSE ApplyFiles(Defaults, src).values[s]
  BY <1>1, ValueOf
<1>5. \A k \in G : (\A j \in G : j <= k) => G # {} /\ last = k
  BY <1>3, LastGiver
<1>6. /\ Order[1] = "global" /\ Order[2] = "project" /\ Order[3] = "explicit"
      /\ Order[4] = "dotenv" /\ Order[5] = "shell"
  BY DEF Order
<1>7. G = {} \/ \E k \in 1..5 : k \in G /\ \A j \in G : j <= k
  BY <1>3
<1> HIDE DEF G, last, v
<1>8. CASE s \in src.shell
  <2>1. last = 5 /\ G # {}
    BY <1>2, <1>3, <1>5, <1>8
  <2>2. v = IF s \in src.dotenv /\ s = "api_key" THEN "dotenv" ELSE "shell"
    BY <1>4, <1>8 DEF FromEnv, ProjectKeys
  <2> QED
    BY <1>6, <2>1, <2>2 DEF G, last, v
<1>9. CASE s \notin src.shell /\ s \in src.dotenv
  <2>1. \A j \in G : j <= 4
    BY <1>2, <1>3, <1>9
  <2>2. last = 4 /\ G # {}
    BY <1>2, <1>5, <1>9, <2>1
  <2>3. v = "dotenv"
    BY <1>4, <1>9 DEF FromEnv
  <2> QED
    BY <1>6, <2>2, <2>3 DEF G, last, v
<1>10. CASE s \notin src.dotenv \cup src.shell /\ src.asked
  <2>1. v = IF src.explicit.state # "absent" /\ s \in src.explicit.sets
            THEN "explicit" ELSE Defaults.values[s]
    BY <1>4, <1>10, ValueOfFile DEF ApplyFiles
  <2>2. src.explicit.state \in {"absent", "read"}
    BY <1>1, <1>10 DEF Refuses, Layers, Sources, Files
  <2>3. G \subseteq {3}
    BY <1>2, <1>3, <1>10
  <2>4. CASE 3 \in G
    <3>1. last = 3 /\ G # {}
      BY <1>5, <2>3, <2>4
    <3>2. v = "explicit"
      BY <1>2, <2>1, <2>4
    <3> QED
      BY <1>6, <1>10, <3>1, <3>2 DEF G, last, v
  <2>5. CASE 3 \notin G
    <3>1. G = {}
      BY <2>3, <2>5
    <3>2. v = Defaults.values[s]
      BY <1>2, <1>10, <2>1, <2>2, <2>5
    <3> QED
      BY <3>1, <3>2 DEF G, v
  <2> QED
    BY <2>4, <2>5
<1>11. CASE s \notin src.dotenv \cup src.shell /\ ~src.asked
  <2>1. v = IF src.project.state # "absent" /\ s \in src.project.sets THEN "project"
            ELSE IF src.global.state # "absent" /\ s \in src.global.sets THEN "global"
            ELSE Defaults.values[s]
    BY <1>4, <1>11, ValueOfFile DEF ApplyFiles
  <2>2. src.project.state \in {"absent", "read"} /\ src.global.state \in {"absent", "read"}
    BY <1>1, <1>11 DEF Refuses, Layers, Sources, Files
  <2>3. G \subseteq {1, 2}
    BY <1>2, <1>3, <1>11
  <2>4. CASE 2 \in G
    <3>1. last = 2 /\ G # {}
      BY <1>5, <2>3, <2>4
    <3>2. v = "project"
      BY <1>2, <2>1, <2>4
    <3> QED
      BY <1>6, <1>11, <3>1, <3>2 DEF G, last, v
  <2>5. CASE 2 \notin G /\ 1 \in G
    <3>1. last = 1 /\ G # {}
      BY <1>5, <2>3, <2>5
    <3>2. v = "global"
      BY <1>2, <1>11, <2>1, <2>2, <2>5
    <3> QED
      BY <1>6, <1>11, <3>1, <3>2 DEF G, last, v
  <2>6. CASE 2 \notin G /\ 1 \notin G
    <3>1. G = {}
      BY <2>3, <2>6
    <3>2. v = Defaults.values[s]
      BY <1>2, <1>11, <2>1, <2>2, <2>6
    <3> QED
      BY <3>1, <3>2 DEF G, v
  <2> QED
    BY <2>4, <2>5, <2>6
<1> QED
  BY <1>8, <1>9, <1>10, <1>11

\* A daemon that came so far as to start servers has, for every setting, the
\* value of the last source that gives one (get_config).
THEOREM LastSourceWinsHolds == LifecycleSpec => []LastSourceWins
<1>1. ConfigInv => LastSourceWins
  <2>1. CASE phase \in {"loading", "died"}
    BY <2>1 DEF LastSourceWins
  <2> QED
    BY <2>1, LastSourceGiven
<1> QED
  BY <1>1, ConfigInvHolds, PTL

-----------------------------------------------------------------------------
(***************************************************************************)
(* The MCP connections.                                                    *)
(***************************************************************************)
Servers == config.servers

PlaceTypes ==
    /\ src \in Machines
    /\ Servers \in Seq(Names)
    /\ todo \in Seq(Places)
    /\ open \subseteq Places /\ tools \subseteq Places
    /\ clients \in [Names -> Nat]

\* start_all goes through the list from the front, so that a name a later
\* server has taken was taken by one further back.
InTurn ==
    /\ \A i, j \in 1..Len(todo) : i < j => todo[i] < todo[j]
    /\ \A i \in tools, j \in 1..Len(todo) : i < todo[j]
    /\ phase = "loading" => tools = {} /\ open = {}

\* The name of a server was taken by a later one.
Overtaken(i) == \E j \in tools : j > i /\ Servers[j] = Servers[i]

\* Whoever is connected with its tools known is in the dict or was overtaken;
\* behind stop_all nobody is in the dict.
Registered ==
    /\ \A i \in open \cap tools : clients[Servers[i]] = i \/ Overtaken(i)
    /\ phase \in {"stopping", "exited"} => \A n \in Names : clients[n] = 0

ConnectionInv == PlaceTypes /\ InTurn /\ Registered

\* A step that leaves the servers be, or closes a connection of the dict.
LEMMA ServersKept ==
    ASSUME ConnectionInv, UNCHANGED <<src, config, todo, open, clients, tools>>,
           phase' = "loading" => phase = "loading",
           phase' \in {"stopping", "exited"} =>
              phase \in {"stopping", "exited"} \/ \A n \in Names : clients[n] = 0
    PROVE  ConnectionInv'
<1>1. PlaceTypes'
  BY DEF ConnectionInv, PlaceTypes, Servers, Places
<1>2. InTurn'
  BY DEF ConnectionInv, InTurn
<1>3. \A i : Overtaken(i)' <=> Overtaken(i)
  BY DEF Overtaken, Servers
<1>4. Registered'
  BY <1>3 DEF ConnectionInv, Registered, Servers
<1> QED
  BY <1>1, <1>2, <1>4 DEF ConnectionInv

LEMMA SeqOfMembers ==
    ASSUME NEW S, NEW T, NEW s \in Seq(S), \A i \in 1..Len(s) : s[i] \in T
    PROVE  s \in Seq(T)
<1>1. Len(s) \in Nat /\ s \in [1..Len(s) -> S]
  OBVIOUS
<1>2. s \in [1..Len(s) -> T]
  BY <1>1
<1> QED
  BY <1>1, <1>2, SeqDef

\* Every file names servers of Names only.
LEMMA FilesNamed ==
    ASSUME src \in Machines
    PROVE  /\ src.global.servers \in Seq(Names)
           /\ src.project.servers \in Seq(Names)
           /\ src.explicit.servers \in Seq(Names)
<1>1. src \in Sources
  BY LifecycleAssumption
<1>2. /\ src.global.servers \in Seq(STRING)
      /\ src.project.servers \in Seq(STRING)
      /\ src.explicit.servers \in Seq(STRING)
  BY <1>1 DEF Sources, Files
<1>3. /\ \A i \in 1..Len(src.global.servers) : src.global.servers[i] \in Names
      /\ \A i \in 1..Len(src.project.servers) : src.project.servers[i] \in Names
      /\ \A i \in 1..Len(src.explicit.servers) : src.explicit.servers[i] \in Names
  BY DEF Names
<1> QED
  BY <1>2, <1>3, SeqOfMembers

LEMMA ServersNamed ==
    ASSUME src \in Machines
    PROVE  GetConfig(src).servers \in Seq(Names)
<1>1. ASSUME NEW c, NEW name, NEW f, c.servers \in Seq(Names), f.servers \in Seq(Names)
      PROVE  ApplyFile(c, name, f).servers \in Seq(Names)
  BY <1>1 DEF ApplyFile
<1>2. Defaults.servers \in Seq(Names)
  BY DEF Defaults
<1>3. ApplyFile(Defaults, "explicit", src.explicit).servers \in Seq(Names)
  BY <1>1, <1>2, FilesNamed
<1>4. ApplyFile(Defaults, "global", src.global).servers \in Seq(Names)
  BY <1>1, <1>2, FilesNamed
<1>5. ApplyFile(ApplyFile(Defaults, "global", src.global),
                  "project", src.project).servers \in Seq(Names)
  BY <1>1, <1>4, FilesNamed
<1>6. ApplyFiles(Defaults, src).servers \in Seq(Names)
  BY <1>3, <1>5 DEF ApplyFiles
<1>7. GetConfig(src).servers = ApplyFiles(Defaults, src).servers
  BY DEF GetConfig, ApplyEnv
<1> QED
  BY <1>6, <1>7

LEMMA LoadConnections ==
    ASSUME ConnectionInv, Load
    PROVE  ConnectionInv'
<1>1. /\ UNCHANGED <<src, open, clients, tools>> /\ phase = "loading"
      /\ phase' \in {"died", "starting"} /\ tools = {} /\ open = {}
  BY DEF Load, ConnectionInv, InTurn
<1>2. CASE Refuses(src)
  BY <1>1, <1>2, ServersKept DEF Load
<1>3. CASE ~Refuses(src)
  <2>1. /\ config' = GetConfig(src)
        /\ todo' = [i \in 1..Len(config'.servers) |-> i]
    BY <1>3 DEF Load
  <2>2. Servers' \in Seq(Names)
    BY <2>1, ServersNamed DEF Servers, ConnectionInv, PlaceTypes
  <2>3. Len(Servers') \in Nat /\ Places' = 1..Len(Servers')
    BY <2>2 DEF Servers, Places
  <2>4. todo' \in Seq(Places') /\ Len(todo') = Len(Servers')
    BY <2>1, <2>3 DEF Servers
  <2>5. \A i \in 1..Len(todo') : todo'[i] = i
    BY <2>1, <2>3, <2>4 DEF Servers
  <2>6. PlaceTypes' /\ InTurn'
    <3>1. open' = {} /\ tools' = {}
      BY <1>1
    <3> QED
      BY <1>1, <2>2, <2>4, <2>5, <3>1 DEF PlaceTypes, InTurn, ConnectionInv
  <2>7. Registered'
    BY <1>1 DEF Registered
  <2> QED
    BY <2>6, <2>7 DEF ConnectionInv
<1> QED
  BY <1>2, <1>3

\* A server that was reached; the dict has it, or another under its name.
LEMMA StartServerConnections ==
    ASSUME ConnectionInv, StartServer
    PROVE  ConnectionInv'
<1> DEFINE i == Head(todo)
<1>1. /\ phase = "starting" /\ todo # <<>> /\ todo' = Tail(todo)
      /\ UNCHANGED <<src, config, phase>>
      /\ open' \in {open, open \cup {i}}
      /\ \/ UNCHANGED <<clients, tools>> /\ (open' = open \/ i \notin tools)
         \/ /\ tools' = tools \cup {i} /\ open' = open \cup {i}
            /\ clients' = [clients EXCEPT ![Servers[i]] = i]
  <2>1. todo # <<>> /\ todo \in Seq(Places) /\ Places = 1..Len(Servers)
    BY DEF StartServer, ConnectionInv, PlaceTypes, Places, Servers
  <2>2. 1 \in 1..Len(todo) /\ i = todo[1] /\ i \in Places
    BY <2>1
  <2>3. i \notin tools
    BY <2>1, <2>2 DEF ConnectionInv, InTurn
  <2> QED
    BY <2>3 DEF StartServer, Servers
<1>2. PlaceTypes /\ InTurn /\ Registered
  BY DEF ConnectionInv
<1>3. /\ todo \in Seq(Places) /\ i \in Places /\ Places = 1..Len(Servers)
      /\ Places' = Places /\ Servers' = Servers /\ Len(Servers) \in Nat
      /\ i = todo[1] /\ Len(todo) \in Nat \ {0}
      /\ todo' \in Seq(Places) /\ Len(todo') = Len(todo) - 1
      /\ \A k \in 1..Len(todo') : todo'[k] = todo[k + 1]
  BY <1>1, <1>2 DEF PlaceTypes, Places, Servers
<1>4. Servers[i] \in Names /\ i \in Nat \ {0}
  BY <1>2, <1>3 DEF PlaceTypes
<1>5. \A j \in tools : j < i
  BY <1>2, <1>3 DEF InTurn
<1>6. \A k \in 1..Len(todo') : i < todo'[k]
  <2>1. \A k \in 1..Len(todo') : 1 < k + 1 /\ k + 1 \in 1..Len(todo) /\ 1 \in 1..Len(todo)
    BY <1>3
  <2> QED
    BY <1>2, <1>3, <2>1 DEF InTurn
<1> HIDE DEF i
<1>7. PlaceTypes'
  <2>1. open' \subseteq Places' /\ tools' \subseteq Places'
    BY <1>1, <1>2, <1>3 DEF PlaceTypes
  <2>2. clients' \in [Names -> Nat]
    BY <1>1, <1>2, <1>4 DEF PlaceTypes
  <2> QED
    BY <1>1, <1>2, <1>3, <2>1, <2>2 DEF PlaceTypes
<1>8. InTurn'
  <2>1. \A k, l \in 1..Len(todo') : k < l => todo'[k] < todo'[l]
    <3> SUFFICES ASSUME NEW k \in 1..Len(todo'), NEW l \in 1..Len(todo'), k < l
                 PROVE  todo'[k] < todo'[l]
      OBVIOUS
    <3>1. k + 1 \in 1..Len(todo) /\ l + 1 \in 1..Len(todo) /\ k + 1 < l + 1
      BY <1>3
    <3>2. todo[k + 1] < todo[l + 1]
      BY <1>2, <3>1 DEF InTurn
    <3> QED
      BY <1>3, <3>2
  <2>2. ASSUME NEW j \in tools, NEW k \in 1..Len(todo') PROVE j < todo'[k]
    <3>1. k + 1 \in 1..Len(todo)
      BY <1>3
    <3>2. j < todo[k + 1]
      BY <1>2, <3>1 DEF InTurn
    <3> QED
      BY <1>3, <3>2
  <2>3. \A j \in tools' : j \in tools \/ j = i
    BY <1>1
  <2>4. \A j \in tools', k \in 1..Len(todo') : j < todo'[k]
    BY <1>6, <2>2, <2>3
  <2> QED
    BY <1>1, <2>1, <2>4 DEF InTurn
<1>9. Registered'
  <2>1. ASSUME NEW j \in open' \cap tools'
        PROVE  clients'[Servers'[j]] = j \/ Overtaken(j)'
    <3>1. \A k : Overtaken(k) => Overtaken(k)'
      BY <1>1, <1>3 DEF Overtaken
    <3>2. CASE UNCHANGED <<clients, tools>> /\ (open' = open \/ i \notin tools)
      <4>1. j \in open \cap tools
        BY <1>1, <2>1, <3>2
      <4> QED
        BY <1>2, <1>3, <3>1, <3>2, <4>1 DEF Registered
    <3>3. CASE /\ tools' = tools \cup {i} /\ open' = open \cup {i}
               /\ clients' = [clients EXCEPT ![Servers[i]] = i]
      <4>1. clients \in [Names -> Nat]
        BY <1>2 DEF PlaceTypes
      <4>2. CASE j = i
        BY <1>3, <1>4, <3>3, <4>1, <4>2
      <4>3. CASE j # i /\ Servers[j] = Servers[i]
        <5>1. j \in tools /\ j < i
          BY <1>5, <2>1, <3>3, <4>3
        <5> QED
          BY <1>3, <3>3, <4>3, <5>1 DEF Overtaken
      <4>4. CASE j # i /\ Servers[j] # Servers[i]
        <5>1. j \in open \cap tools
          BY <2>1, <3>3, <4>4
        <5>2. Servers[j] \in Names
          BY <1>2, <1>3, <5>1 DEF PlaceTypes
        <5>3. clients'[Servers[j]] = clients[Servers[j]]
          BY <1>4, <3>3, <4>1, <4>4, <5>2
        <5> QED
          BY <1>2, <1>3, <3>1, <5>1, <5>3 DEF Registered
      <4> QED
        BY <4>2, <4>3, <4>4
    <3> QED
      BY <1>1, <3>2, <3>3
  <2> QED
    BY <1>1, <2>1 DEF Registered
<1> QED
  BY <1>7, <1>8, <1>9 DEF ConnectionInv

\* A client of the dict goes, and its connection with it.
LEMMA CloseClientConnections ==
    ASSUME ConnectionInv, CloseClient
    PROVE  ConnectionInv'
<1>1. PICK n \in Names : /\ clients[n] # 0
                           /\ clients' = [clients EXCEPT ![n] = 0]
                           /\ open' = open \ {clients[n]}
  BY DEF CloseClient
<1>2. UNCHANGED <<src, config, phase, todo, tools>> /\ phase = "closing_mcp"
  BY DEF CloseClient
<1>3. PlaceTypes /\ InTurn /\ Registered
  BY DEF ConnectionInv
<1>4. PlaceTypes'
  BY <1>1, <1>2, <1>3 DEF PlaceTypes, Servers, Places
<1>5. InTurn'
  BY <1>2, <1>3 DEF InTurn
<1>6. ASSUME NEW i \in open' \cap tools'
      PROVE  clients'[Servers'[i]] = i \/ Overtaken(i)'
  <2>1. i \in open \cap tools /\ i # clients[n]
    BY <1>1, <1>2, <1>6
  <2>2. Overtaken(i)' <=> Overtaken(i)
    BY <1>2 DEF Overtaken, Servers
  <2>3. CASE Overtaken(i)
    BY <2>2, <2>3
  <2>4. CASE clients[Servers[i]] = i
    <3>1. Servers[i] # n /\ Servers' = Servers
      BY <1>2, <2>1, <2>4 DEF Servers
    <3>2. Servers[i] \in Names
      <4>1. i \in 1..Len(Servers)
        BY <1>3, <2>1 DEF PlaceTypes, Places, Servers
      <4>2. Servers \in Seq(Names)
        BY <1>3 DEF PlaceTypes
      <4> QED
        BY <4>1, <4>2
    <3> QED
      BY <1>1, <1>3, <2>4, <3>1, <3>2 DEF PlaceTypes
  <2> QED
    BY <1>3, <2>1, <2>3, <2>4 DEF Registered
<1>7. Registered'
  BY <1>2, <1>6 DEF Registered
<1> QED
  BY <1>4, <1>5, <1>7 DEF ConnectionInv

LEMMA ConnectionStep ==
    ASSUME ConnectionInv, [LifecycleNext]_lifecycleVars
    PROVE  ConnectionInv'
<1>1. CASE ServersStarted \/ Bind \/ Signal
  BY <1>1, ServersKept DEF ServersStarted, Bind, Signal, mcp
<1>2. CASE CancelRuns \/ Gather \/ ClientsClosed \/ Exit
  BY <1>2, ServersKept DEF CancelRuns, Gather, ClientsClosed, Exit, mcp
<1>3. ASSUME NEW r \in Runs, Admit(r) \/ RunEnds(r) PROVE ConnectionInv'
  BY <1>3, ServersKept DEF Admit, RunEnds, mcp
<1>4. CASE UNCHANGED lifecycleVars
  BY <1>4, ServersKept DEF lifecycleVars
<1> QED
  BY <1>1, <1>2, <1>3, <1>4, LoadConnections, StartServerConnections,
     CloseClientConnections DEF LifecycleNext, DaemonStep

LEMMA InitConnections == LifecycleInit => ConnectionInv
<1> SUFFICES ASSUME LifecycleInit PROVE ConnectionInv
  OBVIOUS
<1>1. Servers = <<>> /\ Places = {}
  BY DEF LifecycleInit, Defaults, Servers, Places
<1>2. clients \in [Names -> Nat]
  BY DEF LifecycleInit
<1>3. PlaceTypes
  BY <1>1, <1>2 DEF LifecycleInit, PlaceTypes
<1>4. InTurn /\ Registered
  BY DEF LifecycleInit, InTurn, Registered
<1> QED
  BY <1>3, <1>4 DEF ConnectionInv

\* An orderly exit leaves no MCP connection behind but of servers that failed
\* after they were reached and of those whose name a later one took
\* (McpServerManager.start_all, stop_all).
THEOREM ExitClosesClientsHolds == LifecycleSpec => []ExitClosesClients
<1>1. ConnectionInv => ExitClosesClients
  <2> SUFFICES ASSUME ConnectionInv, phase = "exited", NEW i \in open, i \in tools
               PROVE  \E j \in tools : j > i /\ config.servers[j] = config.servers[i]
    BY DEF ExitClosesClients
  <2>1. Servers[i] \in Names /\ i \in 1..Len(Servers)
    BY DEF ConnectionInv, PlaceTypes, Places, Servers
  <2>2. clients[Servers[i]] # i
    BY <2>1 DEF ConnectionInv, Registered
  <2> QED
    BY <2>2 DEF ConnectionInv, Registered, Overtaken, Servers
<1>2. LifecycleInit => ConnectionInv
  BY InitConnections
<1>3. ConnectionInv /\ [LifecycleNext]_lifecycleVars => ConnectionInv'
  BY ConnectionStep
<1> QED
  BY <1>1, <1>2, <1>3, PTL DEF LifecycleSpec

-----------------------------------------------------------------------------
(***************************************************************************)
(* Tui: the client at the other end of the daemon's socket.                *)
(***************************************************************************)
\* What lines say of a command, of a request.
Answers(line, c) == line.type \in {"ok", "error"} /\ line.to = c
Asks(line, p) == line.type = "requested" /\ line.id = p

AnswerIn(w, c) == \E i \in 1..Len(w) : Answers(w[i], c)
ErrorIn(w, c)  == \E i \in 1..Len(w) : w[i].type = "error" /\ w[i].to = c
AskIn(w, p)    == \E i \in 1..Len(w) : Asks(w[i], p)
TypeIn(w, t)   == \E i \in 1..Len(w) : w[i].type = t

\* No two lines answer one command or tell of one request.
NoTwins(w) ==
    \A i, j \in 1..Len(w) : i < j =>
        /\ \A c \in Callers : ~(Answers(w[i], c) /\ Answers(w[j], c))
        /\ \A p \in Requests : ~(Asks(w[i], p) /\ Asks(w[j], p))

\* Only a connection that stands brings commands to the daemon, and it has a
\* reader.
LinkInv ==
    /\ link = "up" => loop = "reading" /\ HasClient
    /\ loop # "off" => conn > 0
    /\ asked # {} => link = "up"
    /\ busyOn <= conn
    /\ \A s \in ToSet(selects) : s.on <= conn

\* The daemon owes an answer only to those who wait, and one.
AnswerInv(c) ==
    c \in asked \/ AnswerIn(wire, c) =>
        call[c].state = "waiting" /\ ~(c \in asked /\ AnswerIn(wire, c))

\* Which task sends what.
MethodInv ==
    /\ call[Worker].method \in {"subscribe", "create", Nothing}
    /\ call[Worker].method = "subscribe" /\ Worker \in asked => ~listening
    /\ call[Sender].method \in {"send", Nothing}
    /\ call[Compactor].method \in {"compact", Nothing}
    /\ call[Pump].method \in {"respond", "close", Nothing}
    /\ call[Pump].method = "respond" /\ call[Pump].state # "none" =>
          call[Pump].arg \in Requests /\ decided # <<>>
    /\ starting => call[Sender].state = "none"

\* Every task, and every message that may become one, was typed.
TurnsInv ==
    queued + (IF starting THEN 1 ELSE 0) + (IF Sender \in asked THEN 1 ELSE 0) <= inputs

\* On one connection, a request is told of once and has one select: it comes
\* with the replay or live, if it was asked after that.
RequestInv(p) ==
    LET new == [id |-> p, on |-> conn] IN
    /\ AskIn(wire, p) => listening /\ request[p] # "new" /\ new \notin ToSet(selects)
    /\ link = "up" /\ (~listening \/ request[p] = "new") => new \notin ToSet(selects)

\* What the title of the prompt says, on whatever connection.
PromptInv ==
    /\ prompt = "working" => busy
    /\ prompt = "permission" => blocks # {} \/ call[Pump].state # "none"
    /\ worker = "ready" => prompt # "off"

BlockInv == ~mixed => /\ \A p, q \in blocks : p = q
                      /\ \A p \in blocks : \E s \in ToSet(selects) : s.id = p

\* While the connection of its message stands, a busy client is the owner of
\* something that ends with an event or an error, or its turn ended in silence.
\* A cancelled answer is no such thing, nor is one that came back in order.
BusyInv ==
    busy /\ busyOn = conn /\ link = "up" =>
        /\ worker = "ready"
        /\ \/ starting
           \/ call[Sender].state \in {"error", "oserror"}
           \/ call[Sender].state = "waiting" /\ (Sender \in asked \/ ErrorIn(wire, Sender))
           \/ queued > 0
           \/ holder = "turn"
           \/ TypeIn(wire, "waiting_for_input")
           \/ mute

TuiInv ==
    /\ TuiTypeOK /\ LinkInv /\ WaitersHaveAReader
    /\ \A c \in Callers : AnswerInv(c)
    /\ NoTwins(wire) /\ MethodInv /\ TurnsInv
    /\ \A p \in Requests : RequestInv(p)
    /\ PromptInv /\ BlockInv /\ BusyInv

LEMMA Tasks ==
    /\ Callers = {Worker, Sender, Compactor, Pump}
    /\ Worker # Sender /\ Worker # Compactor /\ Worker # Pump
    /\ Sender # Compactor /\ Sender # Pump /\ Compactor # Pump
  BY TuiAssumption DEF Worker, Sender, Compactor, Pump

-----------------------------------------------------------------------------
(***************************************************************************)
(* The wire.                                                               *)
(***************************************************************************)
LEMMA NoLine ==
           /\ \A c : ~AnswerIn(<<>>, c) /\ ~ErrorIn(<<>>, c)
           /\ \A p : ~AskIn(<<>>, p)
           /\ NoTwins(<<>>)
           /\ <<>> \in Seq(Lines)
  BY DEF AnswerIn, ErrorIn, AskIn, NoTwins

\* A line more.
LEMMA AppendLine ==
    ASSUME NEW w \in Seq(Lines), NEW l \in Lines
    PROVE  LET v == Append(w, l) IN
           /\ v \in Seq(Lines)
           /\ \A c : AnswerIn(v, c) <=> AnswerIn(w, c) \/ Answers(l, c)
           /\ \A c : ErrorIn(v, c) <=> ErrorIn(w, c) \/ (l.type = "error" /\ l.to = c)
           /\ \A p : AskIn(v, p) <=> AskIn(w, p) \/ Asks(l, p)
           /\ \A t : TypeIn(v, t) <=> TypeIn(w, t) \/ l.type = t
           /\ /\ NoTwins(w)
              /\ \A c \in Callers : Answers(l, c) => ~AnswerIn(w, c)
              /\ \A p \in Requests : Asks(l, p) => ~AskIn(w, p)
              => NoTwins(v)
<1> DEFINE v == Append(w, l)
<1>1. /\ v \in Seq(Lines) /\ Len(v) = Len(w) + 1 /\ Len(w) \in Nat
      /\ v[Len(w) + 1] = l
      /\ \A i \in 1..Len(w) : v[i] = w[i]
  OBVIOUS
<1> HIDE DEF v
<1>2. \A i \in 1..Len(v) : i \in 1..Len(w) \/ i = Len(w) + 1
  BY <1>1
<1>3. 1..Len(w) \subseteq 1..Len(v) /\ Len(w) + 1 \in 1..Len(v)
  BY <1>1
<1>4. \A c : AnswerIn(v, c) <=> AnswerIn(w, c) \/ Answers(l, c)
  BY <1>1, <1>2, <1>3 DEF AnswerIn
<1>5. \A c : ErrorIn(v, c) <=> ErrorIn(w, c) \/ (l.type = "error" /\ l.to = c)
  BY <1>1, <1>2, <1>3 DEF ErrorIn
<1>6. \A p : AskIn(v, p) <=> AskIn(w, p) \/ Asks(l, p)
  BY <1>1, <1>2, <1>3 DEF AskIn
<1>7. \A t : TypeIn(v, t) <=> TypeIn(w, t) \/ l.type = t
  BY <1>1, <1>2, <1>3 DEF TypeIn
<1>8. ASSUME NoTwins(w),
             \A c \in Callers : Answers(l, c) => ~AnswerIn(w, c),
             \A p \in Requests : Asks(l, p) => ~AskIn(w, p),
             NEW i \in 1..Len(v), NEW j \in 1..Len(v), i < j
      PROVE  /\ \A c \in Callers : ~(Answers(v[i], c) /\ Answers(v[j], c))
             /\ \A p \in Requests : ~(Asks(v[i], p) /\ Asks(v[j], p))
  <2>1. i \in 1..Len(w) /\ v[i] = w[i]
    BY <1>1, <1>2, <1>8
  <2>2. CASE j \in 1..Len(w)
    BY <1>1, <1>8, <2>1, <2>2 DEF NoTwins
  <2>3. CASE j = Len(w) + 1
    BY <1>1, <1>8, <2>1, <2>3 DEF AnswerIn, AskIn
  <2> QED
    BY <1>2, <2>2, <2>3
<1>9. /\ NoTwins(w)
      /\ \A c \in Callers : Answers(l, c) => ~AnswerIn(w, c)
      /\ \A p \in Requests : Asks(l, p) => ~AskIn(w, p)
      => NoTwins(v)
  BY <1>8 DEF NoTwins
<1> QED
  BY <1>1, <1>4, <1>5, <1>6, <1>7, <1>9 DEF v

\* The first line is read.
LEMMA TailLine ==
    ASSUME NEW w \in Seq(Lines), w # <<>>
    PROVE  LET v == Tail(w)  l == Head(w) IN
           /\ v \in Seq(Lines) /\ l \in Lines
           /\ \A c : AnswerIn(w, c) <=> AnswerIn(v, c) \/ Answers(l, c)
           /\ \A c : ErrorIn(w, c) <=> ErrorIn(v, c) \/ (l.type = "error" /\ l.to = c)
           /\ \A p : AskIn(w, p) <=> AskIn(v, p) \/ Asks(l, p)
           /\ \A t : TypeIn(w, t) <=> TypeIn(v, t) \/ l.type = t
           /\ NoTwins(w) => /\ NoTwins(v)
                            /\ \A c \in Callers : Answers(l, c) => ~AnswerIn(v, c)
                            /\ \A p \in Requests : Asks(l, p) => ~AskIn(v, p)
<1> DEFINE v == Tail(w)
<1>1. /\ v \in Seq(Lines) /\ Len(v) = Len(w) - 1 /\ Len(w) \in Nat /\ Len(w) >= 1
      /\ Head(w) = w[1] /\ Head(w) \in Lines
      /\ \A i \in 1..Len(v) : v[i] = w[i + 1]
  OBVIOUS
<1> HIDE DEF v
<1>2. \A i \in 1..Len(w) : i = 1 \/ (i - 1 \in 1..Len(v) /\ w[i] = v[i - 1])
  BY <1>1
<1>3. 1 \in 1..Len(w) /\ \A i \in 1..Len(v) : i + 1 \in 1..Len(w)
  BY <1>1
<1>4. \A c : AnswerIn(w, c) <=> AnswerIn(v, c) \/ Answers(Head(w), c)
  BY <1>1, <1>2, <1>3 DEF AnswerIn
<1>5. \A c : ErrorIn(w, c) <=> ErrorIn(v, c) \/ (Head(w).type = "error" /\ Head(w).to = c)
  BY <1>1, <1>2, <1>3 DEF ErrorIn
<1>6. \A p : AskIn(w, p) <=> AskIn(v, p) \/ Asks(Head(w), p)
  BY <1>1, <1>2, <1>3 DEF AskIn
<1>7. \A t : TypeIn(w, t) <=> TypeIn(v, t) \/ Head(w).type = t
  BY <1>1, <1>2, <1>3 DEF TypeIn
<1>8. ASSUME NoTwins(w), NEW i \in 1..Len(v)
      PROVE  /\ \A c \in Callers : ~(Answers(Head(w), c) /\ Answers(v[i], c))
             /\ \A p \in Requests : ~(Asks(Head(w), p) /\ Asks(v[i], p))
  BY <1>1, <1>3, <1>8 DEF NoTwins
<1>9. ASSUME NoTwins(w), NEW i \in 1..Len(v), NEW j \in 1..Len(v), i < j
      PROVE  /\ \A c \in Callers : ~(Answers(v[i], c) /\ Answers(v[j], c))
             /\ \A p \in Requests : ~(Asks(v[i], p) /\ Asks(v[j], p))
  <2>1. /\ i + 1 \in 1..Len(w) /\ j + 1 \in 1..Len(w) /\ i + 1 < j + 1
        /\ v[i] = w[i + 1] /\ v[j] = w[j + 1]
    BY <1>1, <1>3, <1>9
  <2> QED
    BY <1>9, <2>1 DEF NoTwins
<1>10. NoTwins(w) => NoTwins(v)
  BY <1>9 DEF NoTwins
<1> QED
  BY <1>1, <1>4, <1>5, <1>6, <1>7, <1>8, <1>10 DEF v, AnswerIn, AskIn

\* The last lines are lost.
LEMMA CutLines ==
    ASSUME NEW w \in Seq(Lines), NEW n \in 0..Len(w)
    PROVE  LET v == SubSeq(w, 1, n) IN
           /\ v \in Seq(Lines)
           /\ \A c : AnswerIn(v, c) => AnswerIn(w, c)
           /\ \A p : AskIn(v, p) => AskIn(w, p)
           /\ NoTwins(w) => NoTwins(v)
<1> DEFINE v == SubSeq(w, 1, n)
<1>1. /\ v \in Seq(Lines) /\ Len(v) = n /\ Len(w) \in Nat /\ n \in Nat /\ n <= Len(w)
      /\ \A i \in 1..n : v[i] = w[i]
  OBVIOUS
<1> HIDE DEF v
<1>2. 1..Len(v) \subseteq 1..Len(w) /\ \A i \in 1..Len(v) : v[i] = w[i]
  BY <1>1
<1> QED
  BY <1>1, <1>2 DEF v, AnswerIn, AskIn, NoTwins

-----------------------------------------------------------------------------
(***************************************************************************)
(* The selects.                                                            *)
(***************************************************************************)
\* One more.
LEMMA SelectAdded ==
    ASSUME NEW s \in Seq(Selects), IsInjective(s), NEW p \in Selects, p \notin ToSet(s)
    PROVE  LET t == Append(s, p) IN
           t \in Seq(Selects) /\ IsInjective(t) /\ ToSet(t) = ToSet(s) \cup {p}
<1> DEFINE t == Append(s, p)
<1>1. /\ t \in Seq(Selects) /\ Len(t) = Len(s) + 1 /\ Len(s) \in Nat
      /\ DOMAIN t = 1..Len(t) /\ DOMAIN s = 1..Len(s)
      /\ t[Len(s) + 1] = p
      /\ \A i \in 1..Len(s) : t[i] = s[i]
  OBVIOUS
<1> HIDE DEF t
<1>2. \A i \in DOMAIN t : i \in DOMAIN s \/ i = Len(s) + 1
  BY <1>1
<1>3. \A i \in DOMAIN s : i \in DOMAIN t /\ t[i] = s[i] /\ s[i] # p
  BY <1>1 DEF ToSet
<1>4. Len(s) + 1 \in DOMAIN t
  BY <1>1
<1>5. IsInjective(t)
  BY <1>1, <1>2, <1>3 DEF IsInjective
<1>6. ToSet(t) = ToSet(s) \cup {p}
  BY <1>1, <1>2, <1>3, <1>4 DEF ToSet
<1> QED
  BY <1>1, <1>5, <1>6 DEF t

\* One less, the first or another.
LEMMA SelectsWithout ==
    ASSUME NEW s \in Seq(Selects), IsInjective(s), NEW k \in 1..Len(s)
    PROVE  LET t == SubSeq(s, 1, k - 1) \o SubSeq(s, k + 1, Len(s)) IN
           t \in Seq(Selects) /\ IsInjective(t) /\ ToSet(t) = ToSet(s) \ {s[k]}
<1> DEFINE a == SubSeq(s, 1, k - 1)
           b == SubSeq(s, k + 1, Len(s))
           t == a \o b
           n == Len(s)
<1>1. n \in Nat /\ k \in Int /\ 1 <= k /\ k <= n /\ DOMAIN s = 1..n
  OBVIOUS
<1>2. a \in Seq(Selects) /\ Len(a) = k - 1 /\ \A i \in 1..(k - 1) : a[i] = s[i]
  <2>1. \A i \in 1..(k - 1) : s[i] \in Selects
    BY <1>1
  <2> QED
    BY <1>1, <2>1, SubSeqProperties
<1>3. b \in Seq(Selects) /\ Len(b) = n - k /\ \A i \in 1..(n - k) : b[i] = s[i + k]
  <2>1. \A i \in (k + 1)..n : s[i] \in Selects
    BY <1>1
  <2>2. /\ b \in Seq(Selects) /\ Len(b) = IF k + 1 <= n THEN n - (k + 1) + 1 ELSE 0
        /\ \A i \in 1..(n - (k + 1) + 1) : b[i] = s[k + 1 + i - 1]
    BY <1>1, <2>1, SubSeqProperties
  <2> HIDE DEF a, b, n
  <2>3. n - (k + 1) + 1 = n - k /\ \A i \in Int : k + 1 + i - 1 = i + k
    BY <1>1
  <2>4. Len(b) = n - k
    BY <1>1, <2>2
  <2>5. ASSUME NEW i \in 1..(n - k) PROVE b[i] = s[i + k]
    BY <1>1, <2>2, <2>3
  <2> QED
    BY <2>2, <2>4, <2>5
<1> HIDE DEF a, b
<1>4. /\ t \in Seq(Selects) /\ Len(t) = n - 1 /\ DOMAIN t = 1..(n - 1)
      /\ \A i \in 1..(k - 1) : t[i] = s[i]
      /\ \A i \in k..(n - 1) : t[i] = s[i + 1]
  <2>1. /\ t \in Seq(Selects) /\ Len(t) = Len(a) + Len(b) /\ DOMAIN t = 1..Len(t)
        /\ \A i \in 1..(Len(a) + Len(b)) :
              t[i] = IF i <= Len(a) THEN a[i] ELSE b[i - Len(a)]
    <3>1. /\ t \in Seq(Selects) /\ Len(t) = Len(a) + Len(b)
          /\ \A i \in 1..(Len(a) + Len(b)) :
                t[i] = IF i <= Len(a) THEN a[i] ELSE b[i - Len(a)]
      BY <1>2, <1>3, ConcatProperties, Zenon
    <3> HIDE DEF t
    <3> QED
      BY <3>1
  <2>2. Len(t) = n - 1
    BY <1>1, <1>2, <1>3, <2>1
  <2>3. \A i \in 1..(k - 1) : t[i] = s[i]
    BY <1>1, <1>2, <1>3, <2>1
  <2>4. ASSUME NEW i \in k..(n - 1) PROVE t[i] = s[i + 1]
    <3>1. i - (k - 1) \in 1..(n - k) /\ i - (k - 1) + k = i + 1 /\ ~(i <= k - 1)
          /\ i \in 1..(n - 1)
      BY <1>1
    <3>2. t[i] = b[i - (k - 1)]
      BY <1>1, <1>2, <1>3, <2>1, <3>1
    <3> QED
      BY <1>3, <3>1, <3>2
  <2> QED
    BY <2>1, <2>2, <2>3, <2>4
<1> HIDE DEF t, n
<1>5. \A i, j \in 1..n : s[i] = s[j] => i = j
  BY <1>1 DEF IsInjective
<1>6. \A i \in 1..(n - 1) : i \in 1..(k - 1) \/ i \in k..(n - 1)
  BY <1>1
<1>7. IsInjective(t)
  <2>1. ASSUME NEW i \in 1..(n - 1), NEW j \in 1..(n - 1), t[i] = t[j] PROVE i = j
    <3> DEFINE u == IF i < k THEN i ELSE i + 1
               v == IF j < k THEN j ELSE j + 1
    <3>1. u \in 1..n /\ v \in 1..n /\ t[i] = s[u] /\ t[j] = s[v]
      BY <1>1, <1>4, <1>6
    <3>2. u = v
      BY <1>5, <2>1, <3>1
    <3> QED
      BY <1>1, <3>2
  <2> QED
    BY <1>4, <2>1 DEF IsInjective
<1>8. \A i \in 1..(n - 1) : \E j \in 1..n : j # k /\ t[i] = s[j]
  <2>1. ASSUME NEW i \in 1..(n - 1) PROVE \E j \in 1..n : j # k /\ t[i] = s[j]
    <3>1. CASE i \in 1..(k - 1)
      BY <1>1, <1>4, <3>1
    <3>2. CASE i \in k..(n - 1)
      <4>1. i + 1 \in 1..n /\ i + 1 # k /\ t[i] = s[i + 1]
        BY <1>1, <1>4, <3>2
      <4> QED
        BY <4>1
    <3> QED
      BY <1>6, <3>1, <3>2
  <2> QED
    BY <2>1
<1>9. \A j \in 1..n : j # k => \E i \in 1..(n - 1) : t[i] = s[j]
  <2>1. ASSUME NEW j \in 1..n, j # k PROVE \E i \in 1..(n - 1) : t[i] = s[j]
    <3>1. CASE j < k
      <4>1. j \in 1..(n - 1) /\ t[j] = s[j]
        BY <1>1, <1>4, <3>1
      <4> QED
        BY <4>1
    <3>2. CASE k < j
      <4>1. j - 1 \in 1..(n - 1) /\ j - 1 \in k..(n - 1) /\ j - 1 + 1 = j
        BY <1>1, <3>2
      <4>2. t[j - 1] = s[j]
        BY <1>4, <4>1
      <4> QED
        BY <4>1, <4>2
    <3> QED
      BY <1>1, <2>1, <3>1, <3>2
  <2> QED
    BY <2>1
<1>10. ToSet(t) = ToSet(s) \ {s[k]}
  <2>1. ToSet(t) = {t[i] : i \in 1..(n - 1)} /\ ToSet(s) = {s[j] : j \in 1..n}
    BY <1>1, <1>4 DEF ToSet
  <2>2. \A j \in 1..n : s[j] = s[k] <=> j = k
    BY <1>1, <1>5
  <2>3. ToSet(t) \subseteq ToSet(s) \ {s[k]}
    BY <1>1, <1>8, <2>1, <2>2
  <2>4. ToSet(s) \ {s[k]} \subseteq ToSet(t)
    BY <1>9, <2>1
  <2> QED
    BY <2>3, <2>4
<1> QED
  BY <1>4, <1>7, <1>10 DEF t, a, b, n

LEMMA SelectTakenOff ==
    ASSUME NEW s \in Seq(Selects), IsInjective(s), NEW p
    PROVE  LET t == RemoveFirst(s, p) IN
           t \in Seq(Selects) /\ IsInjective(t) /\ ToSet(t) = ToSet(s) \ {p}
<1>1. CASE \A i \in 1..Len(s) : s[i] # p
  <2>1. RemoveFirst(s, p) = s
    BY <1>1 DEF RemoveFirst
  <2>2. p \notin ToSet(s)
    BY <1>1 DEF ToSet
  <2> QED
    BY <2>1, <2>2
<1>2. CASE \E i \in 1..Len(s) : s[i] = p
  <2>1. PICK k \in 1..Len(s) : s[k] = p
    BY <1>2
  <2> DEFINE I == {i \in 1..Len(s) : s[i] = p}
  <2>2. I = {k}
    BY <2>1 DEF IsInjective
  <2>3. (CHOOSE x \in I : \A y \in I : x <= y) = k
    <3> HIDE DEF I
    <3>1. k \in I /\ \A y \in I : k <= y
      BY <2>2
    <3> QED
      BY <2>2, <3>1
  <2>4. RemoveFirst(s, p) = SubSeq(s, 1, k - 1) \o SubSeq(s, k + 1, Len(s))
    BY <1>2, <2>2, <2>3 DEF RemoveFirst, RemoveAt, SelectInSeq, Min
  <2> QED
    BY <2>1, <2>4, SelectsWithout
<1> QED
  BY <1>1, <1>2

LEMMA FirstSelectGone ==
    ASSUME NEW s \in Seq(Selects), IsInjective(s)
    PROVE  LET t == Tails(s) IN
           t \in Seq(Selects) /\ IsInjective(t) /\ ToSet(t) \subseteq ToSet(s)
<1>1. CASE s = <<>>
  BY <1>1 DEF Tails
<1>2. CASE s # <<>>
  <2>1. 1 \in 1..Len(s) /\ Tail(s) = SubSeq(s, 1, 0) \o SubSeq(s, 2, Len(s))
    BY <1>2
  <2>2. LET t == SubSeq(s, 1, 1 - 1) \o SubSeq(s, 1 + 1, Len(s)) IN
        t \in Seq(Selects) /\ IsInjective(t) /\ ToSet(t) = ToSet(s) \ {s[1]}
    BY <2>1, SelectsWithout
  <2>3. 1 - 1 = 0 /\ 1 + 1 = 2
    OBVIOUS
  <2> QED
    BY <1>2, <2>1, <2>2, <2>3 DEF Tails
<1> QED
  BY <1>1, <1>2

-----------------------------------------------------------------------------
(***************************************************************************)
(* The commands.                                                           *)
(***************************************************************************)
LEMMA Sent ==
    ASSUME TuiTypeOK, NEW c \in Callers, NEW m \in Methods,
           NEW a \in Requests \cup {Nothing, Session}, SendCommand(c, m, a)
    PROVE  /\ call' \in [Callers -> Commands]
           /\ call'[c].method = m /\ call'[c].arg = a
           /\ call'[c].state \in {"waiting", "oserror", "lost"}
           /\ link = "up" => call'[c].state = "waiting"
           /\ call'[c].state = "waiting" => link = "up" \/ loop = "reading"
           /\ \A d \in Callers : d # c => call'[d] = call[d]
           /\ asked' = (IF link = "up" THEN asked \cup {c} ELSE asked)
           /\ conn' = conn /\ link' = link /\ loop' = loop /\ wire' = wire
<1>1. PICK s \in IF link = "up" THEN {"waiting"}
                 ELSE {"oserror", IF loop = "reading" THEN "waiting" ELSE "lost"} :
           call' = [call EXCEPT ![c] = [state |-> s, method |-> m, arg |-> a]]
  BY DEF SendCommand
<1>2. call \in [Callers -> Commands]
  BY DEF TuiTypeOK, ClientTypeOK
<1>3. [state |-> s, method |-> m, arg |-> a] \in Commands
  BY <1>1 DEF Commands, CallStates
<1>4. /\ call' \in [Callers -> Commands]
      /\ call'[c] = [state |-> s, method |-> m, arg |-> a]
      /\ \A d \in Callers : d # c => call'[d] = call[d]
  BY <1>1, <1>2, <1>3
<1> QED
  BY <1>1, <1>4 DEF SendCommand

LEMMA Resumed ==
    ASSUME TuiTypeOK, NEW c \in Callers, Resume(c)
    PROVE  /\ call' \in [Callers -> Commands]
           /\ call'[c] = Idle
           /\ \A d \in Callers : d # c => call'[d] = call[d]
<1>1. Idle \in Commands /\ call \in [Callers -> Commands]
  BY DEF TuiTypeOK, ClientTypeOK, Idle, Commands, CallStates
<1> QED
  BY <1>1 DEF Resume

\* Whoever waits is cancelled.
Given(d, e) == /\ d \in Commands
               /\ d.method = e.method /\ d.arg = e.arg
               /\ d.state = IF e.state = "waiting" THEN "cancelled" ELSE e.state

LEMMA Cancelled ==
    ASSUME TuiTypeOK
    PROVE  /\ CancelAll \in [Callers -> Commands]
           /\ \A c \in Callers : Given(CancelAll[c], call[c])
<1>1. call \in [Callers -> Commands]
  BY DEF TuiTypeOK, ClientTypeOK
<1>2. ASSUME NEW c \in Callers PROVE Given(CancelAll[c], call[c])
  <2>1. call[c] \in Commands
    BY <1>1
  <2> DEFINE e == call[c]
  <2>2. CancelAll[c] = IF e.state = "waiting" THEN [e EXCEPT !.state = "cancelled"] ELSE e
    BY DEF CancelAll
  <2> HIDE DEF e
  <2>3. e \in Commands
    BY <2>1 DEF e
  <2>4. Given(CancelAll[c], e)
    BY <2>2, <2>3 DEF Given, Commands, CallStates
  <2> QED
    BY <2>4 DEF e
<1>3. CancelAll = [c \in Callers |-> CancelAll[c]]
  BY DEF CancelAll
<1> QED
  BY <1>2, <1>3 DEF Given

LEMMA DroppedLine ==
    ASSUME TuiTypeOK, Worker \in Callers, NEW next, Disconnect(next)
    PROVE  /\ call' \in [Callers -> Commands]
           /\ call'[Worker] = Idle
           /\ \A c \in Callers : c # Worker => Given(call'[c], call[c])
           /\ link' = "none" /\ loop' = "off" /\ asked' = {} /\ wire' = <<>>
<1>1. Idle \in Commands
  BY DEF Idle, Commands, CallStates
<1>2. call' = [CancelAll EXCEPT ![Worker] = Idle]
  BY DEF Disconnect, Close, screenVars, sessionVars, NoSession
<1> QED
  BY <1>1, <1>2, Cancelled DEF Disconnect, Close, screenVars, sessionVars, NoSession

LEMMA Settled ==
    ASSUME TuiTypeOK, NEW line \in Lines, line.type \in {"ok", "error"}, Settle(line)
    PROVE  /\ line.to \in Callers
           /\ call' \in [Callers -> Commands]
           /\ \A d \in Callers : d # line.to => call'[d] = call[d]
           /\ call'[line.to].method = call[line.to].method
           /\ call'[line.to].arg = call[line.to].arg
           /\ call'[line.to].state = IF call[line.to].state = "waiting" THEN line.type
                                     ELSE call[line.to].state
<1>1. call \in [Callers -> Commands]
  BY DEF TuiTypeOK, ClientTypeOK
<1>2. line.to \in Callers
  BY DEF Lines
<1> DEFINE e == call[line.to]
           d == IF e.state = "waiting" THEN [e EXCEPT !.state = line.type] ELSE e
<1>3. e \in Commands
  BY <1>1, <1>2
<1>4. call' = [call EXCEPT ![line.to] = d]
  BY <1>1, <1>2 DEF Settle
<1> HIDE DEF e
<1>5. /\ d \in Commands /\ d.method = e.method /\ d.arg = e.arg
      /\ d.state = IF e.state = "waiting" THEN line.type ELSE e.state
  BY <1>3 DEF Commands, CallStates
<1> HIDE DEF d
<1> QED
  BY <1>1, <1>2, <1>4, <1>5 DEF e

LEMMA SentLine ==
    ASSUME TuiTypeOK, NEW l \in Lines, Send(l)
    PROVE  /\ wire' \in Seq(Lines)
           /\ \A c : AnswerIn(wire', c) <=> AnswerIn(wire, c) \/ (link = "up" /\ Answers(l, c))
           /\ \A c : ErrorIn(wire', c) <=>
                        ErrorIn(wire, c) \/ (link = "up" /\ l.type = "error" /\ l.to = c)
           /\ \A p : AskIn(wire', p) <=> AskIn(wire, p) \/ (link = "up" /\ Asks(l, p))
           /\ \A t : TypeIn(wire', t) <=> TypeIn(wire, t) \/ (link = "up" /\ l.type = t)
           /\ /\ NoTwins(wire)
              /\ \A c \in Callers : Answers(l, c) => ~AnswerIn(wire, c)
              /\ \A p \in Requests : Asks(l, p) => ~AskIn(wire, p)
              => NoTwins(wire')
<1>1. wire \in Seq(Lines)
  BY DEF TuiTypeOK, ClientTypeOK
<1>2. CASE link = "up"
  <2>1. wire' = Append(wire, l)
    BY <1>2 DEF Send
  <2> QED
    BY <1>1, <1>2, <2>1, AppendLine
<1>3. CASE link # "up"
  <2>1. wire' = wire
    BY <1>3 DEF Send
  <2> QED
    BY <1>1, <1>3, <2>1
<1> QED
  BY <1>2, <1>3

\* An event that is no request.
LEMMA SentNews ==
    ASSUME TuiTypeOK, NoTwins(wire), NEW l \in Lines, Send(l),
           l.type \notin {"ok", "error", "requested"}
    PROVE  /\ wire' \in Seq(Lines) /\ NoTwins(wire')
           /\ \A c : AnswerIn(wire', c) <=> AnswerIn(wire, c)
           /\ \A c : ErrorIn(wire', c) <=> ErrorIn(wire, c)
           /\ \A p : AskIn(wire', p) <=> AskIn(wire, p)
           /\ \A t : TypeIn(wire, t) => TypeIn(wire', t)
           /\ link = "up" => TypeIn(wire', l.type)
<1>1. (\A c : ~Answers(l, c)) /\ (\A p : ~Asks(l, p)) /\ l.type # "error"
  BY DEF Answers, Asks
<1> QED
  BY <1>1, SentLine

LEMMA ConnectFailsStep ==
    ASSUME TuiInv, ConnectFails
    PROVE  TuiInv'
<1>10. TuiTypeOK'
  <2>1. ClientTypeOK'
    BY DEF TuiInv, TuiTypeOK, ClientTypeOK, ConnectFails, clientVars, daemonVars, screenVars,
       sessionVars
  <2> QED
    BY <2>1 DEF TuiInv, TuiTypeOK, ConnectFails, clientVars, daemonVars, screenVars, sessionVars
<1>11. LinkInv'
  BY DEF TuiInv, LinkInv, HasClient, ConnectFails, clientVars, daemonVars, screenVars,
     sessionVars
<1>12. WaitersHaveAReader'
  BY DEF TuiInv, WaitersHaveAReader, LinkInv, ConnectFails, clientVars, daemonVars,
     screenVars, sessionVars
<1>13. ASSUME NEW d \in Callers PROVE AnswerInv(d)'
  BY <1>13 DEF TuiInv, AnswerInv, ConnectFails, clientVars, daemonVars, screenVars, sessionVars
<1>14. NoTwins(wire')
  BY DEF TuiInv, ConnectFails, clientVars, daemonVars, screenVars, sessionVars
<1>15. MethodInv'
  BY DEF TuiInv, MethodInv, ConnectFails, clientVars, daemonVars, screenVars, sessionVars
<1>16. TurnsInv'
  BY DEF TuiInv, TurnsInv, ConnectFails, clientVars, daemonVars, screenVars, sessionVars
<1>17. ASSUME NEW q \in Requests PROVE RequestInv(q)'
  BY <1>17 DEF TuiInv, RequestInv, ConnectFails, clientVars, daemonVars, screenVars, sessionVars
<1>18. PromptInv'
  BY DEF TuiInv, PromptInv, ConnectFails, clientVars, daemonVars, screenVars, sessionVars
<1>19. BlockInv'
  BY DEF TuiInv, BlockInv, ConnectFails, clientVars, daemonVars, screenVars, sessionVars
<1>20. BusyInv'
  BY DEF TuiInv, BusyInv, ConnectFails, clientVars, daemonVars, screenVars, sessionVars
<1> QED
  BY <1>10, <1>11, <1>12, <1>13, <1>14, <1>15, <1>16, <1>17, <1>18, <1>19, <1>20 DEF TuiInv

LEMMA WakeStep ==
    ASSUME TuiInv, Wake
    PROVE  TuiInv'
<1>10. TuiTypeOK'
  <2>1. ClientTypeOK'
    BY DEF TuiInv, TuiTypeOK, ClientTypeOK, Wake, clientVars, daemonVars, screenVars,
       sessionVars
  <2> QED
    BY <2>1 DEF TuiInv, TuiTypeOK, Wake, clientVars, daemonVars, screenVars, sessionVars
<1>11. LinkInv'
  BY DEF TuiInv, LinkInv, HasClient, Wake, clientVars, daemonVars, screenVars, sessionVars
<1>12. WaitersHaveAReader'
  BY DEF TuiInv, WaitersHaveAReader, LinkInv, Wake, clientVars, daemonVars, screenVars,
     sessionVars
<1>13. ASSUME NEW d \in Callers PROVE AnswerInv(d)'
  BY <1>13 DEF TuiInv, AnswerInv, Wake, clientVars, daemonVars, screenVars, sessionVars
<1>14. NoTwins(wire')
  BY DEF TuiInv, Wake, clientVars, daemonVars, screenVars, sessionVars
<1>15. MethodInv'
  BY DEF TuiInv, MethodInv, Wake, clientVars, daemonVars, screenVars, sessionVars
<1>16. TurnsInv'
  BY DEF TuiInv, TurnsInv, Wake, clientVars, daemonVars, screenVars, sessionVars
<1>17. ASSUME NEW q \in Requests PROVE RequestInv(q)'
  BY <1>17 DEF TuiInv, RequestInv, Wake, clientVars, daemonVars, screenVars, sessionVars
<1>18. PromptInv'
  BY DEF TuiInv, PromptInv, Wake, clientVars, daemonVars, screenVars, sessionVars
<1>19. BlockInv'
  BY DEF TuiInv, BlockInv, Wake, clientVars, daemonVars, screenVars, sessionVars
<1>20. BusyInv'
  BY DEF TuiInv, BusyInv, Wake, clientVars, daemonVars, screenVars, sessionVars
<1> QED
  BY <1>10, <1>11, <1>12, <1>13, <1>14, <1>15, <1>16, <1>17, <1>18, <1>19, <1>20 DEF TuiInv

LEMMA SubmitStep ==
    ASSUME TuiInv, Submit
    PROVE  TuiInv'
<1>10. TuiTypeOK'
  <2>1. ClientTypeOK'
    BY DEF TuiInv, TuiTypeOK, ClientTypeOK, Submit, clientVars, daemonVars, PumpFree,
       HasSession, ClientTypeOK, screenVars, sessionVars
  <2>6. /\ blocks' \subseteq Requests /\ mixed' \in BOOLEAN
        /\ selects' \in Seq(Selects) /\ IsInjective(selects')
        /\ decided' \in Seq(Selects) /\ Len(decided') <= MaxPicks
    BY TuiAssumption DEF TuiInv, TuiTypeOK, ClientTypeOK, Submit, screenVars, PumpFree,
       clientVars
  <2>7. /\ app' \in {"running", "quitting", "exited"}
        /\ worker' \in {"connecting", "subscribing", "creating", "ready", "sleeping", "dead"}
        /\ prompt' \in {"open", "off", "working", "permission", "closed"}
        /\ inputs' \in 0..MaxInputs /\ busyOn' \in 0..MaxConnections
    BY TuiAssumption DEF TuiInv, TuiTypeOK, ClientTypeOK, Submit, screenVars, PumpFree,
       clientVars
  <2>8. starting' \in BOOLEAN /\ busy' \in BOOLEAN
    BY TuiAssumption DEF TuiInv, TuiTypeOK, ClientTypeOK, Submit, screenVars, PumpFree,
       clientVars
  <2>9. /\ listening' \in BOOLEAN /\ mute' \in BOOLEAN
        /\ queued' \in 0..MaxInputs
        /\ holder' \in {"nobody", "shut", "turn", "reported", "compaction"}
        /\ request' \in [Requests -> {"new", "open", "denying", "settled", "denied"}]
        /\ replay' \in Requests \cup {Nothing}
    BY TuiAssumption DEF TuiInv, TuiTypeOK, ClientTypeOK, Submit, screenVars, PumpFree,
       clientVars
  <2> QED
    BY <2>1, <2>6, <2>7, <2>8, <2>9 DEF TuiTypeOK
<1>11. LinkInv'
  BY DEF TuiInv, LinkInv, HasClient, TuiTypeOK, ClientTypeOK, Submit, clientVars, daemonVars,
     PumpFree, HasSession, screenVars, sessionVars
<1>12. WaitersHaveAReader'
  BY DEF TuiInv, WaitersHaveAReader, LinkInv, Submit, clientVars, daemonVars, PumpFree,
     HasSession, screenVars, sessionVars
<1>13. ASSUME NEW d \in Callers PROVE AnswerInv(d)'
  BY <1>13 DEF TuiInv, AnswerInv, Submit, clientVars, daemonVars, PumpFree, HasSession,
     screenVars, sessionVars
<1>14. NoTwins(wire')
  BY DEF TuiInv, Submit, clientVars, daemonVars, PumpFree, HasSession, screenVars, sessionVars
<1>15. MethodInv'
  BY DEF TuiInv, MethodInv, Submit, clientVars, daemonVars, PumpFree, HasSession, screenVars,
     sessionVars
<1>16. TurnsInv'
  BY DEF TuiInv, TurnsInv, TuiTypeOK, Submit, clientVars, daemonVars, PumpFree, HasSession,
     screenVars, sessionVars
<1>17. ASSUME NEW q \in Requests PROVE RequestInv(q)'
  BY <1>17 DEF TuiInv, RequestInv, Submit, clientVars, daemonVars, PumpFree, HasSession,
     screenVars, sessionVars
<1>18. PromptInv'
  BY DEF TuiInv, PromptInv, Submit, clientVars, daemonVars, PumpFree, HasSession, screenVars,
     sessionVars
<1>19. BlockInv'
  BY DEF TuiInv, BlockInv, Submit, clientVars, daemonVars, PumpFree, HasSession, screenVars,
     sessionVars
<1>20. BusyInv'
  BY DEF TuiInv, BusyInv, Submit, clientVars, daemonVars, PumpFree, HasSession, screenVars,
     sessionVars
<1> QED
  BY <1>10, <1>11, <1>12, <1>13, <1>14, <1>15, <1>16, <1>17, <1>18, <1>19, <1>20 DEF TuiInv

LEMMA PickStep ==
    ASSUME TuiInv, NEW i \in DOMAIN selects, Pick(i)
    PROVE  TuiInv'
<1>10. TuiTypeOK'
  <2>1. ClientTypeOK'
    BY DEF TuiInv, TuiTypeOK, ClientTypeOK, Pick, clientVars, daemonVars, PumpFree,
       screenVars, sessionVars
  <2> QED
    BY <2>1, TuiAssumption DEF TuiInv, TuiTypeOK, Pick, clientVars, daemonVars, PumpFree,
       screenVars, sessionVars
<1>11. LinkInv'
  BY DEF TuiInv, LinkInv, HasClient, Pick, clientVars, daemonVars, PumpFree, screenVars,
     sessionVars
<1>12. WaitersHaveAReader'
  BY DEF TuiInv, WaitersHaveAReader, LinkInv, Pick, clientVars, daemonVars, PumpFree,
     screenVars, sessionVars
<1>13. ASSUME NEW d \in Callers PROVE AnswerInv(d)'
  BY <1>13 DEF TuiInv, AnswerInv, Pick, clientVars, daemonVars, PumpFree, screenVars,
     sessionVars
<1>14. NoTwins(wire')
  BY DEF TuiInv, Pick, clientVars, daemonVars, PumpFree, screenVars, sessionVars
<1>15. MethodInv'
  BY DEF TuiInv, MethodInv, Pick, clientVars, daemonVars, PumpFree, screenVars, sessionVars
<1>16. TurnsInv'
  BY DEF TuiInv, TurnsInv, Pick, clientVars, daemonVars, PumpFree, screenVars, sessionVars
<1>17. ASSUME NEW q \in Requests PROVE RequestInv(q)'
  BY <1>17 DEF TuiInv, RequestInv, Pick, clientVars, daemonVars, PumpFree, screenVars,
     sessionVars
<1>18. PromptInv'
  BY DEF TuiInv, PromptInv, Pick, clientVars, daemonVars, PumpFree, screenVars, sessionVars
<1>19. BlockInv'
  BY DEF TuiInv, BlockInv, Pick, clientVars, daemonVars, PumpFree, screenVars, sessionVars
<1>20. BusyInv'
  BY DEF TuiInv, BusyInv, Pick, clientVars, daemonVars, PumpFree, screenVars, sessionVars
<1> QED
  BY <1>10, <1>11, <1>12, <1>13, <1>14, <1>15, <1>16, <1>17, <1>18, <1>19, <1>20 DEF TuiInv

LEMMA StartSendStep ==
    ASSUME TuiInv, StartSend
    PROVE  TuiInv'
<1>1. \/ /\ HasClient
         /\ \E a \in {Session, Nothing} : SendCommand(Sender, "send", a)
      \/ ~HasClient /\ UNCHANGED clientVars
  BY DEF StartSend
<1>2. \/ /\ HasClient
         /\ call' \in [Callers -> Commands]
         /\ call'[Sender].method = "send"
         /\ call'[Sender].state \in {"waiting", "oserror", "lost"}
         /\ link = "up" => call'[Sender].state = "waiting"
         /\ call'[Sender].state = "waiting" => link = "up" \/ loop = "reading"
         /\ \A d \in Callers : d # Sender => call'[d] = call[d]
         /\ asked' = (IF link = "up" THEN asked \cup {Sender} ELSE asked)
         /\ conn' = conn /\ link' = link /\ loop' = loop /\ wire' = wire
      \/ ~HasClient /\ UNCHANGED clientVars
  BY <1>1, Sent, Tasks DEF TuiInv, Methods
<1>10. TuiTypeOK'
  <2>1. ClientTypeOK'
    BY <1>2, TuiAssumption DEF TuiInv, TuiTypeOK, ClientTypeOK, StartSend, clientVars,
       daemonVars, HasSession, HasClient, screenVars, sessionVars
  <2>6. /\ blocks' \subseteq Requests /\ mixed' \in BOOLEAN
        /\ selects' \in Seq(Selects) /\ IsInjective(selects')
        /\ decided' \in Seq(Selects) /\ Len(decided') <= MaxPicks
    BY TuiAssumption DEF TuiInv, TuiTypeOK, ClientTypeOK, StartSend, daemonVars, screenVars,
       sessionVars
  <2>7. /\ app' \in {"running", "quitting", "exited"}
        /\ worker' \in {"connecting", "subscribing", "creating", "ready", "sleeping", "dead"}
        /\ prompt' \in {"open", "off", "working", "permission", "closed"}
        /\ inputs' \in 0..MaxInputs /\ busyOn' \in 0..MaxConnections
    BY TuiAssumption DEF TuiInv, TuiTypeOK, ClientTypeOK, StartSend, daemonVars, screenVars,
       sessionVars
  <2>8. starting' \in BOOLEAN /\ busy' \in BOOLEAN
    BY TuiAssumption DEF TuiInv, TuiTypeOK, ClientTypeOK, StartSend, daemonVars, screenVars,
       sessionVars
  <2>9. /\ listening' \in BOOLEAN /\ mute' \in BOOLEAN
        /\ queued' \in 0..MaxInputs
        /\ holder' \in {"nobody", "shut", "turn", "reported", "compaction"}
        /\ request' \in [Requests -> {"new", "open", "denying", "settled", "denied"}]
        /\ replay' \in Requests \cup {Nothing}
    BY TuiAssumption DEF TuiInv, TuiTypeOK, ClientTypeOK, StartSend, daemonVars, screenVars,
       sessionVars
  <2> QED
    BY <2>1, <2>6, <2>7, <2>8, <2>9 DEF TuiTypeOK
<1>11. LinkInv'
  BY <1>2 DEF TuiInv, LinkInv, HasClient, StartSend, clientVars, daemonVars, HasSession,
     screenVars, sessionVars
<1>12. WaitersHaveAReader'
  BY <1>2 DEF TuiInv, WaitersHaveAReader, LinkInv, StartSend, clientVars, daemonVars,
     HasSession, HasClient, screenVars, sessionVars
<1>13. ASSUME NEW d \in Callers PROVE AnswerInv(d)'
  BY <1>2, <1>13 DEF TuiInv, AnswerInv, StartSend, clientVars, daemonVars, HasSession,
     HasClient, MethodInv, screenVars, sessionVars
<1>14. NoTwins(wire')
  BY <1>2 DEF TuiInv, StartSend, clientVars, daemonVars, HasSession, HasClient, screenVars,
     sessionVars
<1>15. MethodInv'
  BY <1>2, Tasks DEF TuiInv, MethodInv, StartSend, clientVars, daemonVars, HasSession,
     HasClient, screenVars, sessionVars
<1>16. TurnsInv'
  BY <1>2 DEF TuiInv, TurnsInv, TuiTypeOK, StartSend, clientVars, daemonVars, HasSession,
     HasClient, screenVars, sessionVars
<1>17. ASSUME NEW q \in Requests PROVE RequestInv(q)'
  BY <1>2, <1>17 DEF TuiInv, RequestInv, StartSend, clientVars, daemonVars, HasSession,
     HasClient, screenVars, sessionVars
<1>18. PromptInv'
  BY <1>2, Tasks DEF TuiInv, PromptInv, StartSend, clientVars, daemonVars, HasSession,
     HasClient, screenVars, sessionVars
<1>19. BlockInv'
  BY <1>2 DEF TuiInv, BlockInv, StartSend, clientVars, daemonVars, HasSession, HasClient,
     screenVars, sessionVars
<1>20. BusyInv'
  BY <1>2 DEF TuiInv, BusyInv, StartSend, clientVars, daemonVars, HasSession, HasClient,
     screenVars, sessionVars
<1> QED
  BY <1>10, <1>11, <1>12, <1>13, <1>14, <1>15, <1>16, <1>17, <1>18, <1>19, <1>20 DEF TuiInv

LEMMA SendReturnsStep ==
    ASSUME TuiInv, SendReturns
    PROVE  TuiInv'
<1>1. /\ call' \in [Callers -> Commands]
      /\ call'[Sender] = Idle
      /\ \A d \in Callers : d # Sender => call'[d] = call[d]
  BY Resumed, Tasks DEF TuiInv, SendReturns
<1>10. TuiTypeOK'
  <2>1. ClientTypeOK'
    BY <1>1 DEF TuiInv, TuiTypeOK, ClientTypeOK, SendReturns, daemonVars, Done, Idle,
       screenVars, sessionVars
  <2>6. /\ blocks' \subseteq Requests /\ mixed' \in BOOLEAN
        /\ selects' \in Seq(Selects) /\ IsInjective(selects')
        /\ decided' \in Seq(Selects) /\ Len(decided') <= MaxPicks
    BY TuiAssumption DEF TuiInv, TuiTypeOK, ClientTypeOK, SendReturns, daemonVars, screenVars,
       sessionVars
  <2>7. /\ app' \in {"running", "quitting", "exited"}
        /\ worker' \in {"connecting", "subscribing", "creating", "ready", "sleeping", "dead"}
        /\ prompt' \in {"open", "off", "working", "permission", "closed"}
        /\ inputs' \in 0..MaxInputs /\ busyOn' \in 0..MaxConnections
    BY TuiAssumption DEF TuiInv, TuiTypeOK, ClientTypeOK, SendReturns, daemonVars, screenVars,
       sessionVars
  <2>8. starting' \in BOOLEAN /\ busy' \in BOOLEAN
    BY TuiAssumption DEF TuiInv, TuiTypeOK, ClientTypeOK, SendReturns, daemonVars, screenVars,
       sessionVars
  <2>9. /\ listening' \in BOOLEAN /\ mute' \in BOOLEAN
        /\ queued' \in 0..MaxInputs
        /\ holder' \in {"nobody", "shut", "turn", "reported", "compaction"}
        /\ request' \in [Requests -> {"new", "open", "denying", "settled", "denied"}]
        /\ replay' \in Requests \cup {Nothing}
    BY TuiAssumption DEF TuiInv, TuiTypeOK, ClientTypeOK, SendReturns, daemonVars, screenVars,
       sessionVars
  <2> QED
    BY <2>1, <2>6, <2>7, <2>8, <2>9 DEF TuiTypeOK
<1>11. LinkInv'
  BY <1>1 DEF TuiInv, LinkInv, HasClient, SendReturns, daemonVars, Done, Idle, screenVars,
     sessionVars
<1>12. WaitersHaveAReader'
  BY <1>1 DEF TuiInv, WaitersHaveAReader, LinkInv, SendReturns, daemonVars, Done, Idle,
     screenVars, sessionVars
<1>13. ASSUME NEW d \in Callers PROVE AnswerInv(d)'
  BY <1>1, <1>13 DEF TuiInv, AnswerInv, SendReturns, daemonVars, Done, Idle, screenVars,
     sessionVars
<1>14. NoTwins(wire')
  BY <1>1 DEF TuiInv, SendReturns, daemonVars, Done, Idle, screenVars, sessionVars
<1>15. MethodInv'
  BY <1>1, Tasks DEF TuiInv, MethodInv, SendReturns, daemonVars, Done, Idle, screenVars,
     sessionVars
<1>16. TurnsInv'
  BY <1>1 DEF TuiInv, TurnsInv, SendReturns, daemonVars, Done, Idle, screenVars, sessionVars
<1>17. ASSUME NEW q \in Requests PROVE RequestInv(q)'
  BY <1>1, <1>17 DEF TuiInv, RequestInv, SendReturns, daemonVars, Done, Idle, screenVars,
     sessionVars
<1>18. PromptInv'
  BY <1>1, Tasks DEF TuiInv, PromptInv, SendReturns, daemonVars, Done, Idle, screenVars,
     sessionVars
<1>19. BlockInv'
  BY <1>1 DEF TuiInv, BlockInv, SendReturns, daemonVars, Done, Idle, screenVars, sessionVars
<1>20. BusyInv'
  BY <1>1 DEF TuiInv, BusyInv, SendReturns, daemonVars, Done, Idle, screenVars, sessionVars
<1> QED
  BY <1>10, <1>11, <1>12, <1>13, <1>14, <1>15, <1>16, <1>17, <1>18, <1>19, <1>20 DEF TuiInv

LEMMA CompactReturnsStep ==
    ASSUME TuiInv, CompactReturns
    PROVE  TuiInv'
<1>1. /\ call' \in [Callers -> Commands]
      /\ call'[Compactor] = Idle
      /\ \A d \in Callers : d # Compactor => call'[d] = call[d]
  BY Resumed, Tasks DEF TuiInv, CompactReturns
<1>10. TuiTypeOK'
  <2>1. ClientTypeOK'
    BY <1>1 DEF TuiInv, TuiTypeOK, ClientTypeOK, CompactReturns, uiVars, daemonVars, Done,
       Idle, screenVars, sessionVars
  <2> QED
    BY <1>1, <2>1 DEF TuiInv, TuiTypeOK, CompactReturns, uiVars, daemonVars, Done, Idle,
       screenVars, sessionVars
<1>11. LinkInv'
  BY <1>1 DEF TuiInv, LinkInv, HasClient, CompactReturns, uiVars, daemonVars, Done, Idle,
     screenVars, sessionVars
<1>12. WaitersHaveAReader'
  BY <1>1 DEF TuiInv, WaitersHaveAReader, LinkInv, CompactReturns, uiVars, daemonVars, Done,
     Idle, screenVars, sessionVars
<1>13. ASSUME NEW d \in Callers PROVE AnswerInv(d)'
  BY <1>1, <1>13 DEF TuiInv, AnswerInv, CompactReturns, uiVars, daemonVars, Done, Idle,
     screenVars, sessionVars
<1>14. NoTwins(wire')
  BY <1>1 DEF TuiInv, CompactReturns, uiVars, daemonVars, Done, Idle, screenVars, sessionVars
<1>15. MethodInv'
  BY <1>1, Tasks DEF TuiInv, MethodInv, CompactReturns, uiVars, daemonVars, Done, Idle,
     screenVars, sessionVars
<1>16. TurnsInv'
  BY <1>1 DEF TuiInv, TurnsInv, CompactReturns, uiVars, daemonVars, Done, Idle, screenVars,
     sessionVars
<1>17. ASSUME NEW q \in Requests PROVE RequestInv(q)'
  BY <1>1, <1>17 DEF TuiInv, RequestInv, CompactReturns, uiVars, daemonVars, Done, Idle,
     screenVars, sessionVars
<1>18. PromptInv'
  BY <1>1, Tasks DEF TuiInv, PromptInv, CompactReturns, uiVars, daemonVars, Done, Idle,
     screenVars, sessionVars
<1>19. BlockInv'
  BY <1>1 DEF TuiInv, BlockInv, CompactReturns, uiVars, daemonVars, Done, Idle, screenVars,
     sessionVars
<1>20. BusyInv'
  BY <1>1, Tasks DEF TuiInv, BusyInv, CompactReturns, uiVars, daemonVars, Done, Idle,
     screenVars, sessionVars
<1> QED
  BY <1>10, <1>11, <1>12, <1>13, <1>14, <1>15, <1>16, <1>17, <1>18, <1>19, <1>20 DEF TuiInv

LEMMA CreatedStep ==
    ASSUME TuiInv, Created
    PROVE  TuiInv'
<1>1. /\ call' \in [Callers -> Commands]
      /\ call'[Worker] = Idle
      /\ \A d \in Callers : d # Worker => call'[d] = call[d]
  BY Resumed, Tasks DEF TuiInv, Created
<1>10. TuiTypeOK'
  <2>1. ClientTypeOK'
    BY <1>1 DEF TuiInv, TuiTypeOK, ClientTypeOK, Created, daemonVars, Idle, screenVars,
       sessionVars
  <2> QED
    BY <1>1, <2>1 DEF TuiInv, TuiTypeOK, Created, daemonVars, Idle, screenVars, sessionVars
<1>11. LinkInv'
  BY <1>1 DEF TuiInv, LinkInv, HasClient, Created, daemonVars, Idle, screenVars, sessionVars
<1>12. WaitersHaveAReader'
  BY <1>1 DEF TuiInv, WaitersHaveAReader, LinkInv, Created, daemonVars, Idle, screenVars,
     sessionVars
<1>13. ASSUME NEW d \in Callers PROVE AnswerInv(d)'
  BY <1>1, <1>13 DEF TuiInv, AnswerInv, Created, daemonVars, Idle, screenVars, sessionVars
<1>14. NoTwins(wire')
  BY <1>1 DEF TuiInv, Created, daemonVars, Idle, screenVars, sessionVars
<1>15. MethodInv'
  BY <1>1, Tasks DEF TuiInv, MethodInv, Created, daemonVars, Idle, Nothing, screenVars,
     sessionVars
<1>16. TurnsInv'
  BY <1>1 DEF TuiInv, TurnsInv, Created, daemonVars, Idle, screenVars, sessionVars
<1>17. ASSUME NEW q \in Requests PROVE RequestInv(q)'
  BY <1>1, <1>17 DEF TuiInv, RequestInv, Created, daemonVars, Idle, screenVars, sessionVars
<1>18. PromptInv'
  BY <1>1 DEF TuiInv, PromptInv, Created, daemonVars, Idle, screenVars, sessionVars
<1>19. BlockInv'
  BY <1>1 DEF TuiInv, BlockInv, Created, daemonVars, Idle, screenVars, sessionVars
<1>20. BusyInv'
  BY <1>1 DEF TuiInv, BusyInv, Created, daemonVars, Idle, screenVars, sessionVars
<1> QED
  BY <1>10, <1>11, <1>12, <1>13, <1>14, <1>15, <1>16, <1>17, <1>18, <1>19, <1>20 DEF TuiInv

LEMMA SubscribedStep ==
    ASSUME TuiInv, Subscribed
    PROVE  TuiInv'
<1>1. /\ call' \in [Callers -> Commands]
      /\ call'[Worker].method = "create"
      /\ call'[Worker].state \in {"waiting", "oserror", "lost"}
      /\ link = "up" => call'[Worker].state = "waiting"
      /\ call'[Worker].state = "waiting" => link = "up" \/ loop = "reading"
      /\ \A d \in Callers : d # Worker => call'[d] = call[d]
      /\ asked' = (IF link = "up" THEN asked \cup {Worker} ELSE asked)
      /\ conn' = conn /\ link' = link /\ loop' = loop /\ wire' = wire
  <2>1. SendCommand(Worker, "create", Nothing)
    BY DEF Subscribed
  <2> QED
    BY <2>1, Sent, Tasks DEF TuiInv, Methods
<1>10. TuiTypeOK'
  <2>1. ClientTypeOK'
    BY <1>1 DEF TuiInv, TuiTypeOK, ClientTypeOK, Subscribed, daemonVars, screenVars, sessionVars
  <2> QED
    BY <1>1, <2>1 DEF TuiInv, TuiTypeOK, Subscribed, daemonVars, screenVars, sessionVars
<1>11. LinkInv'
  BY <1>1 DEF TuiInv, LinkInv, HasClient, Subscribed, daemonVars, screenVars, sessionVars
<1>12. WaitersHaveAReader'
  BY <1>1 DEF TuiInv, WaitersHaveAReader, LinkInv, Subscribed, daemonVars, screenVars,
     sessionVars
<1>13. ASSUME NEW d \in Callers PROVE AnswerInv(d)'
  BY <1>1, <1>13 DEF TuiInv, AnswerInv, Subscribed, daemonVars, screenVars, sessionVars
<1>14. NoTwins(wire')
  BY <1>1 DEF TuiInv, Subscribed, daemonVars, screenVars, sessionVars
<1>15. MethodInv'
  BY <1>1, Tasks DEF TuiInv, MethodInv, Subscribed, daemonVars, screenVars, sessionVars
<1>16. TurnsInv'
  BY <1>1, Tasks DEF TuiInv, TurnsInv, Subscribed, daemonVars, screenVars, sessionVars
<1>17. ASSUME NEW q \in Requests PROVE RequestInv(q)'
  BY <1>1, <1>17 DEF TuiInv, RequestInv, Subscribed, daemonVars, screenVars, sessionVars
<1>18. PromptInv'
  BY <1>1, Tasks DEF TuiInv, PromptInv, Subscribed, daemonVars, screenVars, sessionVars
<1>19. BlockInv'
  BY <1>1 DEF TuiInv, BlockInv, Subscribed, daemonVars, screenVars, sessionVars
<1>20. BusyInv'
  BY <1>1 DEF TuiInv, BusyInv, Subscribed, daemonVars, screenVars, sessionVars
<1> QED
  BY <1>10, <1>11, <1>12, <1>13, <1>14, <1>15, <1>16, <1>17, <1>18, <1>19, <1>20 DEF TuiInv

LEMMA CompactStep ==
    ASSUME TuiInv, Compact
    PROVE  TuiInv'
<1>1. /\ call' \in [Callers -> Commands]
      /\ call'[Compactor].method = "compact"
      /\ call'[Compactor].state \in {"waiting", "oserror", "lost"}
      /\ link = "up" => call'[Compactor].state = "waiting"
      /\ call'[Compactor].state = "waiting" => link = "up" \/ loop = "reading"
      /\ \A d \in Callers : d # Compactor => call'[d] = call[d]
      /\ asked' = (IF link = "up" THEN asked \cup {Compactor} ELSE asked)
      /\ conn' = conn /\ link' = link /\ loop' = loop /\ wire' = wire
  <2>1. SendCommand(Compactor, "compact", Nothing)
    BY DEF Compact
  <2> QED
    BY <2>1, Sent, Tasks DEF TuiInv, Methods
<1>10. TuiTypeOK'
  <2>1. ClientTypeOK'
    BY <1>1 DEF TuiInv, TuiTypeOK, ClientTypeOK, Compact, daemonVars, PumpFree, screenVars,
       sessionVars
  <2> QED
    BY <1>1, <2>1, TuiAssumption DEF TuiInv, TuiTypeOK, Compact, daemonVars, PumpFree,
       screenVars, sessionVars
<1>11. LinkInv'
  BY <1>1 DEF TuiInv, LinkInv, HasClient, Compact, daemonVars, PumpFree, screenVars, sessionVars
<1>12. WaitersHaveAReader'
  BY <1>1 DEF TuiInv, WaitersHaveAReader, LinkInv, Compact, daemonVars, PumpFree, screenVars,
     sessionVars
<1>13. ASSUME NEW d \in Callers PROVE AnswerInv(d)'
  BY <1>1, <1>13 DEF TuiInv, AnswerInv, Compact, daemonVars, PumpFree, screenVars, sessionVars
<1>14. NoTwins(wire')
  BY <1>1 DEF TuiInv, Compact, daemonVars, PumpFree, screenVars, sessionVars
<1>15. MethodInv'
  BY <1>1, Tasks DEF TuiInv, MethodInv, Compact, daemonVars, PumpFree, screenVars, sessionVars
<1>16. TurnsInv'
  BY <1>1 DEF TuiInv, TurnsInv, TuiTypeOK, Compact, daemonVars, PumpFree, screenVars,
     sessionVars
<1>17. ASSUME NEW q \in Requests PROVE RequestInv(q)'
  BY <1>1, <1>17 DEF TuiInv, RequestInv, Compact, daemonVars, PumpFree, screenVars, sessionVars
<1>18. PromptInv'
  BY <1>1 DEF TuiInv, PromptInv, Compact, daemonVars, PumpFree, screenVars, sessionVars
<1>19. BlockInv'
  BY <1>1 DEF TuiInv, BlockInv, Compact, daemonVars, PumpFree, screenVars, sessionVars
<1>20. BusyInv'
  BY <1>1 DEF TuiInv, BusyInv, Compact, daemonVars, PumpFree, screenVars, sessionVars
<1> QED
  BY <1>10, <1>11, <1>12, <1>13, <1>14, <1>15, <1>16, <1>17, <1>18, <1>19, <1>20 DEF TuiInv

LEMMA ConnectStep ==
    ASSUME TuiInv, Connect
    PROVE  TuiInv'
<1>1. /\ call' \in [Callers -> Commands]
      /\ call'[Worker].state = "waiting" /\ call'[Worker].method = "subscribe"
      /\ \A d \in Callers : d # Worker => call'[d] = call[d]
      /\ asked' = {Worker} /\ wire' = <<>> /\ wire' \in Seq(Lines)
      /\ \A d : ~AnswerIn(wire', d) /\ ~AskIn(wire', d)
      /\ NoTwins(wire')
  <2>1. [state |-> "waiting", method |-> "subscribe", arg |-> Nothing] \in Commands
    BY DEF Commands, CallStates, Methods
  <2> QED
    BY <2>1, NoLine, Tasks DEF TuiInv, TuiTypeOK, ClientTypeOK, Connect, Open, screenVars,
       sessionVars, NoSession
<1>2. conn \in Nat /\ conn' = conn + 1 /\ \A s \in ToSet(selects) : s.on \in Nat /\ s.on <= conn
  <2>1. \A s \in ToSet(selects) : s \in Selects
    BY DEF TuiInv, TuiTypeOK, ToSet
  <2> QED
    BY <2>1, TuiAssumption DEF TuiInv, TuiTypeOK, ClientTypeOK, LinkInv, Selects, Connect, Open
<1>3. selects' = selects /\ busyOn' = busyOn /\ busyOn \in Nat
  BY TuiAssumption DEF TuiInv, TuiTypeOK, Connect, screenVars
<1>10. TuiTypeOK'
  <2>1. ClientTypeOK'
    BY <1>1, TuiAssumption DEF TuiInv, TuiTypeOK, ClientTypeOK, Connect, Open, screenVars,
       sessionVars, NoSession
  <2>5. /\ queued' = 0 /\ holder' = "nobody"
        /\ UNCHANGED <<request, replay>>
    BY DEF Connect, NoSession
  <2>6. /\ blocks' \subseteq Requests /\ mixed' \in BOOLEAN
        /\ selects' \in Seq(Selects) /\ IsInjective(selects')
        /\ decided' \in Seq(Selects) /\ Len(decided') <= MaxPicks
    BY TuiAssumption DEF TuiInv, TuiTypeOK, ClientTypeOK, Connect, Open, screenVars, NoSession
  <2>7. /\ app' \in {"running", "quitting", "exited"}
        /\ worker' \in {"connecting", "subscribing", "creating", "ready", "sleeping", "dead"}
        /\ prompt' \in {"open", "off", "working", "permission", "closed"}
        /\ inputs' \in 0..MaxInputs /\ busyOn' \in 0..MaxConnections
    BY TuiAssumption DEF TuiInv, TuiTypeOK, ClientTypeOK, Connect, Open, screenVars, NoSession
  <2>8. starting' \in BOOLEAN /\ busy' \in BOOLEAN
    BY TuiAssumption DEF TuiInv, TuiTypeOK, ClientTypeOK, Connect, Open, screenVars, NoSession
  <2>9. /\ queued' \in 0..MaxInputs
        /\ holder' \in {"nobody", "shut", "turn", "reported", "compaction"}
        /\ request' \in [Requests -> {"new", "open", "denying", "settled", "denied"}]
        /\ replay' \in Requests \cup {Nothing}
    BY <2>5, TuiAssumption DEF TuiInv, TuiTypeOK
  <2>10. listening' \in BOOLEAN /\ mute' \in BOOLEAN
    BY DEF Connect, NoSession
  <2> QED
    BY <2>1, <2>6, <2>7, <2>8, <2>9, <2>10 DEF TuiTypeOK
<1>11. LinkInv'
  BY <1>1, <1>2, <1>3 DEF TuiInv, LinkInv, HasClient, Connect, Open
<1>12. WaitersHaveAReader'
  BY <1>1 DEF TuiInv, WaitersHaveAReader, LinkInv, Connect, HasClient, Open, screenVars,
     sessionVars, NoSession
<1>13. ASSUME NEW d \in Callers PROVE AnswerInv(d)'
  BY <1>1, <1>13 DEF TuiInv, AnswerInv, Connect, Open, screenVars, sessionVars, NoSession
<1>14. NoTwins(wire')
  BY <1>1 DEF TuiInv, Connect, Open, screenVars, sessionVars, NoSession
<1>15. MethodInv'
  BY <1>1, Tasks DEF TuiInv, MethodInv, Connect, Open, screenVars, sessionVars, NoSession
<1>16. TurnsInv'
  BY <1>1, Tasks DEF TuiInv, TurnsInv, TuiTypeOK, Connect, Open, screenVars, sessionVars,
     NoSession
<1>17. ASSUME NEW q \in Requests PROVE RequestInv(q)'
  BY <1>1, <1>2, <1>3, <1>17 DEF RequestInv
<1>18. PromptInv'
  BY <1>1 DEF TuiInv, PromptInv, Connect, Open, screenVars, sessionVars, NoSession
<1>19. BlockInv'
  BY <1>1 DEF TuiInv, BlockInv, Connect, Open, screenVars, sessionVars, NoSession
<1>20. BusyInv'
  BY <1>1 DEF TuiInv, BusyInv, Connect, HasClient, Open, LinkInv, TuiTypeOK, ClientTypeOK,
     screenVars, sessionVars, NoSession
<1> QED
  BY <1>10, <1>11, <1>12, <1>13, <1>14, <1>15, <1>16, <1>17, <1>18, <1>19, <1>20 DEF TuiInv

\* The connection is given up.
LEMMA DisconnectStep ==
    ASSUME TuiInv, NEW next \in {"sleeping", "dead"}, Disconnect(next)
    PROVE  TuiInv'
<1>1. /\ call' \in [Callers -> Commands]
      /\ call'[Worker] = Idle
      /\ \A c \in Callers : c # Worker =>
            /\ call'[c].method = call[c].method /\ call'[c].arg = call[c].arg
            /\ call'[c].state = IF call[c].state = "waiting" THEN "cancelled" ELSE call[c].state
      /\ link' = "none" /\ loop' = "off" /\ asked' = {} /\ wire' = <<>>
      /\ wire' \in Seq(Lines) /\ NoTwins(wire')
      /\ \A d : ~AnswerIn(wire', d) /\ ~AskIn(wire', d)
  BY DroppedLine, NoLine, Tasks DEF TuiInv, Given
<1>10. TuiTypeOK'
  <2>1. ClientTypeOK'
    BY <1>1 DEF TuiInv, TuiTypeOK, ClientTypeOK, Disconnect, Idle, screenVars, sessionVars,
       NoSession
  <2>5. /\ queued' = 0 /\ holder' = "nobody"
        /\ UNCHANGED <<request, replay>>
    BY DEF Disconnect, NoSession
  <2>6. /\ blocks' \subseteq Requests /\ mixed' \in BOOLEAN
        /\ selects' \in Seq(Selects) /\ IsInjective(selects')
        /\ decided' \in Seq(Selects) /\ Len(decided') <= MaxPicks
    BY TuiAssumption DEF TuiInv, TuiTypeOK, ClientTypeOK, Disconnect, screenVars, NoSession
  <2>7. /\ app' \in {"running", "quitting", "exited"}
        /\ worker' \in {"connecting", "subscribing", "creating", "ready", "sleeping", "dead"}
        /\ prompt' \in {"open", "off", "working", "permission", "closed"}
        /\ inputs' \in 0..MaxInputs /\ busyOn' \in 0..MaxConnections
    BY TuiAssumption DEF TuiInv, TuiTypeOK, ClientTypeOK, Disconnect, screenVars, NoSession
  <2>8. starting' \in BOOLEAN /\ busy' \in BOOLEAN
    BY TuiAssumption DEF TuiInv, TuiTypeOK, ClientTypeOK, Disconnect, screenVars, NoSession
  <2>9. /\ queued' \in 0..MaxInputs
        /\ holder' \in {"nobody", "shut", "turn", "reported", "compaction"}
        /\ request' \in [Requests -> {"new", "open", "denying", "settled", "denied"}]
        /\ replay' \in Requests \cup {Nothing}
    BY <2>5, TuiAssumption DEF TuiInv, TuiTypeOK
  <2>10. listening' \in BOOLEAN /\ mute' \in BOOLEAN
    BY DEF Disconnect, NoSession
  <2> QED
    BY <2>1, <2>6, <2>7, <2>8, <2>9, <2>10 DEF TuiTypeOK
<1>11. LinkInv'
  BY <1>1 DEF TuiInv, LinkInv, HasClient, Disconnect, Idle, screenVars, sessionVars, NoSession
<1>12. WaitersHaveAReader'
  BY <1>1 DEF TuiInv, WaitersHaveAReader, LinkInv, Disconnect, HasClient, Idle, screenVars,
     sessionVars, NoSession
<1>13. ASSUME NEW d \in Callers PROVE AnswerInv(d)'
  BY <1>1, <1>13 DEF TuiInv, AnswerInv, Disconnect, Idle, screenVars, sessionVars, NoSession
<1>14. NoTwins(wire')
  BY <1>1 DEF TuiInv, Disconnect, Idle, screenVars, sessionVars, NoSession
<1>15. MethodInv'
  BY <1>1, Tasks DEF TuiInv, MethodInv, Disconnect, Idle, screenVars, sessionVars, NoSession
<1>16. TurnsInv'
  BY <1>1 DEF TuiInv, TurnsInv, TuiTypeOK, Disconnect, Idle, screenVars, sessionVars, NoSession
<1>17. ASSUME NEW q \in Requests PROVE RequestInv(q)'
  BY <1>1, <1>17 DEF TuiInv, RequestInv, Disconnect, Idle, screenVars, sessionVars, NoSession
<1>18. PromptInv'
  BY <1>1 DEF TuiInv, PromptInv, Disconnect, Idle, screenVars, sessionVars, NoSession
<1>19. BlockInv'
  BY <1>1 DEF TuiInv, BlockInv, Disconnect, Idle, screenVars, sessionVars, NoSession
<1>20. BusyInv'
  BY <1>1 DEF TuiInv, BusyInv, Disconnect, Idle, screenVars, sessionVars, NoSession
<1> QED
  BY <1>10, <1>11, <1>12, <1>13, <1>14, <1>15, <1>16, <1>17, <1>18, <1>19, <1>20 DEF TuiInv

LEMMA HandshakeFailsStep ==
    ASSUME TuiInv, HandshakeFails
    PROVE  TuiInv'
  BY DisconnectStep DEF HandshakeFails

LEMMA LoopEndedStep ==
    ASSUME TuiInv, LoopEnded
    PROVE  TuiInv'
  BY DisconnectStep DEF LoopEnded

LEMMA EndOfStreamStep ==
    ASSUME TuiInv, EndOfStream
    PROVE  TuiInv'
<1>1. /\ call' \in [Callers -> Commands]
      /\ \A c \in Callers :
            /\ call'[c].method = call[c].method /\ call'[c].arg = call[c].arg
            /\ call'[c].state = IF call[c].state = "waiting" THEN "cancelled" ELSE call[c].state
      /\ link = "broken" /\ wire = <<>> /\ loop' = "ended"
      /\ \A d : ~AnswerIn(wire, d) /\ ~AskIn(wire, d)
  BY Cancelled, NoLine DEF TuiInv, Given, EndOfStream, StreamEnds
<1>10. TuiTypeOK'
  <2>1. ClientTypeOK'
    BY <1>1 DEF TuiInv, TuiTypeOK, ClientTypeOK, EndOfStream, uiVars, daemonVars, StreamEnds,
       screenVars, sessionVars
  <2> QED
    BY <1>1, <2>1 DEF TuiInv, TuiTypeOK, EndOfStream, uiVars, daemonVars, StreamEnds,
       screenVars, sessionVars
<1>11. LinkInv'
  BY <1>1 DEF TuiInv, LinkInv, HasClient, EndOfStream, uiVars, daemonVars, StreamEnds,
     screenVars, sessionVars
<1>12. WaitersHaveAReader'
  BY <1>1 DEF TuiInv, WaitersHaveAReader, LinkInv, EndOfStream, uiVars, daemonVars, HasClient,
     StreamEnds, screenVars, sessionVars
<1>13. ASSUME NEW d \in Callers PROVE AnswerInv(d)'
  BY <1>1, <1>13 DEF TuiInv, AnswerInv, EndOfStream, uiVars, daemonVars, HasClient,
     StreamEnds, LinkInv, screenVars, sessionVars
<1>14. NoTwins(wire')
  BY <1>1 DEF TuiInv, EndOfStream, uiVars, daemonVars, StreamEnds, screenVars, sessionVars
<1>15. MethodInv'
  BY <1>1, Tasks DEF TuiInv, MethodInv, EndOfStream, uiVars, daemonVars, StreamEnds,
     screenVars, sessionVars
<1>16. TurnsInv'
  BY <1>1 DEF TuiInv, TurnsInv, EndOfStream, uiVars, daemonVars, StreamEnds, screenVars,
     sessionVars
<1>17. ASSUME NEW q \in Requests PROVE RequestInv(q)'
  BY <1>1, <1>17 DEF TuiInv, RequestInv, EndOfStream, uiVars, daemonVars, StreamEnds,
     screenVars, sessionVars
<1>18. PromptInv'
  BY <1>1, Tasks DEF TuiInv, PromptInv, EndOfStream, uiVars, daemonVars, StreamEnds,
     screenVars, sessionVars
<1>19. BlockInv'
  BY <1>1 DEF TuiInv, BlockInv, EndOfStream, uiVars, daemonVars, StreamEnds, screenVars,
     sessionVars
<1>20. BusyInv'
  BY <1>1 DEF TuiInv, BusyInv, EndOfStream, uiVars, daemonVars, StreamEnds, screenVars,
     sessionVars
<1> QED
  BY <1>10, <1>11, <1>12, <1>13, <1>14, <1>15, <1>16, <1>17, <1>18, <1>19, <1>20 DEF TuiInv

\* The end of the process.
LEMMA GoneStep ==
    ASSUME TuiInv, Gone
    PROVE  TuiInv'
<1>1. /\ call' \in [Callers -> Commands]
      /\ \A c \in Callers : call'[c] = Idle
      /\ asked' = {} /\ wire' = <<>> /\ link' = "none" /\ loop' = "off"
      /\ wire' \in Seq(Lines) /\ NoTwins(wire')
      /\ \A d : ~AnswerIn(wire', d) /\ ~AskIn(wire', d)
  <2>1. Idle \in Commands
    BY DEF Idle, Commands, CallStates
  <2> QED
    BY <2>1, NoLine DEF Gone, Close, screenVars, sessionVars, NoSession
<1>2. selects' = <<>> /\ selects' \in Seq(Selects) /\ IsInjective(selects') /\ ToSet(selects') = {}
  BY DEF Gone, IsInjective, ToSet, screenVars, sessionVars, NoSession
<1>3. decided' \in Seq(Selects) /\ Len(decided') = 0
  BY DEF Gone, screenVars, sessionVars, NoSession
<1>10. TuiTypeOK'
  <2>1. ClientTypeOK'
    BY <1>1, TuiAssumption DEF ClientTypeOK, Gone, screenVars, sessionVars, NoSession
  <2>2. request' \in [Requests -> {"new", "open", "denying", "settled", "denied"}]
    BY DEF Gone
  <2>3. /\ busyOn' = 0 /\ inputs' = 0 /\ queued' = 0 /\ holder' = "nobody"
        /\ blocks' = {} /\ app' = "exited" /\ worker' = "dead" /\ prompt' = "off"
        /\ starting' \in BOOLEAN /\ busy' \in BOOLEAN /\ mixed' \in BOOLEAN
        /\ listening' \in BOOLEAN /\ mute' \in BOOLEAN /\ replay' = Nothing
    BY DEF Gone, NoSession
  <2> QED
    BY <1>2, <1>3, <2>1, <2>2, <2>3, TuiAssumption DEF TuiTypeOK
<1>11. LinkInv'
  BY <1>1, <1>2, <1>3 DEF TuiInv, LinkInv, HasClient, Gone, Idle, Close, screenVars,
     sessionVars, NoSession
<1>12. WaitersHaveAReader'
  BY <1>1, <1>2, <1>3 DEF TuiInv, WaitersHaveAReader, LinkInv, Gone, HasClient, Idle, Close,
     screenVars, sessionVars, NoSession
<1>13. ASSUME NEW d \in Callers PROVE AnswerInv(d)'
  BY <1>1, <1>2, <1>3, <1>13 DEF TuiInv, AnswerInv, Gone, Idle, Close, screenVars,
     sessionVars, NoSession
<1>14. NoTwins(wire')
  BY <1>1, <1>2, <1>3 DEF TuiInv, Gone, Idle, Close, screenVars, sessionVars, NoSession
<1>15. MethodInv'
  BY <1>1, <1>2, <1>3, Tasks DEF TuiInv, MethodInv, Gone, Idle, Close, screenVars,
     sessionVars, NoSession
<1>16. TurnsInv'
  BY <1>1, <1>2, <1>3 DEF TuiInv, TurnsInv, Gone, Idle, Close, screenVars, sessionVars,
     NoSession
<1>17. ASSUME NEW q \in Requests PROVE RequestInv(q)'
  BY <1>1, <1>2, <1>3, <1>17 DEF TuiInv, RequestInv, Gone, Idle, Close, screenVars,
     sessionVars, NoSession
<1>18. PromptInv'
  BY <1>1, <1>2, <1>3 DEF TuiInv, PromptInv, Gone, Idle, Close, screenVars, sessionVars,
     NoSession
<1>19. BlockInv'
  BY <1>1, <1>2, <1>3 DEF TuiInv, BlockInv, Gone, Idle, Close, screenVars, sessionVars,
     NoSession
<1>20. BusyInv'
  BY <1>1, <1>2, <1>3 DEF TuiInv, BusyInv, Gone, Idle, Close, screenVars, sessionVars, NoSession
<1> QED
  BY <1>10, <1>11, <1>12, <1>13, <1>14, <1>15, <1>16, <1>17, <1>18, <1>19, <1>20 DEF TuiInv

LEMMA CloseReturnsStep ==
    ASSUME TuiInv, CloseReturns
    PROVE  TuiInv'
  BY GoneStep DEF CloseReturns

LEMMA DecideStep ==
    ASSUME TuiInv, Decide
    PROVE  TuiInv'
<1> DEFINE s == Head(decided)
           p == s.id
<1>1. /\ decided # <<>> /\ s \in Selects /\ Tail(decided) \in Seq(Selects)
      /\ p \in Requests
      /\ Len(Tail(decided)) = Len(decided) - 1 /\ Len(decided) \in Nat
  <2>1. decided # <<>> /\ decided \in Seq(Selects)
    BY DEF TuiInv, TuiTypeOK, Decide
  <2>2. s \in Selects
    BY <2>1
  <2> QED
    BY <2>1, <2>2 DEF Selects
<1>2. /\ selects' \in Seq(Selects) /\ IsInjective(selects')
      /\ ToSet(selects') = ToSet(selects) \ {s}
  BY SelectTakenOff DEF TuiInv, TuiTypeOK, Decide
<1>3. /\ blocks' = blocks \ {p} /\ (mixed' <=> mixed /\ blocks' # {})
      /\ mixed' \in BOOLEAN
      /\ call[Pump].state = "none"
      /\ \/ /\ HasClient
            /\ prompt' = prompt /\ decided' = decided
            /\ call' \in [Callers -> Commands]
            /\ call'[Pump].method = "respond" /\ call'[Pump].arg = p
            /\ call'[Pump].state \in {"waiting", "oserror", "lost"}
            /\ link = "up" => call'[Pump].state = "waiting"
            /\ call'[Pump].state = "waiting" => link = "up" \/ loop = "reading"
            /\ \A d \in Callers : d # Pump => call'[d] = call[d]
            /\ asked' = (IF link = "up" THEN asked \cup {Pump} ELSE asked)
            /\ conn' = conn /\ link' = link /\ loop' = loop /\ wire' = wire
         \/ /\ UNCHANGED clientVars /\ decided' = Tail(decided)
            /\ prompt' = IF blocks' = {} THEN "open" ELSE prompt
  <2>1. CASE HasClient
    <3>1. SendCommand(Pump, "respond", p) /\ UNCHANGED <<prompt, decided>>
      BY <2>1 DEF Decide
    <3> QED
      BY <1>1, <2>1, <3>1, Sent, Tasks DEF TuiInv, Methods, Decide, PumpFree, Unblock
  <2>2. CASE ~HasClient
    BY <2>2 DEF Decide, PumpFree, Reopen, Unblock
  <2> QED
    BY <2>1, <2>2
<1>4. UNCHANGED <<daemonVars, app, worker, starting, busy, busyOn, inputs>>
  BY DEF Decide
<1> HIDE DEF p, s
<1>10. TuiTypeOK'
  <2>1. ClientTypeOK'
    BY <1>3 DEF TuiInv, TuiTypeOK, ClientTypeOK, clientVars, screenVars, sessionVars
  <2>2. decided' = decided \/ decided' = Tail(decided)
    BY <1>3
  <2>3. decided' \in Seq(Selects) /\ Len(decided') <= MaxPicks
    <3>1. /\ decided \in Seq(Selects) /\ Len(decided) <= MaxPicks /\ MaxPicks \in Nat
          /\ Tail(decided) \in Seq(Selects) /\ Len(Tail(decided)) = Len(decided) - 1
          /\ Len(decided) \in Nat
      BY <1>1, TuiAssumption DEF TuiInv, TuiTypeOK
    <3>2. CASE decided' = decided
      BY <3>1, <3>2
    <3>3. CASE decided' = Tail(decided)
      <4> DEFINE t == Tail(decided)
      <4> HIDE DEF t
      <4>1. decided' = t /\ t \in Seq(Selects) /\ Len(t) = Len(decided) - 1
        BY <3>1, <3>3 DEF t
      <4> QED
        BY <3>1, <4>1
    <3> QED
      BY <2>2, <3>2, <3>3
  <2>4. prompt' = prompt \/ prompt' = "open"
    BY <1>3
  <2>5. blocks' \subseteq Requests
    BY <1>3 DEF TuiInv, TuiTypeOK
  <2> QED
    BY <1>2, <1>3, <1>4, <2>1, <2>3, <2>4, <2>5 DEF TuiInv, TuiTypeOK, daemonVars, sessionVars
<1>11. LinkInv'
  BY <1>1, <1>2, <1>3, <1>4 DEF TuiInv, LinkInv, HasClient, clientVars, daemonVars,
     screenVars, sessionVars
<1>12. WaitersHaveAReader'
  BY <1>1, <1>2, <1>3, <1>4 DEF TuiInv, WaitersHaveAReader, LinkInv, clientVars, daemonVars,
     screenVars, sessionVars
<1>13. ASSUME NEW d \in Callers PROVE AnswerInv(d)'
  BY <1>1, <1>2, <1>3, <1>4, <1>13 DEF TuiInv, AnswerInv, clientVars, daemonVars, screenVars,
     sessionVars
<1>14. NoTwins(wire')
  BY <1>1, <1>2, <1>3, <1>4 DEF TuiInv, clientVars, daemonVars, screenVars, sessionVars
<1>15. MethodInv'
  BY <1>1, <1>2, <1>3, <1>4, Tasks DEF TuiInv, MethodInv, clientVars, daemonVars, screenVars,
     sessionVars
<1>16. TurnsInv'
  BY <1>1, <1>2, <1>3, <1>4, Tasks DEF TuiInv, TurnsInv, clientVars, daemonVars, screenVars,
     sessionVars
<1>17. ASSUME NEW q \in Requests PROVE RequestInv(q)'
  BY <1>1, <1>2, <1>3, <1>4, <1>17 DEF TuiInv, RequestInv, clientVars, daemonVars, screenVars,
     sessionVars
<1>18. PromptInv'
  BY <1>1, <1>2, <1>3, <1>4 DEF TuiInv, PromptInv, clientVars, daemonVars, screenVars,
     sessionVars
<1>19. BlockInv'
  <2>1. \A q \in blocks' : \A x \in ToSet(selects) : x.id = q => x \in ToSet(selects')
    BY <1>2, <1>3 DEF p
  <2> QED
    BY <1>2, <1>3, <2>1 DEF TuiInv, BlockInv
<1>20. BusyInv'
  BY <1>1, <1>2, <1>3, <1>4, Tasks DEF TuiInv, BusyInv, clientVars, daemonVars, screenVars,
     sessionVars
<1> QED
  BY <1>10, <1>11, <1>12, <1>13, <1>14, <1>15, <1>16, <1>17, <1>18, <1>19, <1>20 DEF TuiInv

\* The answer to a decision.
LEMMA PumpGoesOnStep ==
    ASSUME TuiInv, call[Pump].method = "respond", Done(Pump), Resume(Pump),
           decided' = Tail(decided), Reopen(blocks),
           UNCHANGED <<daemonVars, app, worker, starting, busy, busyOn, blocks,
                       selects, mixed, inputs, conn, link, loop, asked, wire>>
    PROVE  TuiInv'
<1>1. /\ call' \in [Callers -> Commands]
      /\ call'[Pump] = Idle
      /\ \A d \in Callers : d # Pump => call'[d] = call[d]
      /\ decided' \in Seq(Selects) /\ Len(decided') = Len(decided) - 1
      /\ Len(decided) \in Nat
  BY Resumed, Tasks DEF TuiInv, TuiTypeOK, MethodInv, Done
<1>10. TuiTypeOK'
  <2>1. ClientTypeOK'
    BY <1>1 DEF TuiInv, TuiTypeOK, ClientTypeOK, daemonVars, Idle, Reopen, Done, screenVars,
       sessionVars
  <2> QED
    BY <1>1, <2>1, TuiAssumption DEF TuiInv, TuiTypeOK, daemonVars, Idle, Reopen, Done,
       screenVars, sessionVars
<1>11. LinkInv'
  BY <1>1 DEF TuiInv, LinkInv, HasClient, daemonVars, Idle, Reopen, Done, screenVars,
     sessionVars
<1>12. WaitersHaveAReader'
  BY <1>1 DEF TuiInv, WaitersHaveAReader, LinkInv, daemonVars, Idle, Reopen, Done, screenVars,
     sessionVars
<1>13. ASSUME NEW d \in Callers PROVE AnswerInv(d)'
  BY <1>1, <1>13 DEF TuiInv, AnswerInv, daemonVars, Idle, Reopen, Done, screenVars, sessionVars
<1>14. NoTwins(wire')
  BY <1>1 DEF TuiInv, daemonVars, Idle, Reopen, Done, screenVars, sessionVars
<1>15. MethodInv'
  BY <1>1, Tasks DEF TuiInv, MethodInv, daemonVars, Idle, Reopen, Done, screenVars, sessionVars
<1>16. TurnsInv'
  BY <1>1 DEF TuiInv, TurnsInv, daemonVars, Idle, Reopen, Done, screenVars, sessionVars
<1>17. ASSUME NEW q \in Requests PROVE RequestInv(q)'
  BY <1>1, <1>17 DEF TuiInv, RequestInv, daemonVars, Idle, Reopen, Done, screenVars, sessionVars
<1>18. PromptInv'
  BY <1>1 DEF TuiInv, PromptInv, daemonVars, Idle, Reopen, Done, screenVars, sessionVars
<1>19. BlockInv'
  BY <1>1 DEF TuiInv, BlockInv, daemonVars, Idle, Reopen, Done, screenVars, sessionVars
<1>20. BusyInv'
  BY <1>1, Tasks DEF TuiInv, BusyInv, daemonVars, Idle, Reopen, Done, screenVars, sessionVars
<1> QED
  BY <1>10, <1>11, <1>12, <1>13, <1>14, <1>15, <1>16, <1>17, <1>18, <1>19, <1>20 DEF TuiInv

LEMMA CompactionStartsStep ==
    ASSUME TuiInv, CompactionStarts
    PROVE  TuiInv'
<1>1. UNCHANGED wire /\ wire \in Seq(Lines)
      /\ holder \in {"nobody", "shut"} /\ holder' = "compaction"
  BY DEF TuiInv, TuiTypeOK, ClientTypeOK, CompactionStarts, clientVars
<1>10. TuiTypeOK'
  <2>1. ClientTypeOK'
    BY <1>1 DEF TuiInv, TuiTypeOK, ClientTypeOK, CompactionStarts, clientVars, uiVars,
       screenVars
  <2> QED
    BY <1>1, <2>1, TuiAssumption DEF TuiInv, TuiTypeOK, CompactionStarts, clientVars, uiVars,
       screenVars
<1>11. LinkInv'
  BY <1>1 DEF TuiInv, LinkInv, HasClient, CompactionStarts, clientVars, uiVars, screenVars
<1>12. WaitersHaveAReader'
  BY <1>1 DEF TuiInv, WaitersHaveAReader, LinkInv, HasClient, CompactionStarts, clientVars,
     uiVars, screenVars
<1>13. ASSUME NEW d \in Callers PROVE AnswerInv(d)'
  BY <1>1, <1>13 DEF TuiInv, AnswerInv, CompactionStarts, clientVars, uiVars, screenVars
<1>14. NoTwins(wire')
  BY <1>1 DEF TuiInv, CompactionStarts, clientVars, uiVars, screenVars
<1>15. MethodInv'
  BY <1>1 DEF TuiInv, MethodInv, CompactionStarts, clientVars, uiVars, screenVars
<1>16. TurnsInv'
  BY <1>1 DEF TuiInv, TurnsInv, TuiTypeOK, CompactionStarts, clientVars, uiVars, screenVars
<1>17. ASSUME NEW q \in Requests PROVE RequestInv(q)'
  BY <1>1, <1>17 DEF TuiInv, RequestInv, TuiTypeOK, CompactionStarts, clientVars, uiVars,
     screenVars
<1>18. PromptInv'
  BY <1>1 DEF TuiInv, PromptInv, CompactionStarts, clientVars, uiVars, screenVars
<1>19. BlockInv'
  BY <1>1 DEF TuiInv, BlockInv, CompactionStarts, clientVars, uiVars, screenVars
<1>20. BusyInv'
  BY <1>1 DEF TuiInv, BusyInv, CompactionStarts, clientVars, uiVars, screenVars
<1> QED
  BY <1>10, <1>11, <1>12, <1>13, <1>14, <1>15, <1>16, <1>17, <1>18, <1>19, <1>20 DEF TuiInv

LEMMA TurnStartsStep ==
    ASSUME TuiInv, TurnStarts
    PROVE  TuiInv'
<1>1. /\ UNCHANGED wire /\ wire \in Seq(Lines)
      /\ queued \in Nat /\ queued > 0 /\ queued' = queued - 1
      /\ mute' \in BOOLEAN /\ (mute => mute')
      /\ holder' = "turn" \/ (holder' = holder /\ (busy => mute'))
  BY TuiAssumption DEF TuiInv, TuiTypeOK, ClientTypeOK, TurnStarts, clientVars
<1>10. TuiTypeOK'
  <2>1. ClientTypeOK'
    BY <1>1 DEF TuiInv, TuiTypeOK, ClientTypeOK, TurnStarts, clientVars, uiVars, screenVars
  <2> QED
    BY <1>1, <2>1, TuiAssumption DEF TuiInv, TuiTypeOK, TurnStarts, clientVars, uiVars,
       screenVars
<1>11. LinkInv'
  BY <1>1 DEF TuiInv, LinkInv, HasClient, TurnStarts, clientVars, uiVars, screenVars
<1>12. WaitersHaveAReader'
  BY <1>1 DEF TuiInv, WaitersHaveAReader, LinkInv, HasClient, TurnStarts, clientVars, uiVars,
     screenVars
<1>13. ASSUME NEW d \in Callers PROVE AnswerInv(d)'
  BY <1>1, <1>13 DEF TuiInv, AnswerInv, TurnStarts, clientVars, uiVars, screenVars
<1>14. NoTwins(wire')
  BY <1>1 DEF TuiInv, TurnStarts, clientVars, uiVars, screenVars
<1>15. MethodInv'
  BY <1>1 DEF TuiInv, MethodInv, TurnStarts, clientVars, uiVars, screenVars
<1>16. TurnsInv'
  BY <1>1 DEF TuiInv, TurnsInv, TuiTypeOK, TurnStarts, clientVars, uiVars, screenVars
<1>17. ASSUME NEW q \in Requests PROVE RequestInv(q)'
  BY <1>1, <1>17 DEF TuiInv, RequestInv, TuiTypeOK, TurnStarts, clientVars, uiVars, screenVars
<1>18. PromptInv'
  BY <1>1 DEF TuiInv, PromptInv, TurnStarts, clientVars, uiVars, screenVars
<1>19. BlockInv'
  BY <1>1 DEF TuiInv, BlockInv, TurnStarts, clientVars, uiVars, screenVars
<1>20. BusyInv'
  BY <1>1 DEF TuiInv, BusyInv, TurnStarts, clientVars, uiVars, screenVars
<1> QED
  BY <1>10, <1>11, <1>12, <1>13, <1>14, <1>15, <1>16, <1>17, <1>18, <1>19, <1>20 DEF TuiInv

LEMMA TurnReportsStep ==
    ASSUME TuiInv, TurnReports
    PROVE  TuiInv'
<1>1. /\ wire' \in Seq(Lines) /\ NoTwins(wire')
      /\ \A c : AnswerIn(wire', c) <=> AnswerIn(wire, c)
      /\ \A c : ErrorIn(wire', c) <=> ErrorIn(wire, c)
      /\ \A p : AskIn(wire', p) <=> AskIn(wire, p)
      /\ \A t : TypeIn(wire, t) => TypeIn(wire', t)
      /\ link = "up" => TypeIn(wire', "waiting_for_input")
  <2> DEFINE l == [type |-> "waiting_for_input"]
  <2>1. l \in Lines /\ l.type = "waiting_for_input" /\ Send(l)
    BY DEF Lines, TurnReports
  <2> HIDE DEF l
  <2> QED
    BY <2>1, SentNews DEF TuiInv
<1>10. TuiTypeOK'
  <2>1. ClientTypeOK'
    BY <1>1 DEF TuiInv, TuiTypeOK, ClientTypeOK, TurnReports, Released, uiVars, screenVars
  <2> QED
    BY <1>1, <2>1, TuiAssumption DEF TuiInv, TuiTypeOK, TurnReports, Released, uiVars,
       screenVars
<1>11. LinkInv'
  BY <1>1 DEF TuiInv, LinkInv, HasClient, TurnReports, Released, uiVars, screenVars
<1>12. WaitersHaveAReader'
  BY <1>1 DEF TuiInv, WaitersHaveAReader, LinkInv, HasClient, TurnReports, Released, uiVars,
     screenVars
<1>13. ASSUME NEW d \in Callers PROVE AnswerInv(d)'
  BY <1>1, <1>13 DEF TuiInv, AnswerInv, TurnReports, Released, uiVars, screenVars
<1>14. NoTwins(wire')
  BY <1>1 DEF TuiInv, TurnReports, Released, uiVars, screenVars
<1>15. MethodInv'
  BY <1>1 DEF TuiInv, MethodInv, TurnReports, Released, uiVars, screenVars
<1>16. TurnsInv'
  BY <1>1 DEF TuiInv, TurnsInv, TuiTypeOK, TurnReports, Released, uiVars, screenVars
<1>17. ASSUME NEW q \in Requests PROVE RequestInv(q)'
  BY <1>1, <1>17 DEF TuiInv, RequestInv, TuiTypeOK, TurnReports, Released, uiVars, screenVars
<1>18. PromptInv'
  BY <1>1 DEF TuiInv, PromptInv, TurnReports, Released, uiVars, screenVars
<1>19. BlockInv'
  BY <1>1 DEF TuiInv, BlockInv, TurnReports, Released, uiVars, screenVars
<1>20. BusyInv'
  BY <1>1 DEF TuiInv, BusyInv, TurnReports, Released, uiVars, screenVars
<1> QED
  BY <1>10, <1>11, <1>12, <1>13, <1>14, <1>15, <1>16, <1>17, <1>18, <1>19, <1>20 DEF TuiInv

LEMMA TurnEndsStep ==
    ASSUME TuiInv, TurnEnds
    PROVE  TuiInv'
<1>1. /\ UNCHANGED wire /\ wire \in Seq(Lines)
      /\ holder' \in {"nobody", "shut"} /\ mute' \in BOOLEAN /\ (mute => mute')
      /\ holder = "turn" /\ busy => mute'
  BY DEF TuiInv, TuiTypeOK, ClientTypeOK, TurnEnds, Released, clientVars
<1>10. TuiTypeOK'
  <2>1. ClientTypeOK'
    BY <1>1 DEF TuiInv, TuiTypeOK, ClientTypeOK, TurnEnds, clientVars, uiVars, screenVars
  <2> QED
    BY <1>1, <2>1, TuiAssumption DEF TuiInv, TuiTypeOK, TurnEnds, clientVars, uiVars, screenVars
<1>11. LinkInv'
  BY <1>1 DEF TuiInv, LinkInv, HasClient, TurnEnds, clientVars, uiVars, screenVars
<1>12. WaitersHaveAReader'
  BY <1>1 DEF TuiInv, WaitersHaveAReader, LinkInv, HasClient, TurnEnds, clientVars, uiVars,
     screenVars
<1>13. ASSUME NEW d \in Callers PROVE AnswerInv(d)'
  BY <1>1, <1>13 DEF TuiInv, AnswerInv, TurnEnds, clientVars, uiVars, screenVars
<1>14. NoTwins(wire')
  BY <1>1 DEF TuiInv, TurnEnds, clientVars, uiVars, screenVars
<1>15. MethodInv'
  BY <1>1 DEF TuiInv, MethodInv, TurnEnds, clientVars, uiVars, screenVars
<1>16. TurnsInv'
  BY <1>1 DEF TuiInv, TurnsInv, TuiTypeOK, TurnEnds, clientVars, uiVars, screenVars
<1>17. ASSUME NEW q \in Requests PROVE RequestInv(q)'
  BY <1>1, <1>17 DEF TuiInv, RequestInv, TuiTypeOK, TurnEnds, clientVars, uiVars, screenVars
<1>18. PromptInv'
  BY <1>1 DEF TuiInv, PromptInv, TurnEnds, clientVars, uiVars, screenVars
<1>19. BlockInv'
  BY <1>1 DEF TuiInv, BlockInv, TurnEnds, clientVars, uiVars, screenVars
<1>20. BusyInv'
  BY <1>1 DEF TuiInv, BusyInv, TurnEnds, clientVars, uiVars, screenVars
<1> QED
  BY <1>10, <1>11, <1>12, <1>13, <1>14, <1>15, <1>16, <1>17, <1>18, <1>19, <1>20 DEF TuiInv

LEMMA OtherClientStep ==
    ASSUME TuiInv, OtherClient
    PROVE  TuiInv'
<1>1. /\ wire' \in Seq(Lines) /\ NoTwins(wire')
      /\ \A c : AnswerIn(wire', c) <=> AnswerIn(wire, c)
      /\ \A c : ErrorIn(wire', c) <=> ErrorIn(wire, c)
      /\ \A p : AskIn(wire', p) <=> AskIn(wire, p)
      /\ \A t : TypeIn(wire, t) => TypeIn(wire', t)
  <2>1. PICK t \in {"waiting_for_input", "closed"} : Send([type |-> t])
    BY DEF OtherClient
  <2> DEFINE l == [type |-> t]
  <2>2. l \in Lines /\ l.type = t /\ Send(l)
    BY <2>1 DEF Lines
  <2> HIDE DEF l
  <2> QED
    BY <2>1, <2>2, SentNews DEF TuiInv
<1>10. TuiTypeOK'
  <2>1. ClientTypeOK'
    BY <1>1 DEF TuiInv, TuiTypeOK, ClientTypeOK, OtherClient, uiVars, screenVars
  <2> QED
    BY <1>1, <2>1, TuiAssumption DEF TuiInv, TuiTypeOK, OtherClient, uiVars, screenVars
<1>11. LinkInv'
  BY <1>1 DEF TuiInv, LinkInv, HasClient, OtherClient, uiVars, screenVars
<1>12. WaitersHaveAReader'
  BY <1>1 DEF TuiInv, WaitersHaveAReader, LinkInv, HasClient, OtherClient, uiVars, screenVars
<1>13. ASSUME NEW d \in Callers PROVE AnswerInv(d)'
  BY <1>1, <1>13 DEF TuiInv, AnswerInv, OtherClient, uiVars, screenVars
<1>14. NoTwins(wire')
  BY <1>1 DEF TuiInv, OtherClient, uiVars, screenVars
<1>15. MethodInv'
  BY <1>1 DEF TuiInv, MethodInv, OtherClient, uiVars, screenVars
<1>16. TurnsInv'
  BY <1>1 DEF TuiInv, TurnsInv, TuiTypeOK, OtherClient, uiVars, screenVars
<1>17. ASSUME NEW q \in Requests PROVE RequestInv(q)'
  BY <1>1, <1>17 DEF TuiInv, RequestInv, TuiTypeOK, OtherClient, uiVars, screenVars
<1>18. PromptInv'
  BY <1>1 DEF TuiInv, PromptInv, OtherClient, uiVars, screenVars
<1>19. BlockInv'
  BY <1>1 DEF TuiInv, BlockInv, OtherClient, uiVars, screenVars
<1>20. BusyInv'
  BY <1>1 DEF TuiInv, BusyInv, OtherClient, uiVars, screenVars
<1> QED
  BY <1>10, <1>11, <1>12, <1>13, <1>14, <1>15, <1>16, <1>17, <1>18, <1>19, <1>20 DEF TuiInv

LEMMA SettleElsewhereStep ==
    ASSUME TuiInv, NEW p \in Requests, SettleElsewhere(p)
    PROVE  TuiInv'
<1>1. /\ wire' \in Seq(Lines) /\ NoTwins(wire')
      /\ \A c : AnswerIn(wire', c) <=> AnswerIn(wire, c)
      /\ \A c : ErrorIn(wire', c) <=> ErrorIn(wire, c)
      /\ \A q : AskIn(wire', q) <=> AskIn(wire, q)
      /\ \A t : TypeIn(wire, t) => TypeIn(wire', t)
  <2> DEFINE l == [type |-> "denied", id |-> p]
  <2>1. l \in Lines /\ l.type = "denied" /\ (wire' = wire \/ Send(l))
    BY DEF Lines, SettleElsewhere, Publish
  <2> HIDE DEF l
  <2>2. CASE wire' = wire
    BY <2>2 DEF TuiInv, TuiTypeOK, ClientTypeOK
  <2>3. CASE Send(l)
    BY <2>1, <2>3, SentNews DEF TuiInv
  <2> QED
    BY <2>1, <2>2, <2>3
<1>10. TuiTypeOK'
  <2>1. ClientTypeOK'
    BY <1>1 DEF TuiInv, TuiTypeOK, ClientTypeOK, SettleElsewhere, uiVars, screenVars,
       sessionVars
  <2> QED
    BY <1>1, <2>1 DEF TuiInv, TuiTypeOK, SettleElsewhere, Denied, uiVars, screenVars,
       sessionVars
<1>11. LinkInv'
  BY <1>1 DEF TuiInv, LinkInv, HasClient, SettleElsewhere, uiVars, screenVars, sessionVars
<1>12. WaitersHaveAReader'
  BY <1>1 DEF TuiInv, WaitersHaveAReader, LinkInv, SettleElsewhere, uiVars, HasClient,
     screenVars, sessionVars
<1>13. ASSUME NEW d \in Callers PROVE AnswerInv(d)'
  BY <1>1, <1>13 DEF TuiInv, AnswerInv, SettleElsewhere, uiVars, screenVars, sessionVars
<1>14. NoTwins(wire')
  BY <1>1 DEF TuiInv, SettleElsewhere, uiVars, screenVars, sessionVars
<1>15. MethodInv'
  BY <1>1 DEF TuiInv, MethodInv, SettleElsewhere, uiVars, screenVars, sessionVars
<1>16. TurnsInv'
  BY <1>1 DEF TuiInv, TurnsInv, SettleElsewhere, uiVars, screenVars, sessionVars
<1>17. ASSUME NEW q \in Requests PROVE RequestInv(q)'
  BY <1>1, <1>17 DEF TuiInv, TuiTypeOK, RequestInv, SettleElsewhere, Denied, uiVars,
     screenVars, sessionVars
<1>18. PromptInv'
  BY <1>1 DEF TuiInv, PromptInv, SettleElsewhere, uiVars, screenVars, sessionVars
<1>19. BlockInv'
  BY <1>1 DEF TuiInv, BlockInv, SettleElsewhere, uiVars, screenVars, sessionVars
<1>20. BusyInv'
  BY <1>1 DEF TuiInv, BusyInv, SettleElsewhere, uiVars, screenVars, sessionVars
<1> QED
  BY <1>10, <1>11, <1>12, <1>13, <1>14, <1>15, <1>16, <1>17, <1>18, <1>19, <1>20 DEF TuiInv

LEMMA DenyStep ==
    ASSUME TuiInv, NEW p \in Requests, Deny(p)
    PROVE  TuiInv'
<1>1. /\ wire' \in Seq(Lines) /\ NoTwins(wire')
      /\ \A c : AnswerIn(wire', c) <=> AnswerIn(wire, c)
      /\ \A c : ErrorIn(wire', c) <=> ErrorIn(wire, c)
      /\ \A q : AskIn(wire', q) <=> AskIn(wire, q)
      /\ \A t : TypeIn(wire, t) => TypeIn(wire', t)
  <2> DEFINE l == [type |-> "denied", id |-> p]
  <2>1. l \in Lines /\ l.type = "denied" /\ (wire' = wire \/ Send(l))
    BY DEF Lines, Deny, Publish
  <2> HIDE DEF l
  <2>2. CASE wire' = wire
    BY <2>2 DEF TuiInv, TuiTypeOK, ClientTypeOK
  <2>3. CASE Send(l)
    BY <2>1, <2>3, SentNews DEF TuiInv
  <2> QED
    BY <2>1, <2>2, <2>3
<1>10. TuiTypeOK'
  <2>1. ClientTypeOK'
    BY <1>1 DEF TuiInv, TuiTypeOK, ClientTypeOK, Deny, uiVars, screenVars, sessionVars
  <2> QED
    BY <1>1, <2>1 DEF TuiInv, TuiTypeOK, Deny, Denied, uiVars, screenVars, sessionVars
<1>11. LinkInv'
  BY <1>1 DEF TuiInv, LinkInv, HasClient, Deny, uiVars, screenVars, sessionVars
<1>12. WaitersHaveAReader'
  BY <1>1 DEF TuiInv, WaitersHaveAReader, LinkInv, Deny, uiVars, HasClient, screenVars,
     sessionVars
<1>13. ASSUME NEW d \in Callers PROVE AnswerInv(d)'
  BY <1>1, <1>13 DEF TuiInv, AnswerInv, Deny, uiVars, screenVars, sessionVars
<1>14. NoTwins(wire')
  BY <1>1 DEF TuiInv, Deny, uiVars, screenVars, sessionVars
<1>15. MethodInv'
  BY <1>1 DEF TuiInv, MethodInv, Deny, uiVars, screenVars, sessionVars
<1>16. TurnsInv'
  BY <1>1 DEF TuiInv, TurnsInv, Deny, uiVars, screenVars, sessionVars
<1>17. ASSUME NEW q \in Requests PROVE RequestInv(q)'
  BY <1>1, <1>17 DEF TuiInv, TuiTypeOK, RequestInv, Deny, Denied, uiVars, screenVars,
     sessionVars
<1>18. PromptInv'
  BY <1>1 DEF TuiInv, PromptInv, Deny, uiVars, screenVars, sessionVars
<1>19. BlockInv'
  BY <1>1 DEF TuiInv, BlockInv, Deny, uiVars, screenVars, sessionVars
<1>20. BusyInv'
  BY <1>1 DEF TuiInv, BusyInv, Deny, uiVars, screenVars, sessionVars
<1> QED
  BY <1>10, <1>11, <1>12, <1>13, <1>14, <1>15, <1>16, <1>17, <1>18, <1>19, <1>20 DEF TuiInv

LEMMA AskStep ==
    ASSUME TuiInv, NEW p \in Requests, Ask(p)
    PROVE  TuiInv'
<1>1. /\ wire' \in Seq(Lines) /\ NoTwins(wire')
      /\ \A c : AnswerIn(wire', c) <=> AnswerIn(wire, c)
      /\ \A c : ErrorIn(wire', c) <=> ErrorIn(wire, c)
      /\ \A q : AskIn(wire', q) => AskIn(wire, q) \/ (q = p /\ listening /\ link = "up")
      /\ \A t : TypeIn(wire, t) => TypeIn(wire', t)
  <2> DEFINE l == [type |-> "requested", id |-> p]
  <2>1. /\ l \in Lines /\ l.type = "requested" /\ l.id = p /\ ~AskIn(wire, p)
        /\ IF listening THEN Send(l) ELSE UNCHANGED wire
    BY DEF Lines, Ask, Publish, TuiInv, RequestInv
  <2> HIDE DEF l
  <2>2. (\A c : ~Answers(l, c)) /\ l.type # "error" /\ \A q : Asks(l, q) => q = p
    BY <2>1 DEF Answers, Asks
  <2>3. CASE listening
    BY <2>1, <2>2, <2>3, SentLine DEF TuiInv
  <2>4. CASE ~listening
    BY <2>1, <2>4 DEF TuiInv, TuiTypeOK, ClientTypeOK
  <2> QED
    BY <2>3, <2>4
<1>2. request \in [Requests -> {"new", "open", "denying", "settled",
   "denied"}] /\ request[p] = "new"
      /\ request' = [request EXCEPT ![p] = "open"]
  BY DEF TuiInv, TuiTypeOK, Ask
<1>10. TuiTypeOK'
  <2>1. ClientTypeOK'
    BY <1>1 DEF TuiInv, TuiTypeOK, ClientTypeOK, Ask, uiVars, screenVars, sessionVars
  <2> QED
    BY <1>1, <1>2, <2>1 DEF TuiInv, TuiTypeOK, Ask, uiVars, screenVars, sessionVars
<1>11. LinkInv'
  BY <1>1 DEF TuiInv, LinkInv, HasClient, Ask, uiVars, screenVars, sessionVars
<1>12. WaitersHaveAReader'
  BY <1>1 DEF TuiInv, WaitersHaveAReader, LinkInv, Ask, uiVars, HasClient, screenVars,
     sessionVars
<1>13. ASSUME NEW d \in Callers PROVE AnswerInv(d)'
  BY <1>1, <1>13 DEF TuiInv, AnswerInv, Ask, uiVars, screenVars, sessionVars
<1>14. NoTwins(wire')
  BY <1>1 DEF TuiInv, Ask, uiVars, screenVars, sessionVars
<1>15. MethodInv'
  BY <1>1 DEF TuiInv, MethodInv, Ask, uiVars, screenVars, sessionVars
<1>16. TurnsInv'
  BY <1>1 DEF TuiInv, TurnsInv, Ask, uiVars, screenVars, sessionVars
<1>17. ASSUME NEW q \in Requests PROVE RequestInv(q)'
  BY <1>1, <1>2, <1>17 DEF TuiInv, RequestInv, Ask, uiVars, screenVars, sessionVars
<1>18. PromptInv'
  BY <1>1 DEF TuiInv, PromptInv, Ask, uiVars, screenVars, sessionVars
<1>19. BlockInv'
  BY <1>1 DEF TuiInv, BlockInv, Ask, uiVars, screenVars, sessionVars
<1>20. BusyInv'
  BY <1>1 DEF TuiInv, BusyInv, Ask, uiVars, screenVars, sessionVars
<1> QED
  BY <1>10, <1>11, <1>12, <1>13, <1>14, <1>15, <1>16, <1>17, <1>18, <1>19, <1>20 DEF TuiInv

LEMMA ConnectionBreaksStep ==
    ASSUME TuiInv, ConnectionBreaks
    PROVE  TuiInv'
<1>1. /\ wire' \in Seq(Lines) /\ NoTwins(wire')
      /\ \A c : AnswerIn(wire', c) => AnswerIn(wire, c)
      /\ \A p : AskIn(wire', p) => AskIn(wire, p)
  <2>1. PICK n \in 0..Len(wire) : wire' = SubSeq(wire, 1, n)
    BY DEF ConnectionBreaks, Break
  <2> QED
    BY <2>1, CutLines DEF TuiInv, TuiTypeOK, ClientTypeOK
<1>10. TuiTypeOK'
  <2>1. ClientTypeOK'
    BY <1>1 DEF TuiInv, TuiTypeOK, ClientTypeOK, ConnectionBreaks, uiVars, daemonVars, Break,
       screenVars, sessionVars
  <2> QED
    BY <1>1, <2>1 DEF TuiInv, TuiTypeOK, ConnectionBreaks, uiVars, daemonVars, Break,
       screenVars, sessionVars
<1>11. LinkInv'
  BY <1>1 DEF TuiInv, LinkInv, HasClient, ConnectionBreaks, uiVars, daemonVars, Break,
     screenVars, sessionVars
<1>12. WaitersHaveAReader'
  BY <1>1 DEF TuiInv, WaitersHaveAReader, LinkInv, ConnectionBreaks, uiVars, daemonVars,
     HasClient, Break, screenVars, sessionVars
<1>13. ASSUME NEW d \in Callers PROVE AnswerInv(d)'
  BY <1>1, <1>13 DEF TuiInv, AnswerInv, ConnectionBreaks, uiVars, daemonVars, Break,
     screenVars, sessionVars
<1>14. NoTwins(wire')
  BY <1>1 DEF TuiInv, ConnectionBreaks, uiVars, daemonVars, Break, screenVars, sessionVars
<1>15. MethodInv'
  BY <1>1 DEF TuiInv, MethodInv, ConnectionBreaks, uiVars, daemonVars, Break, screenVars,
     sessionVars
<1>16. TurnsInv'
  BY <1>1 DEF TuiInv, TurnsInv, TuiTypeOK, ConnectionBreaks, uiVars, daemonVars, Break,
     screenVars, sessionVars
<1>17. ASSUME NEW q \in Requests PROVE RequestInv(q)'
  BY <1>1, <1>17 DEF TuiInv, RequestInv, ConnectionBreaks, uiVars, daemonVars, Break,
     screenVars, sessionVars
<1>18. PromptInv'
  BY <1>1 DEF TuiInv, PromptInv, ConnectionBreaks, uiVars, daemonVars, Break, screenVars,
     sessionVars
<1>19. BlockInv'
  BY <1>1 DEF TuiInv, BlockInv, ConnectionBreaks, uiVars, daemonVars, Break, screenVars,
     sessionVars
<1>20. BusyInv'
  BY <1>1 DEF TuiInv, BusyInv, ConnectionBreaks, uiVars, daemonVars, Break, screenVars,
     sessionVars
<1> QED
  BY <1>10, <1>11, <1>12, <1>13, <1>14, <1>15, <1>16, <1>17, <1>18, <1>19, <1>20 DEF TuiInv

(***************************************************************************)
(* What the event loop reads.                                              *)
(***************************************************************************)
Read ==
    /\ Running /\ loop = "reading" /\ wire # <<>> /\ wire' = Tail(wire)
    /\ UNCHANGED <<conn, link, loop, asked, app, worker, starting, busyOn,
                   inputs, daemonVars>>

LEMMA ReadFacts ==
    ASSUME TuiInv, Read
    PROVE  LET l == Head(wire) IN
           /\ l \in Lines
           /\ wire' \in Seq(Lines) /\ NoTwins(wire')
           /\ \A c : AnswerIn(wire, c) <=> AnswerIn(wire', c) \/ Answers(l, c)
           /\ \A c : ErrorIn(wire, c) <=> ErrorIn(wire', c) \/ (l.type = "error" /\ l.to = c)
           /\ \A p : AskIn(wire, p) <=> AskIn(wire', p) \/ Asks(l, p)
           /\ \A t : TypeIn(wire, t) <=> TypeIn(wire', t) \/ l.type = t
           /\ \A c \in Callers : Answers(l, c) => ~AnswerIn(wire', c)
           /\ \A p \in Requests : Asks(l, p) => ~AskIn(wire', p)
  BY TailLine DEF TuiInv, TuiTypeOK, ClientTypeOK, Read

LEMMA ReadAnswerStep ==
    ASSUME TuiInv, Read, Head(wire).type \in {"ok", "error"}, Answer(Head(wire))
    PROVE  TuiInv'
<1> DEFINE l == Head(wire)
<1>1. /\ l \in Lines
      /\ wire' \in Seq(Lines) /\ NoTwins(wire')
      /\ \A c : AnswerIn(wire, c) <=> AnswerIn(wire', c) \/ Answers(l, c)
      /\ \A c : ErrorIn(wire, c) <=> ErrorIn(wire', c) \/ (l.type = "error" /\ l.to = c)
      /\ \A p : AskIn(wire, p) <=> AskIn(wire', p) \/ Asks(l, p)
      /\ \A t : TypeIn(wire, t) <=> TypeIn(wire', t) \/ l.type = t
      /\ \A c \in Callers : Answers(l, c) => ~AnswerIn(wire', c)
      /\ \A p \in Requests : Asks(l, p) => ~AskIn(wire', p)
  BY ReadFacts
<1>2. UNCHANGED <<conn, link, loop, asked, app, worker, starting, busyOn,
                  inputs, daemonVars>>
  BY DEF Read

<1>3. /\ l.to \in Callers
      /\ call' \in [Callers -> Commands]
      /\ \A d \in Callers : d # l.to => call'[d] = call[d]
      /\ call'[l.to].method = call[l.to].method
      /\ call'[l.to].arg = call[l.to].arg
      /\ Answers(l, l.to) /\ call[l.to].state = "waiting" /\ l.to \notin asked
      /\ call'[l.to].state = l.type
      /\ UNCHANGED <<busy, prompt, screenVars>>
  <2>1. l.to \in Callers /\ Answers(l, l.to)
    BY <1>1 DEF Lines, Answers
  <2>2. call[l.to].state = "waiting" /\ l.to \notin asked
    BY <1>1, <2>1 DEF TuiInv, AnswerInv
  <2> QED
    BY <1>1, <2>1, <2>2, Settled DEF TuiInv, Answer
<1>4. /\ l.type \in {"ok", "error"} /\ \A p : ~Asks(l, p)
      /\ \A c : Answers(l, c) => c = l.to
  BY DEF Answers, Asks
<1> HIDE DEF l
<1>10. TuiTypeOK'
  <2>1. ClientTypeOK'
    BY <1>1, <1>2, <1>3, <1>4 DEF TuiInv, TuiTypeOK, ClientTypeOK, daemonVars, screenVars,
       sessionVars
  <2> QED
    BY <1>1, <1>2, <1>3, <1>4, <2>1 DEF TuiInv, TuiTypeOK, daemonVars, screenVars, sessionVars
<1>11. LinkInv'
  BY <1>1, <1>2, <1>3, <1>4 DEF TuiInv, LinkInv, HasClient, daemonVars, screenVars, sessionVars
<1>12. WaitersHaveAReader'
  BY <1>1, <1>2, <1>3, <1>4 DEF TuiInv, WaitersHaveAReader, LinkInv, daemonVars, HasClient,
     screenVars, sessionVars
<1>13. ASSUME NEW d \in Callers PROVE AnswerInv(d)'
  BY <1>1, <1>2, <1>3, <1>4, <1>13 DEF TuiInv, AnswerInv, daemonVars, screenVars, sessionVars
<1>14. NoTwins(wire')
  BY <1>1, <1>2, <1>3, <1>4 DEF TuiInv, daemonVars, screenVars, sessionVars
<1>15. MethodInv'
  BY <1>1, <1>2, <1>3, <1>4, Tasks DEF TuiInv, MethodInv, daemonVars, screenVars, sessionVars
<1>16. TurnsInv'
  BY <1>1, <1>2, <1>3, <1>4 DEF TuiInv, TurnsInv, daemonVars, screenVars, sessionVars
<1>17. ASSUME NEW q \in Requests PROVE RequestInv(q)'
  BY <1>1, <1>2, <1>3, <1>4, <1>17 DEF TuiInv, RequestInv, daemonVars, screenVars, sessionVars
<1>18. PromptInv'
  BY <1>1, <1>2, <1>3, <1>4, Tasks DEF TuiInv, PromptInv, daemonVars, screenVars, sessionVars
<1>19. BlockInv'
  BY <1>1, <1>2, <1>3, <1>4 DEF TuiInv, BlockInv, daemonVars, screenVars, sessionVars
<1>20. BusyInv'
  <2>1. TypeIn(wire, "waiting_for_input") => TypeIn(wire', "waiting_for_input")
    BY <1>1, <1>4
  <2>2. CASE l.to # Sender
    <3>1. call'[Sender] = call[Sender] /\ (ErrorIn(wire, Sender) => ErrorIn(wire', Sender))
      BY <1>1, <1>3, <2>2, Tasks
    <3> QED
      BY <1>2, <1>3, <2>1, <3>1 DEF TuiInv, BusyInv, daemonVars, screenVars, sessionVars
  <2>3. CASE l.to = Sender
    <3>1. ~ErrorIn(wire', Sender)
      <4>1. ~AnswerIn(wire', Sender)
        BY <1>1, <1>3, <2>3
      <4> QED
        BY <4>1 DEF ErrorIn, AnswerIn, Answers
    <3>2. ErrorIn(wire, Sender) => l.type = "error"
      BY <1>1, <3>1
    <3> QED
      BY <1>2, <1>3, <2>1, <2>3, <3>2 DEF TuiInv, BusyInv, daemonVars, screenVars, sessionVars
  <2> QED
    BY <2>2, <2>3
<1> QED
  BY <1>10, <1>11, <1>12, <1>13, <1>14, <1>15, <1>16, <1>17, <1>18, <1>19, <1>20 DEF TuiInv

LEMMA ReadWaitingStep ==
    ASSUME TuiInv, Read, Head(wire).type = "waiting_for_input", WaitingForInput
    PROVE  TuiInv'
<1> DEFINE l == Head(wire)
<1>1. /\ l \in Lines
      /\ wire' \in Seq(Lines) /\ NoTwins(wire')
      /\ \A c : AnswerIn(wire, c) <=> AnswerIn(wire', c) \/ Answers(l, c)
      /\ \A c : ErrorIn(wire, c) <=> ErrorIn(wire', c) \/ (l.type = "error" /\ l.to = c)
      /\ \A p : AskIn(wire, p) <=> AskIn(wire', p) \/ Asks(l, p)
      /\ \A t : TypeIn(wire, t) <=> TypeIn(wire', t) \/ l.type = t
      /\ \A c \in Callers : Answers(l, c) => ~AnswerIn(wire', c)
      /\ \A p \in Requests : Asks(l, p) => ~AskIn(wire', p)
  BY ReadFacts
<1>2. UNCHANGED <<conn, link, loop, asked, app, worker, starting, busyOn,
                  inputs, daemonVars>>
  BY DEF Read

<1>3. (\A c : ~Answers(l, c)) /\ l.type # "error"
  BY DEF Answers

<1> HIDE DEF l
<1>10. TuiTypeOK'
  <2>1. ClientTypeOK'
    BY <1>1, <1>2, <1>3 DEF TuiInv, TuiTypeOK, ClientTypeOK, daemonVars, WaitingForInput,
       screenVars, sessionVars
  <2> QED
    BY <1>1, <1>2, <1>3, <2>1 DEF TuiInv, TuiTypeOK, daemonVars, WaitingForInput, screenVars,
       sessionVars
<1>11. LinkInv'
  BY <1>1, <1>2, <1>3 DEF TuiInv, LinkInv, HasClient, daemonVars, WaitingForInput, screenVars,
     sessionVars
<1>12. WaitersHaveAReader'
  BY <1>1, <1>2, <1>3 DEF TuiInv, WaitersHaveAReader, LinkInv, daemonVars, HasClient,
     WaitingForInput, screenVars, sessionVars
<1>13. ASSUME NEW d \in Callers PROVE AnswerInv(d)'
  BY <1>1, <1>2, <1>3, <1>13 DEF TuiInv, AnswerInv, daemonVars, WaitingForInput, screenVars,
     sessionVars
<1>14. NoTwins(wire')
  BY <1>1, <1>2, <1>3 DEF TuiInv, daemonVars, WaitingForInput, screenVars, sessionVars
<1>15. MethodInv'
  BY <1>1, <1>2, <1>3 DEF TuiInv, MethodInv, daemonVars, WaitingForInput, screenVars,
     sessionVars
<1>16. TurnsInv'
  BY <1>1, <1>2, <1>3 DEF TuiInv, TurnsInv, daemonVars, WaitingForInput, screenVars, sessionVars
<1>17. ASSUME NEW q \in Requests PROVE RequestInv(q)'
  BY <1>1, <1>2, <1>3, <1>17 DEF TuiInv, RequestInv, daemonVars, WaitingForInput, screenVars,
     sessionVars
<1>18. PromptInv'
  BY <1>1, <1>2, <1>3 DEF TuiInv, PromptInv, daemonVars, WaitingForInput, screenVars,
     sessionVars
<1>19. BlockInv'
  BY <1>1, <1>2, <1>3 DEF TuiInv, BlockInv, daemonVars, WaitingForInput, screenVars, sessionVars
<1>20. BusyInv'
  BY <1>1, <1>2, <1>3 DEF TuiInv, BusyInv, daemonVars, WaitingForInput, screenVars, sessionVars
<1> QED
  BY <1>10, <1>11, <1>12, <1>13, <1>14, <1>15, <1>16, <1>17, <1>18, <1>19, <1>20 DEF TuiInv

LEMMA ReadClosedStep ==
    ASSUME TuiInv, Read, Head(wire).type = "closed", SessionClosed
    PROVE  TuiInv'
<1> DEFINE l == Head(wire)
<1>1. /\ l \in Lines
      /\ wire' \in Seq(Lines) /\ NoTwins(wire')
      /\ \A c : AnswerIn(wire, c) <=> AnswerIn(wire', c) \/ Answers(l, c)
      /\ \A c : ErrorIn(wire, c) <=> ErrorIn(wire', c) \/ (l.type = "error" /\ l.to = c)
      /\ \A p : AskIn(wire, p) <=> AskIn(wire', p) \/ Asks(l, p)
      /\ \A t : TypeIn(wire, t) <=> TypeIn(wire', t) \/ l.type = t
      /\ \A c \in Callers : Answers(l, c) => ~AnswerIn(wire', c)
      /\ \A p \in Requests : Asks(l, p) => ~AskIn(wire', p)
  BY ReadFacts
<1>2. UNCHANGED <<conn, link, loop, asked, app, worker, starting, busyOn,
                  inputs, daemonVars>>
  BY DEF Read

<1>3. (\A c : ~Answers(l, c)) /\ l.type # "error"
  BY DEF Answers

<1> HIDE DEF l
<1>10. TuiTypeOK'
  <2>1. ClientTypeOK'
    BY <1>1, <1>2, <1>3 DEF TuiInv, TuiTypeOK, ClientTypeOK, daemonVars, SessionClosed,
       screenVars, sessionVars
  <2> QED
    BY <1>1, <1>2, <1>3, <2>1 DEF TuiInv, TuiTypeOK, daemonVars, SessionClosed, screenVars,
       sessionVars
<1>11. LinkInv'
  BY <1>1, <1>2, <1>3 DEF TuiInv, LinkInv, HasClient, daemonVars, SessionClosed, screenVars,
     sessionVars
<1>12. WaitersHaveAReader'
  BY <1>1, <1>2, <1>3 DEF TuiInv, WaitersHaveAReader, LinkInv, daemonVars, HasClient,
     SessionClosed, screenVars, sessionVars
<1>13. ASSUME NEW d \in Callers PROVE AnswerInv(d)'
  BY <1>1, <1>2, <1>3, <1>13 DEF TuiInv, AnswerInv, daemonVars, SessionClosed, screenVars,
     sessionVars
<1>14. NoTwins(wire')
  BY <1>1, <1>2, <1>3 DEF TuiInv, daemonVars, SessionClosed, screenVars, sessionVars
<1>15. MethodInv'
  BY <1>1, <1>2, <1>3 DEF TuiInv, MethodInv, daemonVars, SessionClosed, screenVars, sessionVars
<1>16. TurnsInv'
  BY <1>1, <1>2, <1>3 DEF TuiInv, TurnsInv, daemonVars, SessionClosed, screenVars, sessionVars
<1>17. ASSUME NEW q \in Requests PROVE RequestInv(q)'
  BY <1>1, <1>2, <1>3, <1>17 DEF TuiInv, RequestInv, daemonVars, SessionClosed, screenVars,
     sessionVars
<1>18. PromptInv'
  BY <1>1, <1>2, <1>3 DEF TuiInv, PromptInv, daemonVars, SessionClosed, screenVars, sessionVars
<1>19. BlockInv'
  BY <1>1, <1>2, <1>3 DEF TuiInv, BlockInv, daemonVars, SessionClosed, screenVars, sessionVars
<1>20. BusyInv'
  BY <1>1, <1>2, <1>3 DEF TuiInv, BusyInv, daemonVars, SessionClosed, screenVars, sessionVars
<1> QED
  BY <1>10, <1>11, <1>12, <1>13, <1>14, <1>15, <1>16, <1>17, <1>18, <1>19, <1>20 DEF TuiInv

LEMMA ReadRequestedStep ==
    ASSUME TuiInv, NEW p \in Requests, Read, Head(wire).type = "requested", Head(wire).id = p,
           PermissionRequested(p)
    PROVE  TuiInv'
<1> DEFINE l == Head(wire)
<1>1. /\ l \in Lines
      /\ wire' \in Seq(Lines) /\ NoTwins(wire')
      /\ \A c : AnswerIn(wire, c) <=> AnswerIn(wire', c) \/ Answers(l, c)
      /\ \A c : ErrorIn(wire, c) <=> ErrorIn(wire', c) \/ (l.type = "error" /\ l.to = c)
      /\ \A q : AskIn(wire, q) <=> AskIn(wire', q) \/ Asks(l, q)
      /\ \A t : TypeIn(wire, t) <=> TypeIn(wire', t) \/ l.type = t
      /\ \A c \in Callers : Answers(l, c) => ~AnswerIn(wire', c)
      /\ \A q \in Requests : Asks(l, q) => ~AskIn(wire', q)
  BY ReadFacts
<1>2. UNCHANGED <<conn, link, loop, asked, app, worker, starting, busyOn,
                  inputs, daemonVars>>
  BY DEF Read

<1>3. (\A c : ~Answers(l, c)) /\ l.type # "error"
  BY DEF Answers

<1>4. Asks(l, p) /\ (\A q : Asks(l, q) => q = p) /\ l.type # "waiting_for_input"
  BY DEF Asks
<1> DEFINE s == [id |-> p, on |-> conn]
<1>5. /\ AskIn(wire, p) /\ ~AskIn(wire', p) /\ s \notin ToSet(selects)
      /\ listening /\ request[p] # "new"
  BY <1>1, <1>4 DEF TuiInv, RequestInv
<1>6. s \in Selects /\ s.id = p /\ s.on = conn
  BY TuiAssumption DEF TuiInv, TuiTypeOK, ClientTypeOK, LinkInv, Read, Selects
<1>7. /\ selects' = Append(selects, s)
      /\ blocks' = blocks \cup {p} /\ prompt' = "permission"
      /\ mixed' \in BOOLEAN /\ (mixed' <=> mixed \/ blocks \ {p} # {})
      /\ UNCHANGED <<busy, call, decided>>
  BY DEF PermissionRequested, TuiInv, TuiTypeOK
<1>8. \A q : [id |-> q, on |-> conn] = s => q = p
  OBVIOUS
<1> HIDE DEF s
<1>9. /\ selects' \in Seq(Selects) /\ IsInjective(selects')
      /\ ToSet(selects') = ToSet(selects) \cup {s}
  BY <1>5, <1>6, <1>7, SelectAdded DEF TuiInv, TuiTypeOK
<1> HIDE DEF l
<1>10. TuiTypeOK'
  <2>1. ClientTypeOK'
    BY <1>1, <1>2, <1>3, <1>4, <1>7 DEF TuiInv, TuiTypeOK, ClientTypeOK, daemonVars,
       screenVars, sessionVars
  <2> QED
    BY <1>1, <1>2, <1>7, <1>9, <2>1 DEF TuiInv, TuiTypeOK, daemonVars, screenVars, sessionVars
<1>11. LinkInv'
  BY <1>1, <1>2, <1>6, <1>7, <1>9 DEF TuiInv, TuiTypeOK, ClientTypeOK, LinkInv, HasClient,
     daemonVars, screenVars, sessionVars
<1>12. WaitersHaveAReader'
  BY <1>1, <1>2, <1>3, <1>4, <1>7 DEF TuiInv, WaitersHaveAReader, LinkInv, daemonVars,
     HasClient, screenVars, sessionVars
<1>13. ASSUME NEW d \in Callers PROVE AnswerInv(d)'
  BY <1>1, <1>2, <1>3, <1>4, <1>7, <1>13 DEF TuiInv, AnswerInv, daemonVars, screenVars,
     sessionVars
<1>14. NoTwins(wire')
  BY <1>1, <1>2, <1>3, <1>4, <1>7 DEF TuiInv, daemonVars, screenVars, sessionVars
<1>15. MethodInv'
  BY <1>1, <1>2, <1>3, <1>4, <1>7 DEF TuiInv, MethodInv, daemonVars, screenVars, sessionVars
<1>16. TurnsInv'
  BY <1>1, <1>2, <1>3, <1>4, <1>7 DEF TuiInv, TurnsInv, daemonVars, screenVars, sessionVars
<1>17. ASSUME NEW q \in Requests PROVE RequestInv(q)'
  BY <1>1, <1>2, <1>5, <1>7, <1>8, <1>9, <1>17 DEF TuiInv, RequestInv, daemonVars, screenVars,
     sessionVars
<1>18. PromptInv'
  BY <1>1, <1>2, <1>3, <1>4, <1>7 DEF TuiInv, PromptInv, daemonVars, screenVars, sessionVars
<1>19. BlockInv'
  BY <1>6, <1>7, <1>9 DEF TuiInv, BlockInv
<1>20. BusyInv'
  BY <1>1, <1>2, <1>3, <1>4, <1>7 DEF TuiInv, BusyInv, daemonVars, screenVars, sessionVars
<1> QED
  BY <1>10, <1>11, <1>12, <1>13, <1>14, <1>15, <1>16, <1>17, <1>18, <1>19, <1>20 DEF TuiInv

LEMMA ReadDeniedStep ==
    ASSUME TuiInv, NEW p \in Requests, Read, Head(wire).type = "denied", PermissionDenied(p)
    PROVE  TuiInv'
<1> DEFINE l == Head(wire)
<1>1. /\ l \in Lines
      /\ wire' \in Seq(Lines) /\ NoTwins(wire')
      /\ \A c : AnswerIn(wire, c) <=> AnswerIn(wire', c) \/ Answers(l, c)
      /\ \A c : ErrorIn(wire, c) <=> ErrorIn(wire', c) \/ (l.type = "error" /\ l.to = c)
      /\ \A q : AskIn(wire, q) <=> AskIn(wire', q) \/ Asks(l, q)
      /\ \A t : TypeIn(wire, t) <=> TypeIn(wire', t) \/ l.type = t
      /\ \A c \in Callers : Answers(l, c) => ~AnswerIn(wire', c)
      /\ \A q \in Requests : Asks(l, q) => ~AskIn(wire', q)
  BY ReadFacts
<1>2. UNCHANGED <<conn, link, loop, asked, app, worker, starting, busyOn,
                  inputs, daemonVars>>
  BY DEF Read

<1>3. (\A c : ~Answers(l, c)) /\ l.type # "error"
  BY DEF Answers

<1>4. (\A q : ~Asks(l, q)) /\ l.type # "waiting_for_input"
  BY DEF Asks
<1>5. /\ selects' \in Seq(Selects) /\ IsInjective(selects')
      /\ ToSet(selects') \subseteq ToSet(selects)
  BY FirstSelectGone DEF TuiInv, TuiTypeOK, PermissionDenied, Unblock
<1>6. /\ blocks' = blocks \ {p}
      /\ p \notin blocks => selects' = selects /\ prompt' = prompt
      /\ p \in blocks => prompt' = IF blocks' = {} THEN "open" ELSE prompt
      /\ mixed' \in BOOLEAN /\ (mixed' <=> mixed /\ blocks' # {})
      /\ UNCHANGED <<busy, call, decided>>
  BY DEF PermissionDenied, Unblock, Reopen, TuiInv, TuiTypeOK
<1> HIDE DEF l
<1>10. TuiTypeOK'
  <2>1. ClientTypeOK'
    BY <1>1, <1>2, <1>3, <1>4, <1>5, <1>6 DEF TuiInv, TuiTypeOK, ClientTypeOK, daemonVars,
       screenVars, sessionVars
  <2> QED
    BY <1>1, <1>2, <1>3, <1>4, <1>5, <1>6, <2>1 DEF TuiInv, TuiTypeOK, daemonVars, screenVars,
       sessionVars
<1>11. LinkInv'
  BY <1>1, <1>2, <1>3, <1>4, <1>5, <1>6 DEF TuiInv, LinkInv, HasClient, daemonVars,
     screenVars, sessionVars
<1>12. WaitersHaveAReader'
  BY <1>1, <1>2, <1>3, <1>4, <1>5, <1>6 DEF TuiInv, WaitersHaveAReader, LinkInv, daemonVars,
     HasClient, screenVars, sessionVars
<1>13. ASSUME NEW d \in Callers PROVE AnswerInv(d)'
  BY <1>1, <1>2, <1>3, <1>4, <1>5, <1>6, <1>13 DEF TuiInv, AnswerInv, daemonVars, screenVars,
     sessionVars
<1>14. NoTwins(wire')
  BY <1>1, <1>2, <1>3, <1>4, <1>5, <1>6 DEF TuiInv, daemonVars, screenVars, sessionVars
<1>15. MethodInv'
  BY <1>1, <1>2, <1>3, <1>4, <1>5, <1>6 DEF TuiInv, MethodInv, daemonVars, screenVars,
     sessionVars
<1>16. TurnsInv'
  BY <1>1, <1>2, <1>3, <1>4, <1>5, <1>6 DEF TuiInv, TurnsInv, daemonVars, screenVars,
     sessionVars
<1>17. ASSUME NEW q \in Requests PROVE RequestInv(q)'
  BY <1>1, <1>2, <1>3, <1>4, <1>5, <1>6, <1>17 DEF TuiInv, RequestInv, daemonVars, screenVars,
     sessionVars
<1>18. PromptInv'
  BY <1>1, <1>2, <1>3, <1>4, <1>5, <1>6 DEF TuiInv, PromptInv, daemonVars, screenVars,
     sessionVars
<1>19. BlockInv'
  BY <1>6 DEF TuiInv, BlockInv
<1>20. BusyInv'
  BY <1>1, <1>2, <1>3, <1>4, <1>5, <1>6 DEF TuiInv, BusyInv, daemonVars, screenVars, sessionVars
<1> QED
  BY <1>10, <1>11, <1>12, <1>13, <1>14, <1>15, <1>16, <1>17, <1>18, <1>19, <1>20 DEF TuiInv

LEMMA ReadLineStep ==
    ASSUME TuiInv, ReadLine
    PROVE  TuiInv'
<1> DEFINE l == Head(wire)
<1>1. Read /\ Handle(l)
  BY DEF ReadLine, Read
<1>2. l \in Lines
  BY <1>1, ReadFacts
<1>3. CASE l.type \in {"ok", "error"} /\ Answer(l)
  BY <1>1, <1>3, ReadAnswerStep
<1>4. CASE l.type = "waiting_for_input" /\ WaitingForInput
  BY <1>1, <1>4, ReadWaitingStep
<1>5. CASE l.type = "closed" /\ SessionClosed
  BY <1>1, <1>5, ReadClosedStep
<1>6. CASE l.type = "requested" /\ PermissionRequested(l.id)
  <2>1. l.id \in Requests
    BY <1>2, <1>6 DEF Lines
  <2> QED
    BY <1>1, <1>6, <2>1, ReadRequestedStep
<1>7. CASE l.type = "denied" /\ PermissionDenied(l.id)
  <2>1. l.id \in Requests
    BY <1>2, <1>7 DEF Lines
  <2> QED
    BY <1>1, <1>7, <2>1, ReadDeniedStep
<1> QED
  BY <1>1, <1>3, <1>4, <1>5, <1>6, <1>7 DEF Handle

(***************************************************************************)
(* The daemon answers.                                                     *)
(***************************************************************************)
\* An answer to c is under way, to nobody else; what is told of before it was
\* asked for already.
AnswerSent(c) ==
    /\ wire' \in Seq(Lines) /\ NoTwins(wire')
    /\ \A d : d # c => (AnswerIn(wire', d) <=> AnswerIn(wire, d))
    /\ \A d : ErrorIn(wire, d) => ErrorIn(wire', d)
    /\ \A t : TypeIn(wire, t) => TypeIn(wire', t)

NothingTold == \A p : AskIn(wire', p) <=> AskIn(wire, p)

LEMMA OwesAnswer ==
    ASSUME TuiInv, NEW c \in asked
    PROVE  /\ c \in Callers /\ link = "up"
           /\ call[c].state = "waiting" /\ ~AnswerIn(wire, c)
  BY DEF TuiInv, TuiTypeOK, ClientTypeOK, LinkInv, AnswerInv

LEMMA OneAnswer ==
    ASSUME TuiInv, NEW c \in asked, NEW t \in {"ok", "error"},
           Send([type |-> t, to |-> c])
    PROVE  AnswerSent(c) /\ NothingTold /\ (t = "error" => ErrorIn(wire', c))
<1> DEFINE l == [type |-> t, to |-> c]
<1>1. c \in Callers /\ link = "up" /\ ~AnswerIn(wire, c)
  BY OwesAnswer
<1>2. l \in Lines /\ l.type = t /\ l.to = c /\ Send(l)
  BY <1>1 DEF Lines
<1> HIDE DEF l
<1>3. (\A d : Answers(l, d) <=> d = c) /\ (\A p : ~Asks(l, p))
  BY <1>2 DEF Answers, Asks
<1> QED
  BY <1>1, <1>2, <1>3, SentLine DEF AnswerSent, NothingTold, TuiInv

\* The answer to session.close has its event before it.
LEMMA ClosedAndAnswer ==
    ASSUME TuiInv, NEW c \in asked,
           wire' = wire \o <<[type |-> "closed"], [type |-> "ok", to |-> c]>>
    PROVE  AnswerSent(c) /\ NothingTold
<1> DEFINE e == [type |-> "closed"]
           l == [type |-> "ok", to |-> c]
           w == Append(wire, e)
<1>1. c \in Callers /\ ~AnswerIn(wire, c) /\ wire \in Seq(Lines) /\ NoTwins(wire)
  BY OwesAnswer DEF TuiInv, TuiTypeOK, ClientTypeOK
<1>2. /\ e \in Lines /\ e.type = "closed"
      /\ l \in Lines /\ l.type = "ok" /\ l.to = c
  BY <1>1 DEF Lines
<1>3. wire' = Append(w, l)
  <2>1. wire \o <<e, l>> = Append(Append(wire, e), l)
    <3> HIDE DEF e, l
    <3> QED
      BY <1>1, <1>2
  <2> QED
    BY <2>1
<1> HIDE DEF e, l
<1>4. (\A d : ~Answers(e, d)) /\ (\A p : ~Asks(e, p))
  BY <1>2 DEF Answers, Asks
<1>5. (\A d : Answers(l, d) <=> d = c) /\ (\A p : ~Asks(l, p))
  BY <1>2 DEF Answers, Asks
<1>6. /\ w \in Seq(Lines) /\ NoTwins(w)
      /\ \A d : AnswerIn(w, d) <=> AnswerIn(wire, d)
      /\ \A d : ErrorIn(wire, d) => ErrorIn(w, d)
      /\ \A p : AskIn(w, p) <=> AskIn(wire, p)
      /\ \A t : TypeIn(wire, t) => TypeIn(w, t)
  BY <1>1, <1>2, <1>4, AppendLine
<1> HIDE DEF w
<1> DEFINE u == Append(w, l)
<1>7. /\ u \in Seq(Lines) /\ NoTwins(u)
      /\ \A d : AnswerIn(u, d) <=> AnswerIn(w, d) \/ d = c
      /\ \A d : ErrorIn(w, d) => ErrorIn(u, d)
      /\ \A p : AskIn(u, p) <=> AskIn(w, p)
      /\ \A t : TypeIn(w, t) => TypeIn(u, t)
  <2>1. /\ \A d \in Callers : Answers(l, d) => ~AnswerIn(w, d)
        /\ \A p \in Requests : Asks(l, p) => ~AskIn(w, p)
    BY <1>1, <1>5, <1>6
  <2> QED
    BY <1>2, <1>5, <1>6, <2>1, AppendLine
<1>8. wire' = u
  BY <1>3
<1> HIDE DEF u
<1> QED
  BY <1>6, <1>7, <1>8 DEF AnswerSent, NothingTold

\* Before it is asked to answer event.subscribe, the client has heard of no
\* request on this connection.
LEMMA ToldAndAnswer ==
    ASSUME TuiInv, NEW c \in asked, ~listening, ServeSubscribe(c)
    PROVE  AnswerSent(c) /\ \A p \in Requests : AskIn(wire', p) => request[p] # "new"
<1> DEFINE e == [type |-> "requested", id |-> replay]
           f == [type |-> "denied", id |-> replay]
           l == [type |-> "ok", to |-> c]
<1>1. /\ c \in Callers /\ ~AnswerIn(wire, c) /\ wire \in Seq(Lines) /\ NoTwins(wire)
      /\ \A p \in Requests : ~AskIn(wire, p)
  BY OwesAnswer DEF TuiInv, TuiTypeOK, ClientTypeOK, RequestInv
<1>2. l \in Lines /\ l.type = "ok" /\ l.to = c
  BY <1>1 DEF Lines
<1>3. \/ wire' = Append(wire, l)
      \/ /\ replay \in Requests /\ request[replay] # "new"
         /\ \/ wire' = Append(Append(wire, e), l)
            \/ wire' = Append(Append(Append(wire, e), f), l)
  <2>1. PICK told \in Told : wire' = wire \o Append(told, l)
    BY DEF ServeSubscribe
  <2>2. \/ told = <<>>
        \/ /\ replay \in Requests /\ request[replay] # "new"
           /\ told \in {<<e>>, <<e, f>>}
    BY DEF Told, TuiInv, TuiTypeOK
  <2> HIDE DEF e, f, l
  <2>3. /\ wire \o Append(<<>>, l) = Append(wire, l)
        /\ wire \o Append(<<e>>, l) = Append(Append(wire, e), l)
        /\ wire \o Append(<<e, f>>, l) = Append(Append(Append(wire, e), f), l)
    BY <1>1, <1>2
  <2> QED
    BY <2>1, <2>2, <2>3
<1>4. (\A d : Answers(l, d) <=> d = c) /\ (\A p : ~Asks(l, p))
  BY <1>2 DEF Answers, Asks
\* The answer, after whatever was told.
<1>5. ASSUME NEW w \in Seq(Lines), NoTwins(w), wire' = Append(w, l),
             \A d : AnswerIn(w, d) <=> AnswerIn(wire, d),
             \A d : ErrorIn(wire, d) => ErrorIn(w, d),
             \A t : TypeIn(wire, t) => TypeIn(w, t)
      PROVE  AnswerSent(c) /\ \A p : AskIn(wire', p) <=> AskIn(w, p)
  <2> HIDE DEF l
  <2> DEFINE u == Append(w, l)
  <2>1. /\ \A d \in Callers : Answers(l, d) => ~AnswerIn(w, d)
        /\ \A p \in Requests : Asks(l, p) => ~AskIn(w, p)
    BY <1>1, <1>4, <1>5
  <2>2. /\ u \in Seq(Lines) /\ NoTwins(u)
        /\ \A d : AnswerIn(u, d) <=> AnswerIn(w, d) \/ d = c
        /\ \A d : ErrorIn(w, d) => ErrorIn(u, d)
        /\ \A p : AskIn(u, p) <=> AskIn(w, p)
        /\ \A t : TypeIn(w, t) => TypeIn(u, t)
    BY <1>2, <1>4, <1>5, <2>1, AppendLine
  <2>3. wire' = u
    BY <1>5
  <2> HIDE DEF u
  <2> QED
    BY <1>5, <2>2, <2>3 DEF AnswerSent
<1>6. CASE wire' = Append(wire, l)
  BY <1>1, <1>5, <1>6
<1>7. ASSUME replay \in Requests, request[replay] # "new",
             \/ wire' = Append(Append(wire, e), l)
             \/ wire' = Append(Append(Append(wire, e), f), l)
      PROVE  AnswerSent(c) /\ \A p \in Requests : AskIn(wire', p) => request[p] # "new"
  <2> DEFINE v == Append(wire, e)
             w == Append(v, f)
  <2>1. /\ e \in Lines /\ e.type = "requested" /\ e.id = replay
        /\ f \in Lines /\ f.type = "denied"
    BY <1>7 DEF Lines
  <2> HIDE DEF e, f, l
  <2>2. /\ (\A d : ~Answers(e, d)) /\ \A p : Asks(e, p) <=> p = replay
        /\ (\A d : ~Answers(f, d)) /\ \A p : ~Asks(f, p)
    BY <2>1 DEF Answers, Asks
  <2>3. /\ v \in Seq(Lines) /\ NoTwins(v)
        /\ \A d : AnswerIn(v, d) <=> AnswerIn(wire, d)
        /\ \A d : ErrorIn(wire, d) => ErrorIn(v, d)
        /\ \A p : AskIn(v, p) <=> AskIn(wire, p) \/ p = replay
        /\ \A t : TypeIn(wire, t) => TypeIn(v, t)
    BY <1>1, <2>1, <2>2, AppendLine
  <2> HIDE DEF v
  <2>4. /\ w \in Seq(Lines) /\ NoTwins(w)
        /\ \A d : AnswerIn(w, d) <=> AnswerIn(v, d)
        /\ \A d : ErrorIn(v, d) => ErrorIn(w, d)
        /\ \A p : AskIn(w, p) <=> AskIn(v, p)
        /\ \A t : TypeIn(v, t) => TypeIn(w, t)
    BY <2>1, <2>2, <2>3, AppendLine
  <2>5. wire' = Append(v, l) \/ wire' = Append(w, l)
    BY <1>7 DEF v, w
  <2> HIDE DEF w
  <2>6. AnswerSent(c) /\ \A p : AskIn(wire', p) <=> AskIn(v, p)
    <3>1. CASE wire' = Append(v, l)
      BY <1>5, <2>3, <3>1
    <3>2. CASE wire' = Append(w, l)
      BY <1>5, <2>3, <2>4, <3>2
    <3> QED
      BY <2>5, <3>1, <3>2
  <2> QED
    BY <1>1, <1>7, <2>3, <2>6
<1> QED
  BY <1>1, <1>3, <1>6, <1>7

\* What serving a command comes to.
LEMMA ServeFacts ==
    ASSUME TuiInv, NEW c \in Callers, Serve(c)
    PROVE  /\ c \in asked /\ asked' = asked \ {c}
           /\ UNCHANGED <<conn, link, loop, call, replay, mute, uiVars>>
           /\ AnswerSent(c)
           /\ queued' = queued \/ (c = Sender /\ queued' = queued + 1)
           /\ c = Sender => queued' = queued + 1 \/ ErrorIn(wire', Sender)
           /\ holder' = holder \/ (holder \in {"nobody", "shut"} /\ holder' = "shut")
           /\ listening' = listening \/ (c = Worker /\ listening' = TRUE)
           /\ request' \in [Requests -> {"new", "open", "denying", "settled", "denied"}]
           /\ \A p \in Requests : request'[p] = "new" <=> request[p] = "new"
           /\ \A p \in Requests : AskIn(wire', p) =>
                 AskIn(wire, p) \/ (request[p] # "new" /\ ~listening /\ listening')
<1> DEFINE m == call[c].method
<1>1. /\ c \in asked /\ asked' = asked \ {c}
      /\ UNCHANGED <<conn, link, loop, call, replay, uiVars>>
  BY DEF Serve
<1>2. /\ call[c].state = "waiting"
      /\ c = Sender => m \in {"send", Nothing}
      /\ m = "send" => c = Sender
      /\ m = "subscribe" => c = Worker /\ ~listening
      /\ m = "respond" => call[c].arg \in Requests
  BY <1>1, OwesAnswer, Tasks DEF TuiInv, MethodInv, Nothing
<1>3. request \in [Requests -> {"new", "open", "denying", "settled",
   "denied"}] /\ Sender # Worker
  BY Tasks DEF TuiInv, TuiTypeOK
<1> HIDE DEF m
<1>4. CASE ServeSubscribe(c)
  <2>1. m = "subscribe" /\ listening' = TRUE /\ UNCHANGED <<queued, holder, mute, request>>
    BY <1>4 DEF ServeSubscribe, sessionVars, m
  <2>2. AnswerSent(c) /\ \A p \in Requests : AskIn(wire', p) => request[p] # "new"
    BY <1>1, <1>2, <1>4, <2>1, ToldAndAnswer
  <2> QED
    BY <1>1, <1>2, <1>3, <2>1, <2>2
<1>5. CASE ServeSend(c)
  <2>1. m = "send" /\ queued' = queued + 1 /\ UNCHANGED <<listening, holder, mute, request>>
    BY <1>5 DEF ServeSend, m
  <2>2. AnswerSent(c) /\ NothingTold
    BY <1>1, <1>5, OneAnswer DEF ServeSend
  <2> QED
    BY <1>1, <1>2, <1>3, <2>1, <2>2 DEF NothingTold
<1>6. CASE ServeClose(c)
  <2>1. /\ m = "close" /\ holder \in {"nobody", "shut"} /\ holder' = "shut"
        /\ UNCHANGED <<listening, queued, mute, request>>
    BY <1>6 DEF ServeClose, m
  <2>2. AnswerSent(c) /\ NothingTold
    BY <1>1, <1>6, ClosedAndAnswer DEF ServeClose
  <2>3. c # Sender
    BY <1>2, <2>1 DEF Nothing
  <2> QED
    BY <1>1, <1>2, <1>3, <2>1, <2>2, <2>3 DEF NothingTold
<1>7. CASE ServeRespond(c)
  <2>1. m = "respond" /\ UNCHANGED <<listening, queued, holder, mute>>
    BY <1>7 DEF ServeRespond, sessionVars, m
  <2>2. AnswerSent(c) /\ NothingTold
    BY <1>1, <1>7, OneAnswer DEF ServeRespond
  <2>3. /\ request' \in [Requests -> {"new", "open", "denying", "settled", "denied"}]
        /\ \A p \in Requests : request'[p] = "new" <=> request[p] = "new"
    BY <1>2, <1>3, <1>7, <2>1 DEF ServeRespond
  <2>4. c # Sender
    BY <1>2, <2>1 DEF Nothing
  <2> QED
    BY <1>1, <2>1, <2>2, <2>3, <2>4 DEF NothingTold
<1>8. CASE Refuse(c)
  <2>1. UNCHANGED <<listening, queued, holder, mute, request>>
    BY <1>8 DEF Refuse, sessionVars
  <2>2. AnswerSent(c) /\ NothingTold /\ ErrorIn(wire', c)
    BY <1>1, <1>8, OneAnswer DEF Refuse
  <2> QED
    BY <1>1, <1>2, <1>3, <2>1, <2>2 DEF NothingTold
<1>9. CASE /\ m = "create"
           /\ Send([type |-> "ok", to |-> c])
           /\ UNCHANGED <<listening, sessionVars, request>>
  <2>1. UNCHANGED <<listening, queued, holder, mute, request>>
    BY <1>9 DEF sessionVars
  <2>2. AnswerSent(c) /\ NothingTold
    BY <1>1, <1>9, OneAnswer
  <2>3. c # Sender
    BY <1>2, <1>9 DEF Nothing
  <2> QED
    BY <1>1, <1>2, <1>3, <2>1, <2>2, <2>3 DEF NothingTold
<1> QED
  BY <1>4, <1>5, <1>6, <1>7, <1>8, <1>9 DEF Serve, m

LEMMA ServeStep ==
    ASSUME TuiInv, NEW c \in Callers, Serve(c)
    PROVE  TuiInv'
<1>1. /\ c \in asked /\ asked' = asked \ {c}
      /\ UNCHANGED <<conn, link, loop, call, replay, mute, uiVars>>
      /\ AnswerSent(c)
      /\ queued' = queued \/ (c = Sender /\ queued' = queued + 1)
      /\ c = Sender => queued' = queued + 1 \/ ErrorIn(wire', Sender)
      /\ holder' = holder \/ (holder \in {"nobody", "shut"} /\ holder' = "shut")
      /\ listening' = listening \/ (c = Worker /\ listening' = TRUE)
      /\ request' \in [Requests -> {"new", "open", "denying", "settled", "denied"}]
      /\ \A p \in Requests : request'[p] = "new" <=> request[p] = "new"
      /\ \A p \in Requests : AskIn(wire', p) =>
            AskIn(wire, p) \/ (request[p] # "new" /\ ~listening /\ listening')
  BY ServeFacts
<1>2. link = "up" /\ call[c].state = "waiting" /\ ~AnswerIn(wire, c)
  BY <1>1, OwesAnswer
<1>3. wire' \in Seq(Lines) /\ NoTwins(wire')
  BY <1>1 DEF AnswerSent
<1>10. TuiTypeOK'
  <2>1. ClientTypeOK'
    BY <1>1, <1>3 DEF TuiInv, TuiTypeOK, ClientTypeOK
  <2>2. queued' \in 0..MaxInputs
    BY <1>1, TuiAssumption DEF TuiInv, TuiTypeOK, TurnsInv, uiVars
  <2>3. holder' \in {"nobody", "shut", "turn", "reported",
     "compaction"} /\ listening' \in BOOLEAN
    BY <1>1 DEF TuiInv, TuiTypeOK
  <2> QED
    BY <1>1, <2>1, <2>2, <2>3 DEF TuiInv, TuiTypeOK, uiVars, screenVars
<1>11. LinkInv'
  BY <1>1, <1>2 DEF TuiInv, LinkInv, HasClient, uiVars, screenVars
<1>12. WaitersHaveAReader'
  BY <1>1, <1>2 DEF TuiInv, WaitersHaveAReader
<1>13. ASSUME NEW d \in Callers PROVE AnswerInv(d)'
  BY <1>1, <1>2, <1>13 DEF TuiInv, AnswerInv, AnswerSent
<1>14. NoTwins(wire')
  BY <1>3
<1>15. MethodInv'
  BY <1>1, <1>2 DEF TuiInv, MethodInv, uiVars, screenVars
<1>16. TurnsInv'
  BY <1>1, <1>2 DEF TuiInv, TurnsInv, TuiTypeOK, uiVars
<1>17. ASSUME NEW q \in Requests PROVE RequestInv(q)'
  BY <1>1, <1>2, <1>17 DEF TuiInv, RequestInv, uiVars, screenVars
<1>18. PromptInv'
  BY <1>1, <1>2 DEF TuiInv, PromptInv, uiVars, screenVars
<1>19. BlockInv'
  BY <1>1, <1>2 DEF TuiInv, BlockInv, uiVars, screenVars
<1>20. BusyInv'
  BY <1>1, <1>2 DEF TuiInv, BusyInv, uiVars, screenVars, AnswerSent, TuiTypeOK
<1> QED
  BY <1>10, <1>11, <1>12, <1>13, <1>14, <1>15, <1>16, <1>17, <1>18, <1>19, <1>20 DEF TuiInv

LEMMA CompactionEndsStep ==
    ASSUME TuiInv, CompactionEnds
    PROVE  TuiInv'
<1>1. /\ wire' \in Seq(Lines) /\ NoTwins(wire') /\ ~(Sender = Compactor)
      /\ \A d : d # Compactor => (AnswerIn(wire', d) <=> AnswerIn(wire, d))
      /\ \A d : ErrorIn(wire, d) => ErrorIn(wire', d)
      /\ \A p : AskIn(wire', p) => AskIn(wire, p)
      /\ \A t : TypeIn(wire, t) => TypeIn(wire', t)
      /\ call[Compactor].state = "waiting"
  <2>1. Compactor \in asked /\ call[Compactor].state = "waiting"
    BY OwesAnswer DEF CompactionEnds
  <2>2. PICK t \in {"ok", "error"} : Send([type |-> t, to |-> Compactor])
    BY DEF CompactionEnds
  <2>3. AnswerSent(Compactor) /\ NothingTold
    BY <2>1, <2>2, OneAnswer
  <2> QED
    BY <2>1, <2>3, Tasks DEF AnswerSent, NothingTold
<1>10. TuiTypeOK'
  <2>1. ClientTypeOK'
    BY <1>1 DEF TuiInv, TuiTypeOK, ClientTypeOK, CompactionEnds, Released, uiVars, screenVars
  <2> QED
    BY <1>1, <2>1, TuiAssumption DEF TuiInv, TuiTypeOK, CompactionEnds, Released, uiVars,
       screenVars
<1>11. LinkInv'
  BY <1>1 DEF TuiInv, LinkInv, HasClient, CompactionEnds, Released, uiVars, screenVars
<1>12. WaitersHaveAReader'
  BY <1>1 DEF TuiInv, WaitersHaveAReader, LinkInv, HasClient, CompactionEnds, Released,
     uiVars, screenVars
<1>13. ASSUME NEW d \in Callers PROVE AnswerInv(d)'
  BY <1>1, <1>13 DEF TuiInv, AnswerInv, CompactionEnds, Released, uiVars, screenVars
<1>14. NoTwins(wire')
  BY <1>1 DEF TuiInv, CompactionEnds, Released, uiVars, screenVars
<1>15. MethodInv'
  BY <1>1 DEF TuiInv, MethodInv, CompactionEnds, Released, uiVars, screenVars
<1>16. TurnsInv'
  BY <1>1 DEF TuiInv, TurnsInv, TuiTypeOK, CompactionEnds, Released, uiVars, screenVars
<1>17. ASSUME NEW q \in Requests PROVE RequestInv(q)'
  BY <1>1, <1>17 DEF TuiInv, RequestInv, TuiTypeOK, CompactionEnds, Released, uiVars, screenVars
<1>18. PromptInv'
  BY <1>1 DEF TuiInv, PromptInv, CompactionEnds, Released, uiVars, screenVars
<1>19. BlockInv'
  BY <1>1 DEF TuiInv, BlockInv, CompactionEnds, Released, uiVars, screenVars
<1>20. BusyInv'
  BY <1>1 DEF TuiInv, BusyInv, CompactionEnds, Released, uiVars, screenVars
<1> QED
  BY <1>10, <1>11, <1>12, <1>13, <1>14, <1>15, <1>16, <1>17, <1>18, <1>19, <1>20 DEF TuiInv

LEMMA QuitAsksStep ==
    ASSUME TuiInv, PumpFree, HasSession, app' = "quitting", SendCommand(Pump, "close", Nothing),
           UNCHANGED <<daemonVars, worker, starting, busy, busyOn, prompt,
                       screenVars, inputs>>
    PROVE  TuiInv'
<1>1. /\ call' \in [Callers -> Commands]
      /\ call'[Pump].method = "close"
      /\ call'[Pump].state \in {"waiting", "oserror", "lost"}
      /\ link = "up" => call'[Pump].state = "waiting"
      /\ call'[Pump].state = "waiting" => link = "up" \/ loop = "reading"
      /\ \A d \in Callers : d # Pump => call'[d] = call[d]
      /\ asked' = (IF link = "up" THEN asked \cup {Pump} ELSE asked)
      /\ conn' = conn /\ link' = link /\ loop' = loop /\ wire' = wire
  BY Sent, Tasks DEF TuiInv, Methods
<1>10. TuiTypeOK'
  <2>1. ClientTypeOK'
    BY <1>1 DEF TuiInv, TuiTypeOK, ClientTypeOK, daemonVars, HasSession, PumpFree, screenVars,
       sessionVars
  <2> QED
    BY <1>1, <2>1 DEF TuiInv, TuiTypeOK, daemonVars, HasSession, PumpFree, screenVars,
       sessionVars
<1>11. LinkInv'
  BY <1>1 DEF TuiInv, LinkInv, HasClient, daemonVars, HasSession, PumpFree, screenVars,
     sessionVars
<1>12. WaitersHaveAReader'
  BY <1>1 DEF TuiInv, WaitersHaveAReader, LinkInv, daemonVars, HasSession, PumpFree,
     HasClient, screenVars, sessionVars
<1>13. ASSUME NEW d \in Callers PROVE AnswerInv(d)'
  BY <1>1, <1>13 DEF TuiInv, AnswerInv, daemonVars, HasSession, PumpFree, screenVars,
     sessionVars
<1>14. NoTwins(wire')
  BY <1>1 DEF TuiInv, daemonVars, HasSession, PumpFree, screenVars, sessionVars
<1>15. MethodInv'
  BY <1>1, Tasks DEF TuiInv, MethodInv, daemonVars, HasSession, PumpFree, screenVars,
     sessionVars
<1>16. TurnsInv'
  BY <1>1, Tasks DEF TuiInv, TurnsInv, daemonVars, HasSession, PumpFree, screenVars, sessionVars
<1>17. ASSUME NEW q \in Requests PROVE RequestInv(q)'
  BY <1>1, <1>17 DEF TuiInv, RequestInv, daemonVars, HasSession, PumpFree, screenVars,
     sessionVars
<1>18. PromptInv'
  BY <1>1 DEF TuiInv, PromptInv, daemonVars, HasSession, PumpFree, screenVars, sessionVars
<1>19. BlockInv'
  BY <1>1 DEF TuiInv, BlockInv, daemonVars, HasSession, PumpFree, screenVars, sessionVars
<1>20. BusyInv'
  BY <1>1, Tasks DEF TuiInv, BusyInv, daemonVars, HasSession, PumpFree, screenVars, sessionVars
<1> QED
  BY <1>10, <1>11, <1>12, <1>13, <1>14, <1>15, <1>16, <1>17, <1>18, <1>19, <1>20 DEF TuiInv

LEMMA QuitStep ==
    ASSUME TuiInv, Quit
    PROVE  TuiInv'
<1>1. CASE HasSession
  BY <1>1, QuitAsksStep DEF Quit
<1>2. CASE ~HasSession
  BY <1>2, GoneStep DEF Quit
<1> QED
  BY <1>1, <1>2

LEMMA DecidedStep ==
    ASSUME TuiInv, Decided
    PROVE  TuiInv'
<1>1. CASE call[Pump].state = "cancelled"
  BY <1>1, GoneStep DEF Decided
<1>2. CASE call[Pump].state # "cancelled"
  BY <1>2, PumpGoesOnStep DEF Decided
<1> QED
  BY <1>1, <1>2

-----------------------------------------------------------------------------
LEMMA StartsInTuiInv == TuiInit => TuiInv
<1> SUFFICES ASSUME TuiInit PROVE TuiInv
  OBVIOUS
<1>1. /\ call \in [Callers -> Commands] /\ (\A c \in Callers : call[c] = Idle)
      /\ wire = <<>> /\ asked = {} /\ link = "none" /\ loop = "off" /\ conn = 0
  <2>1. Idle \in Commands
    BY DEF Idle, Commands, CallStates
  <2> QED
    BY <2>1 DEF TuiInit, ClientInit
<1>2. ClientTypeOK
  BY <1>1, NoLine, TuiAssumption DEF ClientTypeOK
<1>3. /\ selects \in Seq(Selects) /\ IsInjective(selects) /\ ToSet(selects) = {}
      /\ decided \in Seq(Selects) /\ Len(decided) = 0
  BY DEF TuiInit, IsInjective, ToSet
<1>4. TuiTypeOK
  <2>1. /\ app = "running" /\ worker = "connecting" /\ prompt = "off" /\ blocks = {}
        /\ starting \in BOOLEAN /\ busy \in BOOLEAN /\ mixed \in BOOLEAN
        /\ busyOn = 0 /\ inputs = 0 /\ queued = 0 /\ holder = "nobody"
        /\ listening \in BOOLEAN /\ mute \in BOOLEAN
        /\ request \in [Requests -> {"new", "open", "denying", "settled", "denied"}]
        /\ replay \in Requests \cup {Nothing}
    BY DEF TuiInit
  <2> QED
    BY <1>2, <1>3, <2>1, TuiAssumption DEF TuiTypeOK
<1>5. \A c : ~AnswerIn(wire, c) /\ ~AskIn(wire, c)
  BY <1>1, NoLine
<1>6. NoTwins(wire)
  BY <1>1, NoLine
<1>7. LinkInv /\ WaitersHaveAReader /\ \A c \in Callers : AnswerInv(c)
  BY <1>1, <1>3, <1>5 DEF TuiInit, LinkInv, WaitersHaveAReader, AnswerInv, Idle
<1>8. MethodInv /\ TurnsInv
  BY <1>1, Tasks DEF TuiInit, MethodInv, TurnsInv, Idle
<1>9. \A p \in Requests : RequestInv(p)
  BY <1>1, <1>3, <1>5 DEF RequestInv
<1>10. PromptInv /\ BlockInv /\ BusyInv
  BY DEF TuiInit, PromptInv, BlockInv, BusyInv
<1> QED
  BY <1>4, <1>6, <1>7, <1>8, <1>9, <1>10 DEF TuiInv

LEMMA TuiStep == TuiInv /\ [TuiNext]_tuiVars => TuiInv'
<1> SUFFICES ASSUME TuiInv, [TuiNext]_tuiVars PROVE TuiInv'
  OBVIOUS
<1>1. CASE SocketLoop
  BY <1>1, ConnectStep, ConnectFailsStep, WakeStep, SubscribedStep, CreatedStep,
     HandshakeFailsStep, LoopEndedStep DEF SocketLoop
<1>2. CASE EventLoop
  BY <1>2, ReadLineStep, EndOfStreamStep DEF EventLoop
<1>3. CASE Handlers
  BY <1>3, StartSendStep, SendReturnsStep, CompactReturnsStep, DecideStep, DecidedStep,
     CloseReturnsStep DEF Handlers
<1>4. CASE User
  <2>1. PickFirst => \E i \in DOMAIN selects : Pick(i)
    BY DEF PickFirst, Pick
  <2> QED
    BY <1>4, <2>1, SubmitStep, CompactStep, QuitStep, PickStep DEF User
<1>5. CASE Daemon
  BY <1>5, ServeStep, CompactionStartsStep, CompactionEndsStep, TurnStartsStep,
     TurnReportsStep, TurnEndsStep, OtherClientStep, ConnectionBreaksStep, AskStep,
     SettleElsewhereStep, DenyStep DEF Daemon
<1>6. CASE UNCHANGED tuiVars
  BY <1>6 DEF tuiVars, clientVars, uiVars, daemonVars, TuiInv, TuiTypeOK, ClientTypeOK,
     LinkInv, screenVars, sessionVars,
     HasClient, WaitersHaveAReader, AnswerInv, MethodInv, TurnsInv, RequestInv, PromptInv,
     BlockInv, BusyInv
<1> QED
  BY <1>1, <1>2, <1>3, <1>4, <1>5, <1>6 DEF TuiNext

\* What the four below follow from: the screen, the calls and the wire agree in
\* every state the client reaches.
THEOREM TuiInvariant == TuiSpec => []TuiInv
  BY StartsInTuiInv, TuiStep, PTL DEF TuiSpec

\* Of one connection, a request has one select at most, told of live or in the
\* replay; and every other part of the client keeps to its type
\* (_handle_event_inner on permission.requested, RepoClaudeTuiApp.__init__).
THEOREM TuiTypeCorrect == TuiSpec => []TuiTypeOK
<1>1. TuiInv => TuiTypeOK
  BY DEF TuiInv
<1> QED
  BY <1>1, TuiInvariant, PTL

\* While a connection stands, a busy client waits for something that ends with
\* an event or an error, unless a turn ended and said nothing; and a closed
\* prompt is closed for what its title says
\* (on_chat_text_area_submitted, on_permission_select_decided).
THEOREM LockedForAReasonHolds == TuiSpec => []LockedForAReason
<1>1. ASSUME TuiInv PROVE LockedForAReason
  <2>1. OnTheWire("waiting_for_input") <=> TypeIn(wire, "waiting_for_input")
    <3>1. DOMAIN wire = 1..Len(wire)
      BY <1>1 DEF TuiInv
    <3> QED
      BY <3>1 DEF OnTheWire, TypeIn
  <2> QED
    BY <1>1, <2>1 DEF TuiInv, LockedForAReason, BusyInv, PromptInv
<1> QED
  BY <1>1, TuiInvariant, PTL

\* A request that came alone has a select of its own on the screen, whatever
\* was answered, denied, lost or replayed before (PermissionSelect,
\* permission.denied).
THEOREM AloneIsAnswerableHolds == TuiSpec => []AloneIsAnswerable
<1>1. ASSUME TuiInv PROVE AloneIsAnswerable
  <2>1. \A s \in ToSet(selects) : \E i \in DOMAIN selects : selects[i] = s
    BY DEF ToSet
  <2> QED
    BY <1>1, <2>1 DEF TuiInv, BlockInv, AloneIsAnswerable
<1> QED
  BY <1>1, TuiInvariant, PTL

\* Whoever awaits an answer awaits a reader that runs (run_event_loop).
THEOREM WaitersHaveAReaderHolds == TuiSpec => []WaitersHaveAReader
<1>1. TuiInv => WaitersHaveAReader
  BY DEF TuiInv
<1> QED
  BY <1>1, TuiInvariant, PTL
=============================================================================
