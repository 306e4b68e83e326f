--------------------------- MODULE McpClientProofs ---------------------------
(***************************************************************************)
(* Proofs about McpClient: a tool result is the answer to the very attempt *)
(* that got it, no reader takes an answer away from another, and the counts *)
(* of the model stay within their bounds, for any number of calls, retries *)
(* and lines of the server.                                                *)
(*                                                                         *)
(* AnswersTheCall is not inductive: it holds because ids are never used    *)
(* twice and a caller's id goes with its attempt.  Inv says so of every    *)
(* place an id may be: with a caller, with the server, in the stream.      *)
(*                                                                         *)
(* NoAnswerReadAway stands on the lock: one call at most reads, and an     *)
(* answer in the stream that somebody waits for is the reader's.  TypeOK   *)
(* bounds the ids: nextId counts the attempts that were made, and every    *)
(* caller has its budget of those.                                         *)
(***************************************************************************)
EXTENDS McpClient, SequenceTheorems, FiniteSetTheorems, TLAPS

Att  == Callers \X Nat
Line == [type : {"answer", "error", "request", "noise", "bad"}, id : Nat, by : Att]

\* The part of TypeOK the ids need, without the bounds.
Types ==
    /\ nextId \in Nat
    /\ reqId \in [Callers -> Nat]
    /\ attempt \in [Callers -> Nat]
    /\ pc \in [Callers -> {"idle", "queued", "writing", "reading", "backoff", "done"}]
    /\ owed \subseteq [id : Nat, by : Att]
    /\ stream \in Seq(Line)
    /\ outcome \in [Callers -> [kind : {"none", "ok", "failed"}, by : Att]]

\* An id was given out, and if it is somebody's it is for the attempt he makes.
Matches(id, by) ==
    /\ id \in 1..nextId
    /\ \A c \in Callers : reqId[c] = id => by = <<c, attempt[c]>>

IdsAreOwn ==
    \A c \in Callers :
        /\ reqId[c] <= nextId
        /\ \A d \in Callers : reqId[c] = reqId[d] /\ reqId[c] # 0 => c = d

OwedMatch == \A r \in owed : Matches(r.id, r.by)

LineMatches(l) ==
    /\ l.type = "answer" => Matches(l.id, l.by)
    /\ l.type = "error" => Matches(l.id, l.by)
    /\ l.type = "request" => l.by = Nobody
StreamMatches == \A i \in 1..Len(stream) : LineMatches(stream[i])

OutcomeMatches ==
    \A c \in Callers : outcome[c].kind = "ok" =>
        pc[c] = "done" /\ outcome[c].by \in {<<c, attempt[c]>>, Nobody}

\* Whoever asks has an id to ask under.
AskersHaveIds == \A c \in Callers : pc[c] \in {"queued", "writing", "reading"} => reqId[c] # 0

Inv == Types /\ IdsAreOwn /\ AskersHaveIds /\ OwedMatch /\ StreamMatches /\ OutcomeMatches

-----------------------------------------------------------------------------
\* At the start nothing has an id.
LEMMA InitInv == Init => Inv
<1> SUFFICES ASSUME Init PROVE Inv
  OBVIOUS
<1>1. Types
  <2>1. Nobody \in Att
    BY DEF Nobody, Att, Callers
  <2>2. outcome \in [Callers -> [kind : {"none", "ok", "failed"}, by : Att]]
    BY <2>1 DEF Init
  <2>3. owed \subseteq [id : Nat, by : Att]
    BY DEF Init
  <2>4. stream \in Seq(Line)
    BY DEF Init
  <2> QED
    BY <2>2, <2>3, <2>4 DEF Init, Types
<1>2. IdsAreOwn
  BY DEF Init, IdsAreOwn
<1>3. OwedMatch /\ StreamMatches
  BY DEF Init, OwedMatch, StreamMatches
<1>4. OutcomeMatches /\ AskersHaveIds
  BY DEF Init, OutcomeMatches, AskersHaveIds
<1> QED
  BY <1>1, <1>2, <1>3, <1>4 DEF Inv

-----------------------------------------------------------------------------
(***************************************************************************)
(* What a step leaves of the ids.                                          *)
(***************************************************************************)

\* A step that gives out no id and at most takes ids away from callers.
Keeps ==
    /\ nextId' = nextId /\ attempt' = attempt
    /\ reqId' \in [Callers -> Nat]
    /\ \A c \in Callers : reqId'[c] \in {reqId[c], 0}

\* Such a step keeps the ids apart and every match.
LEMMA KeepsIds == ASSUME Inv, Keeps
                  PROVE  /\ IdsAreOwn'
                         /\ \A id \in Nat : \A by : Matches(id, by) => Matches(id, by)'
  BY DEF Inv, Types, Keeps, IdsAreOwn, Matches

\* Ask: the new id is nobody else's and in no line.
LEMMA FreshIds == ASSUME Inv, NEW c \in Callers, TakeId(c),
                         attempt' = [attempt EXCEPT ![c] = @ + 1]
                  PROVE  /\ IdsAreOwn'
                         /\ \A id \in Nat : \A by : Matches(id, by) => Matches(id, by)'
<1>1. /\ nextId' = nextId + 1 /\ nextId' \in Nat
      /\ reqId'[c] = nextId + 1
      /\ \A d \in Callers : d # c => reqId'[d] = reqId[d] /\ attempt'[d] = attempt[d]
  BY DEF TakeId, Inv, Types
<1>2. nextId \in Nat /\ \A d \in Callers : reqId[d] \in Nat /\ reqId[d] <= nextId
  BY DEF Inv, Types, IdsAreOwn
<1>3. IdsAreOwn'
  <2>1. ASSUME NEW d \in Callers, NEW e \in Callers
        PROVE  /\ reqId'[d] <= nextId'
               /\ reqId'[d] = reqId'[e] /\ reqId'[d] # 0 => d = e
    <3>1. reqId'[d] <= nextId'
      BY <1>1, <1>2
    <3>2. CASE d = c /\ e # c
      BY <3>2, <1>1, <1>2
    <3>3. CASE d # c /\ e = c
      BY <3>3, <1>1, <1>2
    <3>4. CASE d # c /\ e # c
      BY <3>1, <3>4, <1>1 DEF Inv, IdsAreOwn
    <3>5. CASE d = c /\ e = c
      BY <3>1, <3>5
    <3>6. reqId'[d] = reqId'[e] /\ reqId'[d] # 0 => d = e
      BY <3>2, <3>3, <3>4, <3>5
    <3> QED
      BY <3>1, <3>6
  <2> QED
    BY <2>1 DEF IdsAreOwn
<1>4. ASSUME NEW id \in Nat, NEW by, Matches(id, by)
      PROVE  Matches(id, by)'
  <2>1. id \in 1..nextId /\ nextId \in Nat
    BY <1>4 DEF Matches, Inv, Types
  <2>2. id \in 1..nextId'
    BY <2>1, <1>1
  <2>3. ASSUME NEW d \in Callers, reqId'[d] = id
        PROVE  by = <<d, attempt'[d]>>
    <3>1. d # c
      BY <2>1, <2>3, <1>1
    <3> QED
      BY <3>1, <2>3, <1>1, <1>4 DEF Matches
  <2> QED
    BY <2>2, <2>3 DEF Matches
<1> QED
  BY <1>3, <1>4

\* Every line a caller still has to read stays a match when matches do.
LEMMA KeepsLine ==
    ASSUME NEW l \in Line, LineMatches(l),
           \A id \in Nat : \A by : Matches(id, by) => Matches(id, by)'
    PROVE  LineMatches(l)'
  BY DEF LineMatches, Line

\* Reading a line or none leaves a stream of matches.
LEMMA SameStream ==
    ASSUME Inv, \/ stream' = stream
                \/ stream # <<>> /\ stream' = Tail(stream),
           \A id \in Nat : \A by : Matches(id, by) => Matches(id, by)'
    PROVE  StreamMatches' /\ stream' \in Seq(Line)
<1>1. stream \in Seq(Line)
  BY DEF Inv, Types
<1>2. \A i \in 1..Len(stream) : \E l \in Line : l = stream[i] /\ LineMatches(l)
  BY <1>1 DEF Inv, StreamMatches
<1>3. \A i \in 1..Len(stream') : \E j \in 1..Len(stream) : stream'[i] = stream[j]
  <2>1. CASE stream' = stream
    BY <2>1
  <2>2. CASE stream # <<>> /\ stream' = Tail(stream)
    BY <2>2, <1>1
  <2> QED
    BY <2>1, <2>2
<1>4. \A i \in 1..Len(stream') : \E l \in Line : l = stream'[i] /\ LineMatches(l)
  BY <1>2, <1>3
<1>5. StreamMatches'
  <2>1. ASSUME NEW i \in 1..Len(stream')
        PROVE  \E l \in Line : l = stream'[i] /\ LineMatches(l)'
    BY <1>4, KeepsLine
  <2> QED
    BY <2>1 DEF StreamMatches
<1>6. stream' \in Seq(Line)
  BY <1>1
<1> QED
  BY <1>5, <1>6

-----------------------------------------------------------------------------
(***************************************************************************)
(* How a _call ends.  EndsCall says what Fail, Succeed and GiveUp do to    *)
(* the caller; the request or line it ends on is treated apart.            *)
(***************************************************************************)
EndsCall(c, kind, by) ==
    /\ Keeps
    /\ \A d \in Callers : d # c => reqId'[d] = reqId[d]
    /\ \E p \in {"idle", "backoff", "done"} : pc' = [pc EXCEPT ![c] = p]
    /\ \/ UNCHANGED outcome
       \/ pc'[c] = "done" /\ outcome' = [outcome EXCEPT ![c] = [kind |-> kind, by |-> by]]

LEMMA LeaveKeeps == ASSUME Inv, NEW c \in Callers, Leave(c)
                    PROVE  Keeps /\ \A d \in Callers : d # c => reqId'[d] = reqId[d]
  BY DEF Inv, Types, Leave, Keeps

LEMMA FailEnds == ASSUME Inv, NEW c \in Callers, Fail(c)
                  PROVE  EndsCall(c, "failed", Nobody)
<1>1. Keeps /\ \A d \in Callers : d # c => reqId'[d] = reqId[d]
  BY LeaveKeeps DEF Fail
<1>2. pc \in [Callers -> {"idle", "queued", "writing", "reading", "backoff", "done"}]
  BY DEF Inv, Types
<1> QED
  BY <1>1, <1>2 DEF Fail, Goto, Yield, EndsCall

LEMMA SucceedEnds == ASSUME Inv, NEW c \in Callers, NEW by, Succeed(c, by)
                     PROVE  EndsCall(c, "ok", by)
<1>1. Keeps /\ \A d \in Callers : d # c => reqId'[d] = reqId[d]
  BY LeaveKeeps DEF Succeed
<1>2. pc \in [Callers -> {"idle", "queued", "writing", "reading", "backoff", "done"}]
  BY DEF Inv, Types
<1> QED
  BY <1>1, <1>2 DEF Succeed, Goto, Yield, EndsCall

\* A call under way that ends keeps the callers' part of the invariant, if
\* success brings the answer to its own attempt.
LEMMA EndOfCall ==
    ASSUME Inv, NEW c \in Callers, pc[c] \in {"queued", "writing", "reading", "backoff"},
           NEW kind \in {"ok", "failed"}, NEW by \in Att, EndsCall(c, kind, by),
           kind = "ok" => by \in {<<c, attempt[c]>>, Nobody}
    PROVE  /\ IdsAreOwn' /\ OutcomeMatches' /\ AskersHaveIds'
           /\ \A id \in Nat : \A b : Matches(id, b) => Matches(id, b)'
           /\ nextId' \in Nat /\ reqId' \in [Callers -> Nat]
           /\ attempt' \in [Callers -> Nat]
           /\ pc' \in [Callers -> {"idle", "queued", "writing", "reading", "backoff", "done"}]
           /\ outcome' \in [Callers -> [kind : {"none", "ok", "failed"}, by : Att]]
<1>1. /\ nextId \in Nat /\ attempt \in [Callers -> Nat]
      /\ pc \in [Callers -> {"idle", "queued", "writing", "reading", "backoff", "done"}]
      /\ outcome \in [Callers -> [kind : {"none", "ok", "failed"}, by : Att]]
  BY DEF Inv, Types
<1>2. /\ nextId' = nextId /\ attempt' = attempt /\ reqId' \in [Callers -> Nat]
  BY DEF EndsCall, Keeps
<1>3. IdsAreOwn' /\ \A id \in Nat : \A b : Matches(id, b) => Matches(id, b)'
  BY KeepsIds DEF EndsCall
<1>4. pc' \in [Callers -> {"idle", "queued", "writing", "reading", "backoff", "done"}]
  BY <1>1 DEF EndsCall
<1>5. \A d \in Callers : d # c => pc'[d] = pc[d]
  BY <1>1 DEF EndsCall
<1>8. AskersHaveIds'
  <2>1. pc'[c] \notin {"queued", "writing", "reading"}
    BY <1>1 DEF EndsCall
  <2> QED
    BY <1>5, <2>1 DEF EndsCall, Inv, AskersHaveIds
<1>6. CASE UNCHANGED outcome
  <2>1. outcome[c].kind # "ok"
    BY DEF Inv, OutcomeMatches
  <2>2. OutcomeMatches'
    BY <1>2, <1>5, <1>6, <2>1 DEF Inv, OutcomeMatches
  <2> QED
    BY <1>1, <1>2, <1>3, <1>4, <1>6, <1>8, <2>2
<1>7. CASE pc'[c] = "done" /\ outcome' = [outcome EXCEPT ![c] = [kind |-> kind, by |-> by]]
  <2>1. outcome' \in [Callers -> [kind : {"none", "ok", "failed"}, by : Att]]
    BY <1>1, <1>7
  <2>2. /\ outcome'[c] = [kind |-> kind, by |-> by]
        /\ \A d \in Callers : d # c => outcome'[d] = outcome[d]
    BY <1>1, <1>7
  <2>3. OutcomeMatches'
    BY <1>2, <1>5, <1>7, <2>2 DEF Inv, OutcomeMatches
  <2> QED
    BY <1>1, <1>2, <1>3, <1>4, <1>8, <2>1, <2>3
<1> QED
  BY <1>6, <1>7 DEF EndsCall

\* Requests that stay with the server stay matches.
LEMMA SameOwed ==
    ASSUME Inv, owed' \subseteq owed,
           \A id \in Nat : \A by : Matches(id, by) => Matches(id, by)'
    PROVE  OwedMatch' /\ owed' \subseteq [id : Nat, by : Att]
<1>1. owed' \subseteq [id : Nat, by : Att]
  BY DEF Inv, Types
<1>2. ASSUME NEW r \in owed' PROVE Matches(r.id, r.by)'
  <2>1. r \in owed /\ r.id \in Nat
    BY <1>1, <1>2
  <2>2. Matches(r.id, r.by)
    BY <2>1 DEF Inv, OwedMatch
  <2>3. \E id \in Nat : \E by : id = r.id /\ by = r.by /\ Matches(id, by)
    BY <2>1, <2>2
  <2> QED
    BY <2>3
<1> QED
  BY <1>1, <1>2 DEF OwedMatch

-----------------------------------------------------------------------------
(***************************************************************************)
(* The actions.                                                            *)
(***************************************************************************)
LEMMA NobodyIsAtt == Nobody \in Att
  BY DEF Nobody, Att, Callers

LEMMA AskStep == ASSUME Inv, NEW c \in Callers, Ask(c) PROVE Inv'
<1>1. TakeId(c) /\ attempt' = [attempt EXCEPT ![c] = @ + 1]
  BY DEF Ask
<1>2. IdsAreOwn' /\ \A id \in Nat : \A by : Matches(id, by) => Matches(id, by)'
  BY <1>1, FreshIds
<1>3. StreamMatches' /\ stream' \in Seq(Line)
  BY <1>2, SameStream DEF Ask
<1>4. OwedMatch' /\ owed' \subseteq [id : Nat, by : Att]
  BY <1>2, SameOwed DEF Ask, server
<1>5. OutcomeMatches'
  <2>1. outcome[c].kind # "ok"
    BY DEF Ask, Inv, OutcomeMatches
  <2>2. \A d \in Callers : d # c => pc'[d] = pc[d] /\ attempt'[d] = attempt[d]
    BY DEF Ask, Goto, Inv, Types
  <2> QED
    BY <2>1, <2>2 DEF Ask, Inv, OutcomeMatches
<1>6. Types'
  BY <1>3, <1>4 DEF Ask, TakeId, Goto, Inv, Types
<1>7. AskersHaveIds'
  BY DEF Ask, TakeId, Goto, Inv, Types, AskersHaveIds
<1> QED
  BY <1>2, <1>3, <1>4, <1>5, <1>6, <1>7 DEF Inv

\* A call under way that ends, with what it read, keeps the invariant.
LEMMA EndStep ==
    ASSUME Inv, NEW c \in Callers, pc[c] \in {"queued", "writing", "reading", "backoff"},
           NEW kind \in {"ok", "failed"}, NEW by \in Att, EndsCall(c, kind, by),
           kind = "ok" => by \in {<<c, attempt[c]>>, Nobody},
           owed' = owed,
           \/ stream' = stream
           \/ stream # <<>> /\ stream' = Tail(stream)
    PROVE  Inv'
<1>1. /\ IdsAreOwn' /\ OutcomeMatches' /\ AskersHaveIds'
      /\ \A id \in Nat : \A b : Matches(id, b) => Matches(id, b)'
      /\ nextId' \in Nat /\ reqId' \in [Callers -> Nat]
      /\ attempt' \in [Callers -> Nat]
      /\ pc' \in [Callers -> {"idle", "queued", "writing", "reading", "backoff", "done"}]
      /\ outcome' \in [Callers -> [kind : {"none", "ok", "failed"}, by : Att]]
  BY EndOfCall
<1>2. StreamMatches' /\ stream' \in Seq(Line)
  BY <1>1, SameStream
<1>3. OwedMatch' /\ owed' \subseteq [id : Nat, by : Att]
  BY <1>1, SameOwed
<1> QED
  BY <1>1, <1>2, <1>3 DEF Inv, Types

\* A step of the server or of a reader that skips a line leaves the callers be.
LEMMA CallersKept ==
    ASSUME Inv, UNCHANGED <<nextId, reqId, attempt, pc, outcome>>
    PROVE  /\ IdsAreOwn' /\ OutcomeMatches' /\ AskersHaveIds'
           /\ \A id \in Nat : \A b : Matches(id, b) => Matches(id, b)'
           /\ nextId' \in Nat /\ reqId' \in [Callers -> Nat]
           /\ attempt' \in [Callers -> Nat]
           /\ pc' \in [Callers -> {"idle", "queued", "writing", "reading", "backoff", "done"}]
           /\ outcome' \in [Callers -> [kind : {"none", "ok", "failed"}, by : Att]]
  BY DEF Inv, Types, IdsAreOwn, OutcomeMatches, AskersHaveIds, Matches

\* The request that goes out bears the caller's id and attempt.
LEMMA AcquireStep == ASSUME Inv, NEW c \in Callers, Acquire(c) PROVE Inv'
<1>1. /\ Goto(c, "writing")
      /\ owed' = owed \cup {[id |-> reqId[c], by |-> <<c, attempt[c]>>]}
      /\ UNCHANGED <<phase, nextId, queue, reqId, attempt, outcome>>
      /\ UNCHANGED <<stream, open, noise>>
  BY DEF Acquire
<1>2. IdsAreOwn' /\ \A id \in Nat : \A b : Matches(id, b) => Matches(id, b)'
  BY <1>1 DEF Inv, IdsAreOwn, Matches
<1>3. StreamMatches' /\ stream' \in Seq(Line)
  BY <1>1, <1>2, SameStream
<1>4. outcome[c].kind # "ok" /\ \A d \in Callers : d # c => pc'[d] = pc[d]
  BY <1>1 DEF Acquire, Goto, Inv, Types, OutcomeMatches
<1>5. OutcomeMatches'
  BY <1>1, <1>4 DEF Inv, OutcomeMatches
<1>6. AskersHaveIds' /\ reqId[c] \in 1..nextId
  BY <1>1, <1>4 DEF Acquire, Inv, Types, IdsAreOwn, AskersHaveIds
<1>7. Matches(reqId[c], <<c, attempt[c]>>)'
  BY <1>1, <1>6 DEF Inv, IdsAreOwn, Matches
<1>8. \A r \in owed : Matches(r.id, r.by)'
  BY <1>1 DEF Inv, OwedMatch, Matches
<1>9. OwedMatch'
  BY <1>1, <1>7, <1>8 DEF OwedMatch, Matches
<1>10. Types'
  BY <1>1, <1>3 DEF Goto, Inv, Types, Att
<1> QED
  BY <1>2, <1>3, <1>5, <1>6, <1>9, <1>10 DEF Inv

\* drain returns or raises.
LEMMA DrainedStep == ASSUME Inv, NEW c \in Callers, Drained(c) PROVE Inv'
<1>1. pc[c] = "writing" /\ stream' = stream /\ owed' = owed
  BY DEF Drained, server
<1>2. CASE Fail(c)
  <2>1. EndsCall(c, "failed", Nobody)
    BY <1>2, FailEnds
  <2> QED
    BY <1>1, <2>1, EndStep, NobodyIsAtt
<1>3. CASE Goto(c, "reading") /\ UNCHANGED <<phase, nextId, queue, reqId, attempt, outcome>>
  <2>1. /\ pc' \in [Callers -> {"idle", "queued", "writing", "reading", "backoff", "done"}]
        /\ pc'[c] = "reading" /\ \A d \in Callers : d # c => pc'[d] = pc[d]
    BY <1>3 DEF Goto, Inv, Types
  <2>2. OutcomeMatches' /\ AskersHaveIds'
    BY <1>1, <1>3, <2>1 DEF Inv, OutcomeMatches, AskersHaveIds
  <2>3. IdsAreOwn' /\ OwedMatch' /\ StreamMatches'
    BY <1>1, <1>3 DEF Inv, IdsAreOwn, OwedMatch, StreamMatches, LineMatches, Matches
  <2>4. Types'
    BY <1>1, <1>3, <2>1 DEF Inv, Types
  <2> QED
    BY <2>2, <2>3, <2>4 DEF Inv
<1> QED
  BY <1>2, <1>3 DEF Drained

\* A line ends the read with success only for the attempt it was meant for.
LEMMA ReadStep == ASSUME Inv, NEW c \in Callers, Read(c) PROVE Inv'
<1> DEFINE l == Head(stream)
<1>1. /\ stream # <<>> /\ stream' = Tail(stream) /\ owed' = owed
      /\ pc[c] = "reading" /\ Take(c, l)
  BY DEF Read, server
<1>2. l \in Line /\ LineMatches(l)
  <2>1. stream \in Seq(Line)
    BY DEF Inv, Types
  <2>2. 1 \in 1..Len(stream) /\ Head(stream) = stream[1] /\ stream[1] \in Line
    BY <2>1, <1>1
  <2> QED
    BY <2>2 DEF Inv, StreamMatches
<1>3. CASE Fail(c)
  <2>1. EndsCall(c, "failed", Nobody)
    BY <1>3, FailEnds
  <2> QED
    BY <1>1, <2>1, EndStep, NobodyIsAtt
<1>4. CASE l.id = reqId[c] /\ l.type \in {"answer", "request"} /\ Succeed(c, l.by)
  <2>1. l.by \in Att
    BY <1>2 DEF Line
  <2>2. EndsCall(c, "ok", l.by)
    BY <1>4, SucceedEnds
  <2>3. l.by \in {<<c, attempt[c]>>, Nobody}
    BY <1>2, <1>4 DEF LineMatches, Matches
  <2> QED
    BY <1>1, <2>1, <2>2, <2>3, EndStep
<1>5. CASE UNCHANGED caller
  <2>1. UNCHANGED <<nextId, reqId, attempt, pc, outcome>>
    BY <1>5 DEF caller
  <2>2. /\ IdsAreOwn' /\ OutcomeMatches' /\ AskersHaveIds'
        /\ \A id \in Nat : \A b : Matches(id, b) => Matches(id, b)'
    BY <2>1, CallersKept
  <2>3. StreamMatches' /\ stream' \in Seq(Line)
    BY <1>1, <2>2, SameStream
  <2>4. OwedMatch' /\ owed' \subseteq [id : Nat, by : Att]
    BY <1>1, <2>2, SameOwed
  <2> QED
    BY <2>1, <2>2, <2>3, <2>4 DEF Inv, Types
<1> QED
  BY <1>1, <1>3, <1>4, <1>5 DEF Take

LEMMA ReadFailsStep == ASSUME Inv, NEW c \in Callers, ReadFails(c) PROVE Inv'
<1>1. EndsCall(c, "failed", Nobody)
  BY FailEnds DEF ReadFails
<1> QED
  BY <1>1, EndStep, NobodyIsAtt DEF ReadFails, server

LEMMA GiveUpStep == ASSUME Inv, NEW c \in Callers, GiveUp(c) PROVE Inv'
<1>1. Keeps /\ \A d \in Callers : d # c => reqId'[d] = reqId[d]
  BY LeaveKeeps DEF GiveUp
<1>2. EndsCall(c, "failed", Nobody)
  BY <1>1 DEF GiveUp, Goto, Yield, EndsCall, Inv, Types
<1> QED
  BY <1>2, EndStep, NobodyIsAtt DEF GiveUp, server

-----------------------------------------------------------------------------
\* What the server appends, its answers included, is a match.
LEMMA AppendedLine ==
    ASSUME Inv, UNCHANGED <<nextId, reqId, attempt, pc, outcome>>,
           owed' \subseteq owed,
           NEW l \in Line, LineMatches(l), stream' = Append(stream, l)
    PROVE  Inv'
<1>1. /\ IdsAreOwn' /\ OutcomeMatches' /\ AskersHaveIds'
      /\ \A id \in Nat : \A b : Matches(id, b) => Matches(id, b)'
  BY CallersKept
<1>2. OwedMatch' /\ owed' \subseteq [id : Nat, by : Att]
  BY <1>1, SameOwed
<1>3. stream \in Seq(Line) /\ stream' \in Seq(Line)
  BY DEF Inv, Types
<1>4. \A i \in 1..Len(stream') : \E m \in Line : m = stream'[i] /\ LineMatches(m)
  <2>1. ASSUME NEW i \in 1..Len(stream')
        PROVE  \E m \in Line : m = stream'[i] /\ LineMatches(m)
    <3>1. CASE i \in 1..Len(stream)
      BY <1>3, <3>1 DEF Inv, StreamMatches
    <3>2. CASE i = Len(stream) + 1
      BY <1>3, <3>2
    <3> QED
      BY <1>3, <3>1, <3>2
  <2> QED
    BY <2>1
<1>5. StreamMatches'
  <2>1. ASSUME NEW i \in 1..Len(stream')
        PROVE  \E m \in Line : m = stream'[i] /\ LineMatches(m)'
    BY <1>1, <1>4, KeepsLine
  <2> QED
    BY <2>1 DEF StreamMatches
<1> QED
  BY <1>1, <1>2, <1>3, <1>5 DEF Inv, Types

LEMMA AnswerStep ==
    ASSUME Inv, NEW r \in owed, NEW type \in {"answer", "error"}, Answer(r, type)
    PROVE  Inv'
<1> DEFINE l == [type |-> type, id |-> r.id, by |-> r.by]
<1>1. r \in [id : Nat, by : Att] /\ Matches(r.id, r.by)
  BY DEF Inv, Types, OwedMatch
<1>2. l \in Line
  BY <1>1 DEF Line
<1>3. LineMatches(l)
  BY <1>1 DEF LineMatches
<1>4. stream' = Append(stream, l) /\ owed' \subseteq owed
  BY DEF Answer
<1>5. UNCHANGED <<nextId, reqId, attempt, pc, outcome>>
  BY DEF Answer, caller
<1> HIDE DEF l
<1> QED
  BY <1>2, <1>3, <1>4, <1>5, AppendedLine

LEMMA SpeakUpStep ==
    ASSUME Inv, NEW type \in {"request", "noise", "bad"}, NEW id \in Nat, SpeakUp(type, id)
    PROVE  Inv'
<1> DEFINE l == [type |-> type, id |-> id, by |-> Nobody]
<1>1. l \in Line
  BY NobodyIsAtt DEF Line
<1>2. LineMatches(l)
  BY DEF LineMatches
<1>3. stream' = Append(stream, l) /\ owed' \subseteq owed
  BY DEF SpeakUp
<1>4. UNCHANGED <<nextId, reqId, attempt, pc, outcome>>
  BY DEF SpeakUp, caller
<1> HIDE DEF l
<1> QED
  BY <1>1, <1>2, <1>3, <1>4, AppendedLine

\* The server closes, or nothing happens.
LEMMA QuietStep == ASSUME Inv, Close \/ UNCHANGED vars PROVE Inv'
<1>1. /\ UNCHANGED <<nextId, reqId, attempt, pc, outcome>>
      /\ stream' = stream /\ owed' \subseteq owed
  BY DEF Close, caller, vars
<1>2. /\ IdsAreOwn' /\ OutcomeMatches' /\ AskersHaveIds'
      /\ \A id \in Nat : \A b : Matches(id, b) => Matches(id, b)'
  BY <1>1, CallersKept
<1>3. StreamMatches' /\ stream' \in Seq(Line)
  BY <1>1, <1>2, SameStream
<1>4. OwedMatch' /\ owed' \subseteq [id : Nat, by : Att]
  BY <1>1, <1>2, SameOwed
<1> QED
  BY <1>1, <1>2, <1>3, <1>4 DEF Inv, Types

-----------------------------------------------------------------------------
LEMMA NextInv == ASSUME Inv, [Next]_vars PROVE Inv'
<1>1. ASSUME NEW c \in Callers, Ask(c) PROVE Inv'
  BY <1>1, AskStep
<1>2. ASSUME NEW c \in Callers, Acquire(c) PROVE Inv'
  BY <1>2, AcquireStep
<1>3. ASSUME NEW c \in Callers, Read(c) PROVE Inv'
  BY <1>3, ReadStep
<1>4. ASSUME NEW c \in Callers, ReadFails(c) PROVE Inv'
  BY <1>4, ReadFailsStep
<1>5. ASSUME NEW c \in Callers, GiveUp(c) PROVE Inv'
  BY <1>5, GiveUpStep
<1>6. ASSUME NEW r \in owed, NEW type \in {"answer", "error"}, Answer(r, type) PROVE Inv'
  BY <1>6, AnswerStep
<1>7. ASSUME NEW id \in ForeignIds, SpeakUp("request", id) PROVE Inv'
  <2>1. id \in Nat
    BY McpAssumption
  <2> QED
    BY <1>7, <2>1, SpeakUpStep
<1>8. ASSUME NEW type \in {"noise", "bad"}, SpeakUp(type, 0) PROVE Inv'
  BY <1>8, SpeakUpStep
<1>9. CASE Close \/ UNCHANGED vars
  BY <1>9, QuietStep
<1>10. ASSUME NEW c \in Callers, Drained(c) PROVE Inv'
  BY <1>10, DrainedStep
<1> QED
  BY <1>1, <1>2, <1>3, <1>4, <1>5, <1>6, <1>7, <1>8, <1>9, <1>10 DEF Next, ClientStep

\* The ids, wherever they are, are those of one attempt each: with the callers,
\* with the server and in the stream (McpClient._call).
THEOREM IdsMatch == Spec => []Inv
<1>1. Init => Inv
  BY InitInv
<1>2. Inv /\ [Next]_vars => Inv'
  BY NextInv
<1> QED
  BY <1>1, <1>2, PTL DEF Spec

\* A tool result is the server's answer to this very attempt of the call, or
\* made of a server request under the same id (McpClient._call, invoke_tool).
THEOREM AnswersTheCallHolds == Spec => []AnswersTheCall
<1>1. Inv => AnswersTheCall
  BY DEF Inv, OutcomeMatches, AnswersTheCall
<1> QED
  BY <1>1, IdsMatch, PTL

-----------------------------------------------------------------------------
(***************************************************************************)
(* The lock.                                                               *)
(***************************************************************************)

\* A non-empty set of numbers has a smallest one.
LEMMA Smallest ==
    ASSUME NEW T, T \subseteq Nat, T # {}
    PROVE  \E x \in T : \A y \in T : x <= y
<1> DEFINE R == OpToRel(<, Nat)
<1>1. \A x, y \in Nat : <<x, y>> \in R <=> x < y
  BY DEF OpToRel
<1>2. PICK x \in T : \A y \in T : ~(<<y, x>> \in R)
  BY NatLessThanWellFounded, WFMin
<1> HIDE DEF R
<1>3. \A y \in T : ~(y < x)
  BY <1>1, <1>2, Zenon
<1> QED
  BY <1>3

\* RemoveFirst takes one occurrence out of the sequence.
LEMMA RemoveFirstIs ==
    ASSUME NEW S, NEW s \in Seq(S), NEW e, NEW i \in 1..Len(s), s[i] = e
    PROVE  \E k \in 1..Len(s) :
              s[k] = e /\ RemoveFirst(s, e) = SubSeq(s, 1, k - 1) \o SubSeq(s, k + 1, Len(s))
<1> DEFINE I == {j \in 1..Len(s) : s[j] = e}
<1> DEFINE k == CHOOSE x \in I : \A y \in I : x <= y
<1>1. RemoveFirst(s, e) = SubSeq(s, 1, k - 1) \o SubSeq(s, k + 1, Len(s))
  BY DEF RemoveFirst, RemoveAt, SelectInSeq, Min
<1>2. I \subseteq Nat /\ I # {}
  OBVIOUS
<1>3. k \in I
  <2> HIDE DEF I
  <2> QED
    BY <1>2, Smallest
<1> HIDE DEF k
<1> QED
  BY <1>1, <1>3

\* Whoever else waits goes on waiting, and the head stays the head.
LEMMA RemoveFirstKeeps ==
    ASSUME NEW S, NEW s \in Seq(S), NEW e
    PROVE  LET t == RemoveFirst(s, e) IN
           /\ t \in Seq(S)
           /\ \A i \in 1..Len(s) : s[i] # e => \E j \in 1..Len(t) : t[j] = s[i]
           /\ s # <<>> /\ Head(s) # e => t # <<>> /\ Head(t) = Head(s)
<1> DEFINE t == RemoveFirst(s, e)
<1>1. CASE \A i \in 1..Len(s) : s[i] # e
  <2>1. t = s
    BY <1>1 DEF RemoveFirst
  <2> QED
    BY <2>1
<1>2. CASE \E i \in 1..Len(s) : s[i] = e
  <2>1. PICK k \in 1..Len(s) : s[k] = e /\ t = SubSeq(s, 1, k - 1) \o SubSeq(s, k + 1, Len(s))
    BY <1>2, RemoveFirstIs
  <2> DEFINE a == SubSeq(s, 1, k - 1)
             b == SubSeq(s, k + 1, Len(s))
  <2>2. Len(s) \in Nat /\ k \in Int /\ 1 <= k /\ k <= Len(s)
    OBVIOUS
  <2>3. /\ a \in Seq(S) /\ Len(a) = k - 1
        /\ \A i \in 1..(k - 1) : a[i] = s[i]
    <3>1. \A i \in 1..(k - 1) : s[i] \in S
      BY <2>2
    <3>2. /\ a \in Seq(S) /\ Len(a) = IF 1 <= k - 1 THEN k - 1 - 1 + 1 ELSE 0
          /\ \A i \in 1..(k - 1 - 1 + 1) : a[i] = s[1 + i - 1]
      BY <2>2, <3>1, SubSeqProperties
    <3> QED
      BY <2>2, <3>2
  <2>4. /\ b \in Seq(S) /\ Len(b) = Len(s) - k
        /\ \A i \in 1..(Len(s) - k) : b[i] = s[i + k]
    <3>1. \A i \in (k + 1)..Len(s) : s[i] \in S
      BY <2>2
    <3>2. /\ b \in Seq(S) /\ Len(b) = IF k + 1 <= Len(s) THEN Len(s) - (k + 1) + 1 ELSE 0
          /\ \A i \in 1..(Len(s) - (k + 1) + 1) : b[i] = s[(k + 1) + i - 1]
      BY <2>2, <3>1, SubSeqProperties
    <3> QED
      BY <2>2, <3>2
  <2> HIDE DEF a, b, t
  <2>5. /\ t \in Seq(S) /\ Len(t) = Len(s) - 1
        /\ \A i \in 1..(k - 1) : t[i] = s[i]
        /\ \A i \in k..(Len(s) - 1) : t[i] = s[i + 1]
    <3>1. t = a \o b
      BY <2>1 DEF t, a, b
    <3>2. Len(t) = Len(a) + Len(b) /\ t \in Seq(S)
      BY <2>3, <2>4, <3>1, ConcatProperties
    <3>3. \A i \in 1..(k - 1) : t[i] = s[i]
      BY <2>2, <2>3, <2>4, <3>1
    <3>4. ASSUME NEW i \in k..(Len(s) - 1) PROVE t[i] = s[i + 1]
      <4>1. i - (k - 1) \in 1..Len(b) /\ i > Len(a) /\ i <= Len(a) + Len(b)
        BY <2>2, <2>3, <2>4
      <4>2. t[i] = b[i - Len(a)]
        BY <2>3, <2>4, <3>1, <4>1
      <4> QED
        BY <2>2, <2>3, <2>4, <4>1, <4>2
    <3> QED
      BY <2>2, <2>3, <2>4, <3>2, <3>3, <3>4
  <2>6. ASSUME NEW i \in 1..Len(s), s[i] # e PROVE \E j \in 1..Len(t) : t[j] = s[i]
    <3>1. i # k
      BY <2>1, <2>6
    <3>2. CASE i < k
      <4>1. i \in 1..Len(t) /\ t[i] = s[i]
        BY <2>2, <2>5, <3>2
      <4> QED
        BY <4>1
    <3>3. CASE i > k
      <4>1. i - 1 \in 1..Len(t) /\ t[i - 1] = s[i]
        BY <2>2, <2>5, <3>3
      <4> QED
        BY <4>1
    <3> QED
      BY <2>2, <3>1, <3>2, <3>3
  <2>7. ASSUME s # <<>>, Head(s) # e PROVE t # <<>> /\ Head(t) = Head(s)
    <3>1. 1 < k
      BY <2>1, <2>2, <2>7
    <3>2. 1 \in 1..Len(t) /\ t[1] = s[1]
      BY <2>2, <2>5, <3>1
    <3> QED
      BY <2>5, <2>7, <3>2
  <2> QED
    BY <2>5, <2>6, <2>7 DEF t
<1> QED
  BY <1>1, <1>2

\* Whoever asks stands in the queue, and whoever writes or reads is its head:
\* one at most.
LockInv ==
    /\ queue \in Seq(Callers)
    /\ \A c \in Callers :
          pc[c] \in {"queued", "writing", "reading"} => \E i \in 1..Len(queue) : queue[i] = c
    /\ \A c \in Callers : pc[c] \in {"writing", "reading"} => Head(queue) = c

\* What was asked was asked by an attempt that was made; if its caller still
\* waits in that attempt, he has the lock and the id of the request.
Own(id, by) ==
    /\ by[2] <= attempt[by[1]]
    /\ \A c \in Callers : by = <<c, attempt[c]>> /\ pc[c] \in {"queued", "writing", "reading"}
                             => pc[c] \in {"writing", "reading"} /\ id = reqId[c]

OwnLine(l) == l.type \in {"answer", "error"} => Own(l.id, l.by)

OwnInv ==
    /\ \A r \in owed : Own(r.id, r.by)
    /\ \A i \in 1..Len(stream) : OwnLine(stream[i])

ReadInv == Inv /\ LockInv /\ OwnInv

OwnKept == \A id \in Nat, by \in Att : Own(id, by) => Own(id, by)'

\* Requests that stay and lines that are read away or stay are still their own.
LEMMA OwnStays ==
    ASSUME Inv, OwnInv, OwnKept, owed' \subseteq owed,
           stream' = stream \/ (stream # <<>> /\ stream' = Tail(stream))
    PROVE  OwnInv'
<1>1. stream \in Seq(Line) /\ owed \subseteq [id : Nat, by : Att]
  BY DEF Inv, Types
<1>2. ASSUME NEW r \in owed' PROVE Own(r.id, r.by)'
  <2>1. r \in owed /\ r.id \in Nat /\ r.by \in Att
    BY <1>1
  <2>2. \E id \in Nat, by \in Att : id = r.id /\ by = r.by /\ Own(id, by)
    BY <2>1 DEF OwnInv
  <2> QED
    BY <2>2 DEF OwnKept
<1>3. \A i \in 1..Len(stream') : \E j \in 1..Len(stream) : stream'[i] = stream[j]
  <2>1. CASE stream' = stream
    BY <2>1
  <2>2. CASE stream # <<>> /\ stream' = Tail(stream)
    BY <1>1, <2>2
  <2> QED
    BY <2>1, <2>2
<1>4. ASSUME NEW i \in 1..Len(stream') PROVE \E l \in Line : l = stream'[i] /\ OwnLine(l)'
  <2>1. PICK l \in Line : l = stream'[i] /\ OwnLine(l)
    BY <1>1, <1>3 DEF OwnInv
  <2>2. l.id \in Nat /\ l.by \in Att
    BY DEF Line
  <2>3. l.type \in {"answer", "error"} => Own(l.id, l.by)'
    BY <2>1, <2>2 DEF OwnLine, OwnKept
  <2> QED
    BY <2>1, <2>3 DEF OwnLine
<1> QED
  BY <1>2, <1>4 DEF OwnInv

\* A call that ends leaves the lock, and nobody is waited for in its attempt.
LEMMA EndReadInv ==
    ASSUME ReadInv, NEW c \in Callers, NEW kind, NEW by, EndsCall(c, kind, by), Leave(c)
    PROVE  LockInv' /\ OwnKept
<1>1. /\ pc \in [Callers -> {"idle", "queued", "writing", "reading", "backoff", "done"}]
      /\ attempt' = attempt
      /\ pc'[c] \notin {"queued", "writing", "reading"}
      /\ \A d \in Callers : d # c => pc'[d] = pc[d] /\ reqId'[d] = reqId[d]
  BY DEF ReadInv, Inv, Types, EndsCall, Keeps
<1>2. OwnKept
  BY <1>1 DEF OwnKept, Own
<1>3. /\ queue \in Seq(Callers) /\ queue' = RemoveFirst(queue, c)
      /\ queue' \in Seq(Callers)
      /\ \A i \in 1..Len(queue) : queue[i] # c => \E j \in 1..Len(queue') : queue'[j] = queue[i]
      /\ queue # <<>> /\ Head(queue) # c => queue' # <<>> /\ Head(queue') = Head(queue)
  BY RemoveFirstKeeps DEF ReadInv, LockInv, Leave
<1>4. ASSUME NEW d \in Callers, pc'[d] \in {"queued", "writing", "reading"}
      PROVE  /\ \E i \in 1..Len(queue') : queue'[i] = d
             /\ pc'[d] \in {"writing", "reading"} => Head(queue') = d
  <2>1. d # c /\ pc'[d] = pc[d]
    BY <1>1, <1>4
  <2>2. PICK i \in 1..Len(queue) : queue[i] = d
    BY <1>4, <2>1 DEF ReadInv, LockInv
  <2>3. queue # <<>>
    BY <1>3, <2>2
  <2>4. pc[d] \in {"writing", "reading"} => Head(queue) = d
    BY DEF ReadInv, LockInv
  <2> QED
    BY <1>3, <2>1, <2>2, <2>3, <2>4
<1>5. LockInv'
  BY <1>3, <1>4 DEF LockInv
<1> QED
  BY <1>2, <1>5

\* A step of the server or of a reader that skips a line.
LEMMA CallersReadInv ==
    ASSUME ReadInv, UNCHANGED caller
    PROVE  LockInv' /\ OwnKept
  BY DEF ReadInv, LockInv, OwnKept, Own, caller

\* What the server appends: an answer to what it owes, or nobody's.
LEMMA AppendedOwn ==
    ASSUME ReadInv, OwnKept, owed' \subseteq owed,
           NEW l \in Line, OwnLine(l), stream' = Append(stream, l)
    PROVE  OwnInv'
<1>1. stream \in Seq(Line) /\ owed \subseteq [id : Nat, by : Att] /\ OwnInv
  BY DEF ReadInv, Inv, Types
<1>2. ASSUME NEW r \in owed' PROVE Own(r.id, r.by)'
  <2>1. r \in owed /\ r.id \in Nat /\ r.by \in Att
    BY <1>1
  <2>2. \E id \in Nat, by \in Att : id = r.id /\ by = r.by /\ Own(id, by)
    BY <1>1, <2>1 DEF OwnInv
  <2> QED
    BY <2>2 DEF OwnKept
<1>3. ASSUME NEW i \in 1..Len(stream') PROVE \E m \in Line : m = stream'[i] /\ OwnLine(m)'
  <2>1. stream'[i] \in Line /\ (stream'[i] = l \/ \E j \in 1..Len(stream) : stream'[i] = stream[j])
    BY <1>1
  <2>2. PICK m \in Line : m = stream'[i] /\ OwnLine(m)
    BY <1>1, <2>1 DEF OwnInv
  <2>3. m.id \in Nat /\ m.by \in Att
    BY DEF Line
  <2>4. m.type \in {"answer", "error"} => Own(m.id, m.by)'
    BY <2>2, <2>3 DEF OwnLine, OwnKept
  <2> QED
    BY <2>2, <2>4 DEF OwnLine
<1> QED
  BY <1>2, <1>3 DEF OwnInv

-----------------------------------------------------------------------------
LEMMA AskReadInv == ASSUME ReadInv, NEW c \in Callers, Ask(c) PROVE LockInv' /\ OwnInv'
<1>1. /\ attempt \in [Callers -> Nat] /\ queue \in Seq(Callers)
      /\ pc \in [Callers -> {"idle", "queued", "writing", "reading", "backoff", "done"}]
      /\ reqId \in [Callers -> Nat]
  BY DEF ReadInv, Inv, Types, LockInv
<1>2. /\ attempt'[c] = attempt[c] + 1 /\ pc'[c] = "queued"
      /\ \A d \in Callers : d # c => /\ attempt'[d] = attempt[d] /\ pc'[d] = pc[d]
                                     /\ reqId'[d] = reqId[d]
      /\ queue' = Append(queue, c) /\ owed' = owed /\ stream' = stream
  BY <1>1 DEF Ask, Goto, TakeId, server
<1>3. OwnKept
  <2> SUFFICES ASSUME NEW id \in Nat, NEW by \in Att, Own(id, by) PROVE Own(id, by)'
    BY DEF OwnKept
  <2>1. by[1] \in Callers /\ by[2] \in Nat /\ by[2] <= attempt[by[1]] /\ attempt[by[1]] \in Nat
    BY <1>1 DEF Own, Att
  <2>2. by[2] <= attempt'[by[1]]
    <3>1. CASE by[1] = c
      BY <1>1, <1>2, <2>1, <3>1
    <3>2. CASE by[1] # c
      BY <1>1, <1>2, <2>1, <3>2
    <3> QED
      BY <3>1, <3>2
  <2>3. by # <<c, attempt'[c]>>
    BY <1>1, <1>2, <2>1
  <2> QED
    BY <1>2, <2>2, <2>3 DEF Own
<1>4. OwnInv'
  BY <1>2, <1>3, OwnStays DEF ReadInv
<1>5. LockInv'
  <2>1. /\ queue' \in Seq(Callers) /\ Len(queue') = Len(queue) + 1 /\ queue'[Len(queue) + 1] = c
        /\ \A i \in 1..Len(queue) : queue'[i] = queue[i]
        /\ Len(queue) \in Nat
    BY <1>1, <1>2
  <2>2. ASSUME NEW d \in Callers, pc'[d] \in {"queued", "writing", "reading"}
        PROVE  \E i \in 1..Len(queue') : queue'[i] = d
    <3>1. CASE d = c
      BY <2>1, <3>1
    <3>2. CASE d # c
      <4>1. PICK i \in 1..Len(queue) : queue[i] = d
        BY <1>2, <2>2, <3>2 DEF ReadInv, LockInv
      <4>2. i \in 1..Len(queue') /\ queue'[i] = d
        BY <2>1, <4>1
      <4> QED
        BY <4>2
    <3> QED
      BY <3>1, <3>2
  <2>3. ASSUME NEW d \in Callers, pc'[d] \in {"writing", "reading"} PROVE Head(queue') = d
    <3>1. d # c /\ pc[d] \in {"writing", "reading"}
      BY <1>2, <2>3
    <3>2. PICK i \in 1..Len(queue) : queue[i] = d
      BY <3>1 DEF ReadInv, LockInv
    <3>3. queue # <<>> /\ Head(queue) = d
      BY <1>1, <3>1, <3>2 DEF ReadInv, LockInv
    <3>4. 1 \in 1..Len(queue) /\ queue[1] = d
      BY <1>1, <3>3
    <3>5. 1 \in 1..Len(queue') /\ queue'[1] = d
      BY <2>1, <3>4
    <3> QED
      BY <2>1, <3>5
  <2> QED
    BY <2>1, <2>2, <2>3 DEF LockInv
<1> QED
  BY <1>4, <1>5

LEMMA AcquireReadInv ==
    ASSUME ReadInv, NEW c \in Callers, Acquire(c) PROVE LockInv' /\ OwnInv'
<1>1. /\ pc \in [Callers -> {"idle", "queued", "writing", "reading", "backoff", "done"}]
      /\ pc[c] = "queued" /\ pc'[c] = "writing" /\ Head(queue) = c
      /\ \A d \in Callers : d # c => pc'[d] = pc[d]
      /\ attempt' = attempt /\ reqId' = reqId /\ queue' = queue /\ stream' = stream
      /\ attempt \in [Callers -> Nat]
  BY DEF Acquire, Goto, ReadInv, Inv, Types
<1>2. OwnKept
  BY <1>1 DEF OwnKept, Own
<1>3. LockInv'
  <2>1. \A d \in Callers : pc'[d] \in {"writing", "reading"} => Head(queue') = d
    BY <1>1 DEF ReadInv, LockInv
  <2>2. \A d \in Callers : pc'[d] \in {"queued", "writing", "reading"} => pc[d] \in {"queued", "writing", "reading"}
    BY <1>1
  <2> QED
    BY <1>1, <2>1, <2>2 DEF ReadInv, LockInv
<1>4. Own(reqId[c], <<c, attempt[c]>>)'
  BY <1>1 DEF Own
<1>5. \A i \in 1..Len(stream) : \E l \in Line : l = stream[i] /\ OwnLine(l)'
  <2>1. ASSUME NEW i \in 1..Len(stream) PROVE \E l \in Line : l = stream[i] /\ OwnLine(l)'
    <3>1. PICK l \in Line : l = stream[i] /\ OwnLine(l)
      BY DEF ReadInv, Inv, Types, OwnInv
    <3>2. l.id \in Nat /\ l.by \in Att
      BY DEF Line
    <3>3. l.type \in {"answer", "error"} => Own(l.id, l.by)'
      BY <1>2, <3>1, <3>2 DEF OwnLine, OwnKept
    <3> QED
      BY <3>1, <3>3 DEF OwnLine
  <2> QED
    BY <2>1
<1>6. ASSUME NEW r \in owed' PROVE Own(r.id, r.by)'
  <2>1. CASE r \in owed
    <3>1. \E id \in Nat, by \in Att : id = r.id /\ by = r.by /\ Own(id, by)
      BY <2>1 DEF ReadInv, Inv, Types, OwnInv
    <3> QED
      BY <1>2, <3>1 DEF OwnKept
  <2>2. CASE r = [id |-> reqId[c], by |-> <<c, attempt[c]>>]
    BY <1>1, <1>4, <2>2
  <2> QED
    BY <2>1, <2>2 DEF Acquire
<1> QED
  BY <1>1, <1>3, <1>5, <1>6 DEF OwnInv

LEMMA DrainedReadInv ==
    ASSUME ReadInv, NEW c \in Callers, Drained(c) PROVE LockInv' /\ OwnInv'
<1>1. pc[c] = "writing" /\ owed' = owed /\ stream' = stream
  BY DEF Drained, server
<1>2. LockInv' /\ OwnKept
  <2>1. CASE Fail(c)
    BY <2>1, FailEnds, EndReadInv DEF Fail, ReadInv
  <2>2. CASE Goto(c, "reading") /\ UNCHANGED <<phase, nextId, queue, reqId, attempt, outcome>>
    <3>1. /\ pc \in [Callers -> {"idle", "queued", "writing", "reading", "backoff", "done"}]
          /\ pc'[c] = "reading" /\ \A d \in Callers : d # c => pc'[d] = pc[d]
          /\ attempt' = attempt /\ reqId' = reqId /\ queue' = queue
      BY <2>2 DEF Goto, ReadInv, Inv, Types
    <3>2. OwnKept
      BY <1>1, <3>1 DEF OwnKept, Own
    <3>3. LockInv'
      BY <1>1, <3>1 DEF ReadInv, LockInv
    <3> QED
      BY <3>2, <3>3
  <2> QED
    BY <2>1, <2>2 DEF Drained
<1> QED
  BY <1>1, <1>2, OwnStays DEF ReadInv

LEMMA ReadReadInv ==
    ASSUME ReadInv, NEW c \in Callers, Read(c) PROVE LockInv' /\ OwnInv'
<1> DEFINE l == Head(stream)
<1>1. stream # <<>> /\ stream' = Tail(stream) /\ owed' = owed /\ Take(c, l)
  BY DEF Read, server
<1>2. LockInv' /\ OwnKept
  <2>1. CASE Fail(c)
    BY <2>1, FailEnds, EndReadInv DEF Fail, ReadInv
  <2>2. CASE Succeed(c, l.by)
    <3>1. EndsCall(c, "ok", l.by) /\ Leave(c)
      BY <2>2, SucceedEnds DEF Succeed, ReadInv
    <3> QED
      BY <3>1, EndReadInv
  <2>3. CASE UNCHANGED caller
    BY <2>3, CallersReadInv
  <2> QED
    BY <1>1, <2>1, <2>2, <2>3 DEF Take
<1> QED
  BY <1>1, <1>2, OwnStays DEF ReadInv

LEMMA EndsReadInv ==
    ASSUME ReadInv, NEW c \in Callers, ReadFails(c) \/ GiveUp(c) PROVE LockInv' /\ OwnInv'
<1>1. EndsCall(c, "failed", Nobody) /\ Leave(c)
  <2>1. CASE ReadFails(c)
    BY <2>1, FailEnds DEF ReadFails, Fail, ReadInv
  <2>2. CASE GiveUp(c)
    <3>1. Leave(c) /\ Keeps /\ \A d \in Callers : d # c => reqId'[d] = reqId[d]
      BY <2>2, LeaveKeeps DEF GiveUp, ReadInv
    <3>2. pc \in [Callers -> {"idle", "queued", "writing", "reading", "backoff", "done"}]
      BY DEF ReadInv, Inv, Types
    <3> QED
      BY <2>2, <3>1, <3>2 DEF GiveUp, Goto, Yield, EndsCall
  <2> QED
    BY <2>1, <2>2
<1>2. LockInv' /\ OwnKept
  BY <1>1, EndReadInv
<1>3. owed' = owed /\ stream' = stream
  BY DEF ReadFails, GiveUp, server
<1> QED
  BY <1>2, <1>3, OwnStays DEF ReadInv

\* What the server does, as in Next, or nothing.
ServerStep ==
    \/ \E r \in owed, type \in {"answer", "error"} : Answer(r, type)
    \/ \E id \in ForeignIds : SpeakUp("request", id)
    \/ \E type \in {"noise", "bad"} : SpeakUp(type, 0)
    \/ Close
    \/ UNCHANGED vars

LEMMA ServerReadInv == ASSUME ReadInv, ServerStep PROVE LockInv' /\ OwnInv'
<1>1. LockInv' /\ OwnKept
  <2>1. (\E r \in owed, type \in {"answer", "error"} : Answer(r, type)) => UNCHANGED caller
    BY DEF Answer
  <2>2. \A type, id : SpeakUp(type, id) => UNCHANGED caller
    BY DEF SpeakUp
  <2>3. Close \/ UNCHANGED vars => UNCHANGED caller
    BY DEF Close, caller, vars
  <2>4. UNCHANGED caller
    BY <2>1, <2>2, <2>3 DEF ServerStep
  <2> QED
    BY <2>4, CallersReadInv
<1>2. ASSUME NEW r \in owed, NEW type \in {"answer", "error"}, Answer(r, type) PROVE OwnInv'
  <2> DEFINE l == [type |-> type, id |-> r.id, by |-> r.by]
  <2>1. r \in [id : Nat, by : Att] /\ Own(r.id, r.by)
    BY DEF ReadInv, Inv, Types, OwnInv
  <2>2. l \in Line /\ OwnLine(l)
    BY <2>1 DEF Line, OwnLine
  <2>3. stream' = Append(stream, l) /\ owed' \subseteq owed
    BY <1>2 DEF Answer
  <2> HIDE DEF l
  <2> QED
    BY <1>1, <2>2, <2>3, AppendedOwn
<1>3. ASSUME NEW type \in {"request", "noise", "bad"}, NEW id \in Nat, SpeakUp(type, id)
      PROVE  OwnInv'
  <2> DEFINE l == [type |-> type, id |-> id, by |-> Nobody]
  <2>1. l \in Line /\ OwnLine(l)
    BY NobodyIsAtt DEF Line, OwnLine
  <2>2. stream' = Append(stream, l) /\ owed' \subseteq owed
    BY <1>3 DEF SpeakUp
  <2> HIDE DEF l
  <2> QED
    BY <1>1, <2>1, <2>2, AppendedOwn
<1>4. CASE Close \/ UNCHANGED vars
  <2>1. owed' \subseteq owed /\ stream' = stream
    BY <1>4 DEF Close, vars
  <2> QED
    BY <1>1, <2>1, OwnStays DEF ReadInv
<1>5. ForeignIds \subseteq Nat
  BY McpAssumption
<1>6. OwnInv'
  BY <1>2, <1>3, <1>4, <1>5 DEF ServerStep
<1> QED
  BY <1>1, <1>6

LEMMA ReadInvStep == ASSUME ReadInv, [Next]_vars PROVE ReadInv'
<1>1. Inv'
  BY NextInv DEF ReadInv
<1>2. ASSUME NEW c \in Callers, ClientStep(c) \/ Drained(c) \/ GiveUp(c)
      PROVE  LockInv' /\ OwnInv'
  BY <1>2, AskReadInv, AcquireReadInv, DrainedReadInv, ReadReadInv, EndsReadInv
     DEF ClientStep
<1>3. ASSUME ServerStep PROVE LockInv' /\ OwnInv'
  BY <1>3, ServerReadInv
<1>4. LockInv' /\ OwnInv'
  BY <1>2, <1>3 DEF Next, ServerStep
<1> QED
  BY <1>1, <1>4 DEF ReadInv

\* One call at most reads the answers of the server, and what the server owes
\* or has sent to a call that still waits bears the id that call looks for
\* (McpClient._call under self._lock).
THEOREM ReadInvHolds == Spec => []ReadInv
<1>1. Init => LockInv /\ OwnInv
  BY DEF Init, LockInv, OwnInv
<1>2. ReadInv /\ [Next]_vars => ReadInv'
  BY ReadInvStep
<1>3. Init => ReadInv
  BY <1>1, InitInv DEF ReadInv
<1> QED
  BY <1>2, <1>3, PTL DEF Spec

LEMMA AnswerReachesItsCall ==
    ASSUME ReadInv, [Next]_vars, NEW c \in Callers, stream # <<>>,
           Awaited(c, Head(stream)), stream' = Tail(stream)
    PROVE  pc'[c] \notin {"queued", "writing", "reading"}
<1> DEFINE l == Head(stream)
<1>1. /\ stream \in Seq(Line) /\ reqId \in [Callers -> Nat]
      /\ pc \in [Callers -> {"idle", "queued", "writing", "reading", "backoff", "done"}]
  BY DEF ReadInv, Inv, Types
<1>2. Len(stream') = Len(stream) - 1 /\ Len(stream) \in Nat
  BY <1>1
<1>3. /\ l.type \in {"answer", "error"} /\ l.by = <<c, attempt[c]>>
      /\ pc[c] \in {"writing", "reading"} /\ l.id = reqId[c] /\ reqId[c] # 0
  <2>1. OwnLine(l)
    <3>1. 1 \in 1..Len(stream) /\ l = stream[1]
      BY <1>1
    <3> QED
      BY <3>1 DEF ReadInv, OwnInv
  <2> QED
    BY <2>1 DEF Awaited, OwnLine, Own, ReadInv, Inv, AskersHaveIds
<1>4. PICK d \in Callers : Read(d)
  <2>1. ASSUME stream' = stream PROVE FALSE
    BY <1>2, <2>1
  <2>2. ASSUME NEW m, stream' = Append(stream, m) PROVE FALSE
    <3>1. Len(Append(stream, m)) = Len(stream) + 1
      BY <1>1
    <3> QED
      BY <1>2, <2>2, <3>1
  <2>3. ASSUME NEW e \in Callers, ClientStep(e) \/ Drained(e) \/ GiveUp(e) PROVE Read(e)
    BY <2>1, <2>3 DEF ClientStep, Ask, Acquire, Drained, ReadFails, GiveUp
  <2>4. \A r, type : ~Answer(r, type)
    BY <2>2 DEF Answer
  <2>5. \A type, id : ~SpeakUp(type, id)
    BY <2>2 DEF SpeakUp
  <2>6. ~Close /\ ~UNCHANGED vars
    BY <2>1 DEF Close, vars
  <2> QED
    BY <2>3, <2>4, <2>5, <2>6 DEF Next
<1>5. d = c
  BY <1>3, <1>4 DEF Read, ReadInv, LockInv
<1>6. Take(c, l)
  BY <1>4, <1>5 DEF Read
<1>7. Fail(c) \/ Succeed(c, l.by)
  BY <1>3, <1>6 DEF Take
<1> QED
  BY <1>1, <1>7 DEF Fail, Succeed, Goto

\* Nobody reads away the answer another call is still waiting for: when it is
\* read, the call it is for ends (McpClient._call).
THEOREM NoAnswerReadAwayHolds == Spec => NoAnswerReadAway
<1>1. ReadInv /\ [Next]_vars =>
        [ \A c \in Callers :
            stream # <<>> /\ Awaited(c, Head(stream)) /\ stream' = Tail(stream)
               => pc'[c] \notin {"queued", "writing", "reading"} ]_vars
  BY AnswerReachesItsCall
<1> QED
  BY <1>1, ReadInvHolds, PTL DEF Spec, NoAnswerReadAway

-----------------------------------------------------------------------------
(***************************************************************************)
(* Type correctness.  The bound on the ids is the point: nextId counts the *)
(* attempts that were made, and the retries bound those.                   *)
(***************************************************************************)
Tries(c) == IF c = Boot THEN 2 ELSE MaxRetries + 1

TriesInv ==
    \A c \in Callers :
        /\ attempt[c] <= Tries(c)
        /\ pc[c] = "idle" => attempt[c] < Tries(c)
        /\ pc[c] = "backoff" => c # Boot /\ attempt[c] <= MaxRetries
        /\ c # Boot /\ pc[c] = "idle" => attempt[c] = 0

Made == {a \in Callers \X (1..(MaxRetries + 2)) : a[2] <= attempt[a[1]]}
CountInv == nextId = Cardinality(Made)

Unasked(l) == l.type \notin {"answer", "error"} => l.id \in {0} \cup ForeignIds /\ l.by = Nobody

BoundsInv ==
    /\ phase \in {"connecting", "ready", "skipped"}
    /\ open \in BOOLEAN
    /\ noise \in 0..MaxNoise
    /\ \A i \in 1..Len(stream) : Unasked(stream[i])
    /\ \A c \in Callers : outcome[c].by \in Attempts

TypeInv == ReadInv /\ TriesInv /\ CountInv /\ BoundsInv

LEMMA TriesBound == ASSUME NEW c \in Callers PROVE Tries(c) \in 1..(MaxRetries + 2)
  BY McpAssumption DEF Tries

LEMMA CallersFinite == IsFiniteSet(Callers)
  BY CallsFinite, FS_AddElement DEF Callers

LEMMA MadeFinite == IsFiniteSet(Made)
<1>1. IsFiniteSet(1..(MaxRetries + 2))
  BY McpAssumption, FS_Interval
<1>2. IsFiniteSet(Callers \X (1..(MaxRetries + 2)))
  BY <1>1, CallersFinite, FS_Product
<1>3. Made \subseteq Callers \X (1..(MaxRetries + 2))
  BY DEF Made
<1> QED
  BY <1>2, <1>3, FS_Subset

\* No more ids than attempts the callers may make.
LEMMA IdsBounded == ASSUME Inv, TriesInv, CountInv PROVE nextId <= MaxId
<1> DEFINE Tool == Calls \X (1..(MaxRetries + 1))
           Start == {<<Boot, 1>>, <<Boot, 2>>}
<1>1. IsFiniteSet(1..(MaxRetries + 1)) /\ Cardinality(1..(MaxRetries + 1)) = MaxRetries + 1
  BY McpAssumption, FS_Interval
<1>2. IsFiniteSet(Tool) /\ Cardinality(Tool) = Cardinality(Calls) * (MaxRetries + 1)
  BY <1>1, CallsFinite, FS_Product
<1>3. IsFiniteSet(Start) /\ Cardinality(Start) = 2
  <2>1. IsFiniteSet({<<Boot, 1>>}) /\ Cardinality({<<Boot, 1>>}) = 1
    BY FS_Singleton
  <2>2. <<Boot, 2>> \notin {<<Boot, 1>>}
    OBVIOUS
  <2>3. /\ IsFiniteSet({<<Boot, 1>>} \cup {<<Boot, 2>>})
        /\ Cardinality({<<Boot, 1>>} \cup {<<Boot, 2>>}) = 1 + 1
    BY <2>1, <2>2, FS_AddElement
  <2>4. Start = {<<Boot, 1>>} \cup {<<Boot, 2>>}
    OBVIOUS
  <2> QED
    BY <2>3, <2>4
<1>4. Tool \cap Start = {}
  BY McpAssumption
<1>5. IsFiniteSet(Tool \cup Start) /\
      Cardinality(Tool \cup Start) = Cardinality(Tool) + Cardinality(Start)
  <2>1. Cardinality(Tool \cap Start) = 0
    BY <1>4, FS_EmptySet
  <2>2. Cardinality(Tool) \in Nat /\ Cardinality(Start) \in Nat
    BY <1>2, <1>3, FS_CardinalityType
  <2> HIDE DEF Tool, Start
  <2> QED
    BY <1>2, <1>3, <2>1, <2>2, FS_Union
<1>6. Made \subseteq Tool \cup Start
  <2> SUFFICES ASSUME NEW a \in Made PROVE a \in Tool \cup Start
    OBVIOUS
  <2>1. PICK c \in Callers, k \in 1..(MaxRetries + 2) : a = <<c, k>> /\ k <= attempt[c]
    BY DEF Made
  <2>2. attempt[c] \in Nat /\ attempt[c] <= Tries(c) /\ MaxRetries \in Nat
    BY McpAssumption DEF Inv, Types, TriesInv
  <2>3. CASE c = Boot
    <3>1. k = 1 \/ k = 2
      BY <2>1, <2>2, <2>3 DEF Tries
    <3> QED
      BY <2>1, <2>3, <3>1
  <2>4. CASE c # Boot
    BY <2>1, <2>2, <2>4 DEF Tries, Callers
  <2> QED
    BY <2>3, <2>4
<1>7. Cardinality(Made) <= Cardinality(Tool \cup Start)
  BY <1>5, <1>6, FS_Subset
<1>8. Cardinality(Calls) \in Nat
  BY CallsFinite, FS_CardinalityType
<1> HIDE DEF Tool, Start
<1>9. Cardinality(Tool \cup Start) = MaxId
  BY <1>2, <1>3, <1>5, <1>8, McpAssumption DEF MaxId
<1> QED
  BY <1>7, <1>9 DEF CountInv

\* The bounds give the types.
LEMMA BoundsType == ASSUME TypeInv PROVE TypeOK
<1>1. Inv /\ LockInv /\ OwnInv /\ TriesInv /\ BoundsInv /\ Types /\ IdsAreOwn
  BY DEF TypeInv, ReadInv, Inv
<1>2. nextId <= MaxId /\ nextId \in Nat /\ MaxId \in Nat
  <2>1. Cardinality(Calls) \in Nat
    BY CallsFinite, FS_CardinalityType
  <2>2. MaxId \in Nat
    BY <2>1, McpAssumption DEF MaxId
  <2> QED
    BY <1>1, <2>2, IdsBounded DEF TypeInv, Types
<1>3. ASSUME NEW id \in Nat, NEW by \in Att, Matches(id, by), Own(id, by)
      PROVE  id \in 1..MaxId /\ by \in Attempts
  <2>1. PICK c \in Callers, k \in Nat : by = <<c, k>>
    BY DEF Att
  <2>2. k <= attempt[c] /\ attempt[c] \in Nat /\ attempt[c] <= MaxRetries + 2
    BY <1>1, <1>3, <2>1, TriesBound, McpAssumption DEF Own, TriesInv, Types
  <2>3. k \in 0..(MaxRetries + 2)
    BY <2>1, <2>2, McpAssumption
  <2> QED
    BY <1>2, <1>3, <2>1, <2>3 DEF Matches, Attempts
<1>4. owed \subseteq Requests
  <2>1. ASSUME NEW r \in owed PROVE r \in Requests
    <3>1. r \in [id : Nat, by : Att] /\ Matches(r.id, r.by) /\ Own(r.id, r.by)
      BY <1>1 DEF Types, Inv, OwedMatch, OwnInv
    <3>2. r.id \in 1..MaxId /\ r.by \in Attempts
      BY <3>1, <1>3
    <3> QED
      BY <3>1, <3>2 DEF Requests
  <2> QED
    BY <2>1
<1>5. stream \in Seq(Lines)
  <2>1. stream \in Seq(Line)
    BY <1>1 DEF Types
  <2>2. ASSUME NEW i \in 1..Len(stream) PROVE stream[i] \in Lines
    <3>1. PICK l \in Line : l = stream[i] /\ LineMatches(l) /\ OwnLine(l) /\ Unasked(l)
      BY <1>1, <2>1 DEF Inv, StreamMatches, OwnInv, BoundsInv
    <3>2. l.id \in 0..MaxId \cup ForeignIds /\ l.by \in Attempts
      <4>1. CASE l.type \in {"answer", "error"}
        <5>1. l.id \in Nat /\ l.by \in Att /\ Matches(l.id, l.by) /\ Own(l.id, l.by)
          BY <3>1, <4>1 DEF Line, LineMatches, OwnLine
        <5> QED
          BY <5>1, <1>3, <1>2
      <4>2. CASE l.type \notin {"answer", "error"}
        <5>1. Nobody \in Attempts
          BY McpAssumption DEF Nobody, Attempts, Callers
        <5>2. l.id \in {0} \cup ForeignIds /\ l.by = Nobody
          BY <3>1, <4>2 DEF Unasked
        <5> QED
          BY <5>1, <5>2, <1>2
      <4> QED
        BY <4>1, <4>2
    <3> QED
      BY <3>1, <3>2 DEF Line, Lines
  <2> QED
    BY <2>1, <2>2
<1>6. reqId \in [Callers -> 0..MaxId]
  BY <1>1, <1>2 DEF Types, IdsAreOwn
<1>7. \A c \in Callers : attempt[c] \in 0..(IF c = Boot THEN 2 ELSE MaxRetries + 1)
  BY <1>1, McpAssumption DEF Types, TriesInv, Tries
<1>8. outcome \in [Callers -> [kind : {"none", "ok", "failed"}, by : Attempts]]
  <2>1. outcome \in [Callers -> [kind : {"none", "ok", "failed"}, by : Att]]
    BY <1>1 DEF Types
  <2>2. \A c \in Callers : outcome[c] \in [kind : {"none", "ok", "failed"}, by : Attempts]
    BY <1>1, <2>1 DEF BoundsInv
  <2> QED
    BY <2>1, <2>2
<1> QED
  BY <1>1, <1>2, <1>4, <1>5, <1>6, <1>7, <1>8 DEF TypeOK, Types, LockInv, BoundsInv

-----------------------------------------------------------------------------
\* A call that ends makes no attempt; when it may try again, a try is left.
LEMMA EndTries ==
    ASSUME TypeInv, NEW c \in Callers, pc[c] \in {"queued", "writing", "reading", "backoff"},
           attempt' = attempt, nextId' = nextId,
           NEW p, pc' = [pc EXCEPT ![c] = p],
           \/ p = "done"
           \/ p = "backoff" /\ c # Boot /\ attempt[c] <= MaxRetries
           \/ p = "idle" /\ c = Boot /\ attempt[c] = 1
    PROVE  TriesInv' /\ CountInv'
<1>1. /\ pc \in [Callers -> {"idle", "queued", "writing", "reading", "backoff", "done"}]
      /\ TriesInv /\ CountInv
  BY DEF TypeInv, ReadInv, Inv, Types
<1>2. CountInv'
  BY <1>1 DEF CountInv, Made
<1>3. ASSUME NEW d \in Callers
      PROVE  /\ pc'[d] = "idle" => attempt[d] < Tries(d)
             /\ pc'[d] = "backoff" => d # Boot /\ attempt[d] <= MaxRetries
             /\ d # Boot /\ pc'[d] = "idle" => attempt[d] = 0
  <2>1. CASE d = c
    BY <1>1, <2>1 DEF Tries
  <2>2. CASE d # c
    BY <1>1, <2>2 DEF TriesInv
  <2> QED
    BY <2>1, <2>2
<1> QED
  BY <1>1, <1>2, <1>3 DEF TriesInv, Tries

\* An attempt takes one id.
LEMMA AskTries == ASSUME TypeInv, NEW c \in Callers, Ask(c) PROVE TriesInv' /\ CountInv'
<1>1. /\ attempt \in [Callers -> Nat] /\ nextId \in Nat
      /\ pc \in [Callers -> {"idle", "queued", "writing", "reading", "backoff", "done"}]
      /\ TriesInv /\ CountInv /\ MaxRetries \in Nat
  BY McpAssumption DEF TypeInv, ReadInv, Inv, Types
<1>2. /\ attempt'[c] = attempt[c] + 1 /\ pc'[c] = "queued" /\ nextId' = nextId + 1
      /\ \A d \in Callers : d # c => attempt'[d] = attempt[d] /\ pc'[d] = pc[d]
      /\ pc[c] \in {"idle", "backoff"}
  BY <1>1 DEF Ask, Goto, TakeId
<1>3. attempt[c] + 1 <= Tries(c)
  <2>1. Tries(c) \in Nat
    BY <1>1 DEF Tries
  <2> QED
    BY <1>1, <1>2, <2>1 DEF TriesInv, Tries
<1>4. TriesInv'
  <2>1. ASSUME NEW d \in Callers
        PROVE  /\ attempt'[d] <= Tries(d)
               /\ pc'[d] = "idle" => attempt'[d] < Tries(d)
               /\ pc'[d] = "backoff" => d # Boot /\ attempt'[d] <= MaxRetries
               /\ d # Boot /\ pc'[d] = "idle" => attempt'[d] = 0
    <3>1. CASE d = c
      BY <1>2, <1>3, <3>1
    <3>2. CASE d # c
      BY <1>1, <1>2, <3>2 DEF TriesInv
    <3> QED
      BY <3>1, <3>2
  <2> QED
    BY <2>1 DEF TriesInv, Tries
<1>5. CountInv'
  <2> DEFINE new == <<c, attempt[c] + 1>>
  <2>1. Made' = Made \cup {new}
    <3>1. attempt[c] + 1 \in 1..(MaxRetries + 2)
      BY <1>1, <1>3, TriesBound
    <3>2. ASSUME NEW d \in Callers, NEW k \in 1..(MaxRetries + 2)
          PROVE  k <= attempt'[d] <=> (k <= attempt[d] \/ <<d, k>> = new)
      <4>1. CASE d = c
        BY <1>1, <1>2, <4>1
      <4>2. CASE d # c
        BY <1>2, <4>2
      <4> QED
        BY <4>1, <4>2
    <3>3. new \in Callers \X (1..(MaxRetries + 2))
      BY <3>1
    <3> HIDE DEF new
    <3> QED
      BY <3>2, <3>3 DEF Made
  <2>2. new \notin Made
    BY <1>1 DEF Made
  <2> HIDE DEF new
  <2>3. Cardinality(Made') = Cardinality(Made) + 1
    BY <2>1, <2>2, MadeFinite, FS_AddElement
  <2> QED
    BY <1>1, <1>2, <2>3 DEF CountInv
<1> QED
  BY <1>4, <1>5

LEMMA NobodyIsAttempt == Nobody \in Attempts
  BY McpAssumption DEF Nobody, Attempts, Callers

\* Reading a line or none leaves no line without its kind of id.
LEMMA UnaskedStays ==
    ASSUME TypeInv, \/ stream' = stream
                    \/ stream # <<>> /\ stream' = Tail(stream)
    PROVE  \A i \in 1..Len(stream') : Unasked(stream'[i])
<1>1. stream \in Seq(Line) /\ \A i \in 1..Len(stream) : Unasked(stream[i])
  BY DEF TypeInv, ReadInv, Inv, Types, BoundsInv
<1>2. \A i \in 1..Len(stream') : \E j \in 1..Len(stream) : stream'[i] = stream[j]
  <2>1. CASE stream' = stream
    BY <2>1
  <2>2. CASE stream # <<>> /\ stream' = Tail(stream)
    BY <2>2, <1>1
  <2> QED
    BY <2>1, <2>2
<1> QED
  BY <1>1, <1>2

LEMMA UnaskedGrows ==
    ASSUME TypeInv, NEW l, Unasked(l), stream' = Append(stream, l)
    PROVE  \A i \in 1..Len(stream') : Unasked(stream'[i])
<1>1. stream \in Seq(Line) /\ \A i \in 1..Len(stream) : Unasked(stream[i])
  BY DEF TypeInv, ReadInv, Inv, Types, BoundsInv
<1>2. ASSUME NEW i \in 1..Len(stream')
      PROVE  stream'[i] = l \/ \E j \in 1..Len(stream) : stream'[i] = stream[j]
  BY <1>1
<1> QED
  BY <1>1, <1>2

\* Who ends a call has its attempt or nobody's in the outcome.
LEMMA YieldTyped ==
    ASSUME TypeInv, NEW c \in Callers, NEW k, NEW by \in Attempts,
           UNCHANGED outcome \/ Yield(c, k, by)
    PROVE  \A d \in Callers : outcome'[d].by \in Attempts
<1>1. /\ outcome \in [Callers -> [kind : {"none", "ok", "failed"}, by : Att]]
      /\ \A d \in Callers : outcome[d].by \in Attempts
  BY DEF TypeInv, ReadInv, Inv, Types, BoundsInv
<1>2. ASSUME Yield(c, k, by), NEW d \in Callers PROVE outcome'[d].by \in Attempts
  <2>1. outcome'[d] = outcome[d] \/ outcome'[d] = [kind |-> k, by |-> by]
    BY <1>1, <1>2 DEF Yield
  <2> QED
    BY <1>1, <2>1
<1> QED
  BY <1>1, <1>2

-----------------------------------------------------------------------------
LEMMA FailTyped ==
    ASSUME TypeInv, NEW c \in Callers, pc[c] \in {"queued", "writing", "reading"}, Fail(c)
    PROVE  /\ TriesInv' /\ CountInv'
           /\ phase' \in {"connecting", "ready", "skipped"}
           /\ \A d \in Callers : outcome'[d].by \in Attempts
<1>1. attempt' = attempt /\ nextId' = nextId
  BY DEF Fail, Leave
<1>2. TriesInv' /\ CountInv'
  BY <1>1, EndTries DEF Fail, Goto
<1>3. UNCHANGED outcome \/ Yield(c, "failed", Nobody)
  BY DEF Fail
<1> QED
  BY <1>2, <1>3, YieldTyped, NobodyIsAttempt DEF Fail, TypeInv, BoundsInv

\* A caller that writes, or has written, makes no attempt.
LEMMA AcquireTyped ==
    ASSUME TypeInv, NEW c \in Callers, Acquire(c) \/ Drained(c)
    PROVE  TriesInv' /\ CountInv' /\ BoundsInv'
<1>1. /\ pc \in [Callers -> {"idle", "queued", "writing", "reading", "backoff", "done"}]
      /\ TriesInv /\ CountInv /\ BoundsInv /\ pc[c] \in {"queued", "writing"}
      /\ UNCHANGED <<stream, open, noise>>
  BY DEF TypeInv, ReadInv, Inv, Types, Acquire, Drained, server
<1>2. CASE Fail(c)
  BY <1>1, <1>2, FailTyped DEF BoundsInv
<1>3. ASSUME NEW p \in {"writing", "reading"}, Goto(c, p),
             UNCHANGED <<phase, nextId, queue, reqId, attempt, outcome>>
      PROVE  TriesInv' /\ CountInv' /\ BoundsInv'
  <2>1. CountInv' /\ BoundsInv'
    BY <1>1, <1>3 DEF CountInv, Made, BoundsInv
  <2>2. \A d \in Callers : pc'[d] \in {"idle", "backoff"} => pc[d] = pc'[d]
    BY <1>1, <1>3 DEF Goto
  <2>3. TriesInv'
    BY <1>1, <1>3, <2>2 DEF TriesInv, Tries
  <2> QED
    BY <2>1, <2>3
<1> QED
  BY <1>2, <1>3 DEF Acquire, Drained

LEMMA ReadTyped ==
    ASSUME TypeInv, NEW c \in Callers, Read(c) PROVE TriesInv' /\ CountInv' /\ BoundsInv'
<1> DEFINE l == Head(stream)
<1>1. /\ stream # <<>> /\ stream' = Tail(stream) /\ Take(c, l) /\ UNCHANGED server
      /\ pc[c] = "reading" /\ TriesInv /\ CountInv /\ BoundsInv
      /\ \A i \in 1..Len(stream') : Unasked(stream'[i])
  BY UnaskedStays DEF Read, TypeInv
<1>2. CASE Fail(c)
  BY <1>1, <1>2, FailTyped DEF server, BoundsInv
<1>3. CASE Succeed(c, l.by)
  <2>1. l.by \in Attempts
    <3>1. stream \in Seq(Lines)
      BY BoundsType DEF TypeOK
    <3>2. l \in Lines
      BY <3>1, <1>1
    <3> QED
      BY <3>2 DEF Lines
  <2>2. attempt' = attempt /\ nextId' = nextId
    BY <1>3 DEF Succeed, Leave
  <2>3. TriesInv' /\ CountInv'
    BY <1>1, <1>3, <2>2, EndTries DEF Succeed, Goto
  <2>4. UNCHANGED outcome \/ Yield(c, "ok", l.by)
    BY <1>3 DEF Succeed
  <2>5. \A d \in Callers : outcome'[d].by \in Attempts
    BY <2>1, <2>4, YieldTyped
  <2>6. phase' \in {"connecting", "ready", "skipped"}
    BY <1>1, <1>3 DEF Succeed, BoundsInv
  <2> QED
    BY <1>1, <2>3, <2>5, <2>6 DEF BoundsInv, server
<1>4. CASE UNCHANGED caller
  <2>1. TriesInv' /\ CountInv'
    BY <1>1, <1>4 DEF caller, TriesInv, Tries, CountInv, Made
  <2> QED
    BY <1>1, <1>4, <2>1 DEF caller, server, BoundsInv
<1> QED
  BY <1>1, <1>2, <1>3, <1>4 DEF Take

LEMMA CallerTyped ==
    ASSUME TypeInv, NEW c \in Callers, ClientStep(c) \/ Drained(c) \/ GiveUp(c)
    PROVE  TriesInv' /\ CountInv' /\ BoundsInv'
<1>1. BoundsInv
  BY DEF TypeInv
<1>2. CASE Ask(c)
  BY <1>1, <1>2, AskTries, UnaskedStays DEF Ask, server, BoundsInv
<1>3. CASE ReadFails(c)
  BY <1>1, <1>3, FailTyped, UnaskedStays DEF ReadFails, server, BoundsInv
<1>4. CASE GiveUp(c)
  <2>1. TriesInv' /\ CountInv'
    BY <1>4, EndTries DEF GiveUp, Goto, Leave
  <2>2. \A d \in Callers : outcome'[d].by \in Attempts
    BY <1>4, YieldTyped, NobodyIsAttempt DEF GiveUp
  <2> QED
    BY <1>1, <1>4, <2>1, <2>2, UnaskedStays DEF GiveUp, server, BoundsInv
<1> QED
  BY <1>2, <1>3, <1>4, AcquireTyped, ReadTyped DEF ClientStep

LEMMA ServerTyped ==
    ASSUME TypeInv, ServerStep PROVE TriesInv' /\ CountInv' /\ BoundsInv'
<1>1. TriesInv /\ CountInv /\ BoundsInv
  BY DEF TypeInv
<1>2. ASSUME UNCHANGED caller PROVE TriesInv' /\ CountInv'
  BY <1>1, <1>2 DEF caller, TriesInv, Tries, CountInv, Made
<1>3. ASSUME NEW r \in owed, NEW type \in {"answer", "error"}, Answer(r, type)
      PROVE  TriesInv' /\ CountInv' /\ BoundsInv'
  <2> DEFINE l == [type |-> type, id |-> r.id, by |-> r.by]
  <2>1. Unasked(l) /\ stream' = Append(stream, l)
    BY <1>3 DEF Unasked, Answer
  <2> HIDE DEF l
  <2>2. \A i \in 1..Len(stream') : Unasked(stream'[i])
    BY <2>1, UnaskedGrows
  <2> QED
    BY <1>1, <1>2, <1>3, <2>2 DEF Answer, caller, BoundsInv
<1>4. ASSUME NEW type \in {"request", "noise", "bad"}, NEW id \in {0} \cup ForeignIds,
             SpeakUp(type, id)
      PROVE  TriesInv' /\ CountInv' /\ BoundsInv'
  <2> DEFINE l == [type |-> type, id |-> id, by |-> Nobody]
  <2>1. Unasked(l) /\ stream' = Append(stream, l)
    BY <1>4 DEF Unasked, SpeakUp
  <2> HIDE DEF l
  <2>2. \A i \in 1..Len(stream') : Unasked(stream'[i])
    BY <2>1, UnaskedGrows
  <2>3. noise' \in 0..MaxNoise
    BY <1>1, <1>4, McpAssumption DEF SpeakUp, BoundsInv
  <2> QED
    BY <1>1, <1>2, <1>4, <2>2, <2>3 DEF SpeakUp, caller, BoundsInv
<1>5. CASE Close \/ UNCHANGED vars
  BY <1>1, <1>2, <1>5 DEF Close, vars, caller, BoundsInv
<1> QED
  BY <1>3, <1>4, <1>5 DEF ServerStep

\* The client never hands out more ids than its callers may make attempts, and
\* the retries end (McpClient._next_id, invoke_tool's retries).
THEOREM TypeCorrect == Spec => []TypeOK
<1>1. ASSUME Init PROVE TypeInv
  <2>1. ReadInv
    BY <1>1, InitInv DEF ReadInv, Init, LockInv, OwnInv
  <2>2. TriesInv
    BY <1>1, McpAssumption DEF Init, TriesInv, Tries
  <2>3. CountInv
    <3>1. Made = {}
      BY <1>1 DEF Init, Made
    <3> QED
      BY <1>1, <3>1, FS_EmptySet DEF Init, CountInv
  <2>4. BoundsInv
    BY <1>1, NobodyIsAttempt, McpAssumption DEF Init, BoundsInv
  <2> QED
    BY <2>1, <2>2, <2>3, <2>4 DEF TypeInv
<1>2. ASSUME TypeInv, [Next]_vars PROVE TypeInv'
  <2>1. ReadInv'
    BY <1>2, ReadInvStep DEF TypeInv
  <2>2. (\E c \in Callers : ClientStep(c) \/ Drained(c) \/ GiveUp(c)) \/ ServerStep
    BY <1>2 DEF Next, ServerStep
  <2>3. TriesInv' /\ CountInv' /\ BoundsInv'
    BY <1>2, <2>2, CallerTyped, ServerTyped
  <2> QED
    BY <2>1, <2>3 DEF TypeInv
<1>3. TypeInv => TypeOK
  BY BoundsType
<1> QED
  BY <1>1, <1>2, <1>3, PTL DEF Spec
=============================================================================
