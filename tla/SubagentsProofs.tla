-------------------------- MODULE SubagentsProofs --------------------------
(***************************************************************************)
(* The safety of Subagents, for any number of agents, steps and retries    *)
(* and any profiles.  ForegroundNested is not inductive: it needs that an  *)
(* agent waits for a child only while that child is at work (Calls), that  *)
(* an agent two levels down has no tool to spawn with, so that Chain       *)
(* misses nobody (Calls), and that a new run id is nobody's parent         *)
(* (Family).                                                               *)
(***************************************************************************)
EXTENDS Subagents, TLAPS

\* Who has been born, and of whom.
Family ==
    \A a \in Agents :
        /\ pc[a] = "unborn" <=> a > born
        /\ pc[a] = "unborn" => child[a] = None /\ tries[a] = 0
        /\ kind[a] = "none" <=> pc[a] = "unborn"
        /\ parent[a] \in 0..born
        /\ kind[a] \in {"foreground", "background"} <=> parent[a] # None
        /\ pc[a] # "unborn" => runner[a] \in Agents
        /\ parent[a] # None /\ parent[parent[a]] # None => tools[a] = {}

\* What an agent waits for.
Waits ==
    \A a \in Agents :
        child[a] # None /\ Alive(a)
            => /\ pc[a] = "calling"
               /\ child[a] \in Agents
               /\ kind[child[a]] = "foreground"
               /\ parent[child[a]] = a
               /\ Alive(child[a])

\* How often the present call was started.
Calls ==
    \A a \in Agents :
        /\ pc[a] = "calling" => "spawn_agent" \in tools[a]
        /\ pc[a] \in {"opening", "thinking"} => tries[a] = 0
        /\ pc[a] = "calling" /\ child[a] = None => tries[a] <= MaxRetries

\* What was said of agents that are over, and whom the shutdown waits for.
Ends ==
    /\ \A a \in oneShot : kind[a] = "run"
    /\ \A a \in finished : pc[a] \in {"published", "over"} /\ kind[a] # "run"
    /\ \A a \in reported : pc[a] = "over" /\ kind[a] # "run"

IInv == TypeOK /\ Family /\ Waits /\ Calls /\ ForegroundNested /\ Ends

(***************************************************************************)
(* Lemmas on the operators.                                                *)
(***************************************************************************)

LEMMA Bounds == /\ MaxAgents \in Nat /\ MaxRuns \in Nat /\ MaxSteps \in Nat /\ MaxRetries \in Nat
                /\ MaxSteps > 0
BY SubagentAssumption

\* A profile names tools of this module.
LEMMA ProfileTypes == ASSUME NEW p \in Profiles PROVE p \subseteq SubagentTools
<1>1. PICK files \in ProfileFiles : p = AllowedBy(files)
  BY DEF Profiles
<1>2. files \in [1..3 -> [state : {"absent", "broken", "read"},
                          limits : BOOLEAN, allowed : SUBSET SubagentTools]]
  BY SubagentAssumption
<1> DEFINE there == {i \in 1..3 : files[i].state # "absent"}
           first == CHOOSE i \in there : \A j \in there : i <= j
<1>3. CASE there = {}
  BY <1>1, <1>3 DEF AllowedBy
<1>4. CASE there # {}
  <2>1. \E i \in there : \A j \in there : i <= j
    <3>1. CASE 1 \in there
      BY <3>1
    <3>2. CASE 1 \notin there /\ 2 \in there
      BY <3>2
    <3>3. CASE 1 \notin there /\ 2 \notin there
      BY <1>4, <3>3
    <3> QED
      BY <3>1, <3>2, <3>3
  <2>2. first \in 1..3
    BY <2>1
  <2>3. files[first].allowed \subseteq SubagentTools
    BY <1>2, <2>2
  <2> QED
    BY <1>1, <2>3 DEF AllowedBy
<1> QED
  BY <1>3, <1>4

\* Chain(r) holds every foreground agent at work below r, and nobody who waits
\* for one outside it: what a cancel or a timeout takes along is a whole.
LEMMA ChainIsWhole ==
  ASSUME IInv, NEW r \in Agents, Alive(r)
  PROVE  /\ Chain(r) \subseteq Agents /\ r \in Chain(r)
         /\ \A a \in Chain(r) : Alive(a)
         /\ \A a \in Chain(r) \ {r} : kind[a] = "foreground" /\ parent[a] \in Chain(r)
         /\ \A b \in Agents : kind[b] = "foreground" /\ Alive(b) /\ parent[b] \in Chain(r)
                                => b \in Chain(r)
<1> DEFINE c == child[r]
           d == child[c]
<1>1. CASE c = None
  <2>1. Chain(r) = {r}
    BY <1>1 DEF Chain
  <2>2. ASSUME NEW b \in Agents, kind[b] = "foreground", Alive(b), parent[b] = r
        PROVE  FALSE
    <3>1. child[r] = b
      BY <2>2 DEF IInv, ForegroundNested
    <3> QED
      BY <1>1, <3>1 DEF None, Agents
  <2> QED
    BY <2>1, <2>2
<1>2. CASE c # None
  <2>1. /\ c \in Agents /\ kind[c] = "foreground" /\ parent[c] = r /\ Alive(c)
    BY <1>2 DEF IInv, Waits
  <2>2. CASE d = None
    <3>1. Chain(r) = {r, c}
      BY <1>2, <2>2 DEF Chain
    <3>2. ASSUME NEW b \in Agents, kind[b] = "foreground", Alive(b), parent[b] \in {r, c}
          PROVE  b = c
      <4>1. child[parent[b]] = b
        BY <3>2 DEF IInv, ForegroundNested
      <4>2. parent[b] # c
        BY <2>2, <4>1 DEF None, Agents
      <4> QED
        BY <3>2, <4>1, <4>2
    <3> QED
      BY <2>1, <3>1, <3>2
  <2>3. CASE d # None
    <3>1. /\ d \in Agents /\ kind[d] = "foreground" /\ parent[d] = c /\ Alive(d)
      BY <2>1, <2>3 DEF IInv, Waits
    <3>2. Chain(r) = {r, c, d}
      BY <1>2, <2>3 DEF Chain
    <3>3. tools[d] = {}
      <4>1. parent[d] # None /\ parent[parent[d]] # None
        BY <2>1, <3>1 DEF None, Agents
      <4> QED
        BY <3>1, <4>1 DEF IInv, Family
    <3>4. pc[d] # "calling"
      BY <3>1, <3>3 DEF IInv, Calls
    <3>5. ASSUME NEW b \in Agents, kind[b] = "foreground", Alive(b), parent[b] \in {r, c, d}
          PROVE  b \in {c, d}
      <4>1. child[parent[b]] = b /\ pc[parent[b]] = "calling"
        BY <3>5 DEF IInv, ForegroundNested
      <4> QED
        BY <3>4, <3>5, <4>1
    <3> QED
      BY <2>1, <3>1, <3>2, <3>5
  <2> QED
    BY <2>2, <2>3
<1> QED
  BY <1>1, <1>2

(***************************************************************************)
(* A step that bears nobody: the agents of s leave, with everyone who      *)
(* waits for them hung up and everyone below them in s.                    *)
(***************************************************************************)
LEMMA Departure ==
  ASSUME IInv, TypeOK', UNCHANGED tree, NEW s \in SUBSET Agents,
         \A a \in Agents :
            /\ pc'[a] = "unborn" <=> pc[a] = "unborn"
            /\ pc[a] = "unborn" => child'[a] = None /\ tries'[a] = 0
            /\ pc'[a] = "calling" => pc[a] = "calling"
            /\ pc'[a] \in {"opening", "thinking"} => tries'[a] = 0
            /\ pc'[a] = "calling" /\ child'[a] = None => tries'[a] <= MaxRetries,
         \A a \in s : pc'[a] \notin {"unborn", "over"}
                         => kind[a] # "foreground" /\ child'[a] = None,
         \A a \in Agents \ s : pc'[a] \in {"unborn", "over"} <=> ~Alive(a),
         \A a \in Agents \ s : Alive(a) =>
            \/ /\ child'[a] = child[a] /\ child[a] \notin s
               /\ pc[a] = "calling" => pc'[a] = "calling"
            \/ /\ child'[a] = None
               /\ child[a] = None \/ child[a] \in s,
         \A a \in Agents \ s : kind[a] = "foreground" /\ Alive(a) => parent[a] \notin s
  PROVE  Family' /\ Waits' /\ Calls' /\ ForegroundNested'
<1>1. Family'
  BY DEF IInv, Family, tree
<1>2. Calls'
  BY DEF IInv, Calls, tree
<1>3. Waits'
  <2> SUFFICES ASSUME NEW a \in Agents, child'[a] # None, pc'[a] \notin {"unborn", "over"}
               PROVE  /\ pc'[a] = "calling"
                      /\ child'[a] \in Agents
                      /\ kind'[child'[a]] = "foreground"
                      /\ parent'[child'[a]] = a
                      /\ pc'[child'[a]] \notin {"unborn", "over"}
    BY DEF Waits, Alive
  <2>1. a \notin s /\ Alive(a)
    OBVIOUS
  <2>2. child'[a] = child[a] /\ child[a] \notin s /\ (pc[a] = "calling" => pc'[a] = "calling")
    BY <2>1
  <2>3. /\ pc[a] = "calling" /\ child[a] \in Agents /\ kind[child[a]] = "foreground"
        /\ parent[child[a]] = a /\ Alive(child[a])
    BY <2>1, <2>2 DEF IInv, Waits
  <2>4. pc'[child[a]] \notin {"unborn", "over"}
    BY <2>2, <2>3
  <2> QED
    BY <2>2, <2>3, <2>4 DEF tree
<1>4. ForegroundNested'
  <2> SUFFICES ASSUME NEW b \in Agents, kind[b] = "foreground",
                      pc'[b] \notin {"unborn", "over"}
               PROVE  pc'[parent[b]] = "calling" /\ child'[parent[b]] = b
    BY DEF ForegroundNested, Alive, tree
  <2>1. b \notin s /\ Alive(b)
    OBVIOUS
  <2>2. pc[parent[b]] = "calling" /\ child[parent[b]] = b
    BY <2>1 DEF IInv, ForegroundNested
  <2>3. parent[b] \in Agents
    <3>1. parent[b] # None
      BY DEF IInv, Family
    <3>2. parent[b] \in 0..MaxAgents
      BY DEF IInv, TypeOK
    <3> QED
      BY <3>1, <3>2, Bounds DEF Agents, None
  <2>4. parent[b] \notin s /\ Alive(parent[b])
    BY <2>1, <2>2 DEF Alive
  <2>5. b # None
    BY DEF Agents, None
  <2> QED
    BY <2>1, <2>2, <2>3, <2>4, <2>5
<1> QED
  BY <1>1, <1>2, <1>3, <1>4

(***************************************************************************)
(* The steps of one agent.  Quiet is what a step may not do to agents that *)
(* are over.                                                               *)
(***************************************************************************)
Quiet ==
    \A a \in Agents :
        /\ a \in finished => step'[a] = step[a] /\ status'[a] = status[a]
        /\ a \in reported => step'[a] = step[a] /\ (a \in finished' => a \in finished)

Places   == {"unborn", "opening", "thinking", "calling", "ending", "published", "over"}
Statuses == {"running", "success", "failed"}

\* GoOn touches a alone, and a goes on or comes to its end.
LEMMA GoOnStep ==
  ASSUME TypeOK, NEW a \in Agents, NEW next, NEW marks, pc[a] \in {"thinking", "calling"},
         next \in [Agents -> Places], marks \in [Agents -> Statuses],
         GoOn(a, next, marks)
  PROVE  /\ pc' \in [Agents -> Places]
         /\ status' \in [Agents -> Statuses]
         /\ step' \in [Agents -> 0..MaxSteps]
         /\ pc'[a] \in {"thinking", "ending"}
         /\ \A b \in Agents \ {a} :
               pc'[b] = next[b] /\ status'[b] = marks[b] /\ step'[b] = step[b]
<1>1. MaxSteps \in Nat /\ step[a] \in 0..MaxSteps
  BY Bounds DEF TypeOK
<1>2. CASE step[a] < MaxSteps
  BY <1>1, <1>2 DEF GoOn, TypeOK, Places, Statuses
<1>3. CASE ~ (step[a] < MaxSteps)
  BY <1>1, <1>3 DEF GoOn, TypeOK, Places, Statuses
<1> QED
  BY <1>2, <1>3

LEMMA ContinueStep ==
  ASSUME TypeOK, NEW a \in Agents, NEW next, pc[a] \in {"thinking", "calling"},
         next \in [Agents -> Places],
         Continue(a, next)
  PROVE  /\ pc' \in [Agents -> Places]
         /\ status' \in [Agents -> Statuses]
         /\ step' \in [Agents -> 0..MaxSteps]
         /\ pc'[a] \in {"thinking", "ending"}
         /\ \A b \in Agents \ {a} :
               pc'[b] = next[b] /\ status'[b] = status[b] /\ step'[b] = step[b]
<1>1. status \in [Agents -> Statuses]
  BY DEF TypeOK, Statuses
<1> QED
  BY <1>1, GoOnStep DEF Continue

\* What a cancellation marks.
LEMMA MarkedTypes ==
  ASSUME TypeOK, NEW s
  PROVE  /\ Marked(s) \in [Agents -> Statuses]
         /\ \A a \in Agents : a \notin s \/ (kind[a] # "run" /\ pc[a] # "thinking")
                               => Marked(s)[a] = status[a]
BY DEF Marked, TypeOK, Statuses

\* CallFails touches the parent p alone, which tries again or goes on.
LEMMA CallFailsStep ==
  ASSUME TypeOK, NEW p \in Agents, NEW next, pc[p] = "calling",
         next \in [Agents -> Places],
         next[p] = "calling",
         CallFails(p, next)
  PROVE  /\ pc' \in [Agents -> Places]
         /\ status' \in [Agents -> Statuses]
         /\ step' \in [Agents -> 0..MaxSteps]
         /\ child' = [child EXCEPT ![p] = None]
         /\ tries' \in [Agents -> 0..(MaxRetries + 1)]
         /\ \/ pc'[p] = "calling" /\ tries'[p] <= MaxRetries
            \/ pc'[p] \in {"thinking", "ending"} /\ tries'[p] = 0
         /\ \A b \in Agents \ {p} :
               /\ pc'[b] = next[b] /\ status'[b] = status[b] /\ step'[b] = step[b]
               /\ tries'[b] = tries[b]
<1>1. child' = [child EXCEPT ![p] = None]
  BY DEF CallFails, Hangup
<1>2. CASE tries[p] <= MaxRetries
  BY <1>1, <1>2 DEF CallFails, TypeOK, Places, Statuses
<1>3. CASE ~ (tries[p] <= MaxRetries)
  <2>1. Continue(p, next) /\ tries' = [tries EXCEPT ![p] = 0]
    BY <1>3 DEF CallFails, Redial
  <2>2. tries' \in [Agents -> 0..(MaxRetries + 1)]
    BY <2>1, Bounds DEF TypeOK
  <2> QED
    BY <1>1, <2>1, <2>2, ContinueStep DEF TypeOK
<1> QED
  BY <1>2, <1>3

\* Ends and Quiet, of a step that publishes and reports as the code does and
\* leaves agents that published alone.
LEMMA Silence ==
  ASSUME IInv, UNCHANGED <<kind, oneShot>>,
         \A a \in Agents : pc[a] \in {"published", "over"} /\ kind[a] # "run" =>
            /\ pc'[a] = pc[a] \/ pc'[a] = "over"
            /\ step'[a] = step[a] /\ status'[a] = status[a],
         \A a \in finished' \ finished :
            pc[a] = "ending" /\ pc'[a] = "published" /\ kind[a] # "run",
         \A a \in reported' \ reported : a \in Agents /\ pc[a] = "over" /\ kind[a] # "run"
  PROVE  Ends' /\ Quiet
<1>1. finished \subseteq Agents /\ reported \subseteq Agents
  BY DEF IInv, TypeOK
<1> QED
  BY <1>1 DEF IInv, Ends, Quiet

\* A step at which nobody leaves.
LEMMA NobodyLeaves ==
  ASSUME IInv, TypeOK', UNCHANGED tree,
         \A a \in Agents :
            /\ pc'[a] = "unborn" <=> pc[a] = "unborn"
            /\ pc'[a] = "over" <=> pc[a] = "over"
            /\ pc[a] = "unborn" => child'[a] = None /\ tries'[a] = 0
            /\ pc'[a] = "calling" => pc[a] = "calling"
            /\ pc'[a] \in {"opening", "thinking"} => tries'[a] = 0
            /\ pc'[a] = "calling" /\ child'[a] = None => tries'[a] <= MaxRetries
            /\ Alive(a) => /\ child'[a] = child[a]
                           /\ pc[a] = "calling" => pc'[a] = "calling" \/ child[a] = None
  PROVE  Family' /\ Waits' /\ Calls' /\ ForegroundNested'
<1> DEFINE s == {}
<1>1. s \in SUBSET Agents
  OBVIOUS
<1>2. \A a \in s : pc'[a] \notin {"unborn", "over"}
                      => kind[a] # "foreground" /\ child'[a] = None
  OBVIOUS
<1>3. \A a \in Agents \ s : pc'[a] \in {"unborn", "over"} <=> ~Alive(a)
  BY DEF Alive
<1>4. \A a \in Agents \ s : Alive(a) =>
         \/ /\ child'[a] = child[a] /\ child[a] \notin s
            /\ pc[a] = "calling" => pc'[a] = "calling"
         \/ /\ child'[a] = None
            /\ child[a] = None \/ child[a] \in s
  OBVIOUS
<1>5. \A a \in Agents \ s : kind[a] = "foreground" /\ Alive(a) => parent[a] \notin s
  OBVIOUS
<1>6. \A a \in Agents :
         /\ pc'[a] = "unborn" <=> pc[a] = "unborn"
         /\ pc[a] = "unborn" => child'[a] = None /\ tries'[a] = 0
         /\ pc'[a] = "calling" => pc[a] = "calling"
         /\ pc'[a] \in {"opening", "thinking"} => tries'[a] = 0
         /\ pc'[a] = "calling" /\ child'[a] = None => tries'[a] <= MaxRetries
  OBVIOUS
<1> HIDE DEF s
<1> QED
  BY <1>1, <1>2, <1>3, <1>4, <1>5, <1>6, Departure

\* A step of an agent that waits for nobody, in its own affairs.
LEMMA OwnStep ==
  ASSUME IInv, TypeOK', UNCHANGED <<tree, call>>, NEW a \in Agents,
         pc[a] \in {"opening", "thinking", "ending"},
         pc'[a] \in {"thinking", "ending", "published"},
         pc[a] = "ending" => pc'[a] = "published",
         \A b \in Agents \ {a} : pc'[b] = pc[b]
  PROVE  Family' /\ Waits' /\ Calls' /\ ForegroundNested'
<1>1. \A b \in Agents :
         /\ pc'[b] = "unborn" <=> pc[b] = "unborn"
         /\ pc'[b] = "over" <=> pc[b] = "over"
         /\ pc[b] = "unborn" => child'[b] = None /\ tries'[b] = 0
         /\ pc'[b] = "calling" <=> pc[b] = "calling"
         /\ pc'[b] \in {"opening", "thinking"} => tries'[b] = 0
         /\ pc'[b] = "calling" /\ child'[b] = None => tries'[b] <= MaxRetries
         /\ child'[b] = child[b]
  BY DEF IInv, Family, Calls, call
<1> QED
  BY <1>1, NobodyLeaves

LEMMA OpenStep == ASSUME IInv, NEW a \in Agents, Open(a) PROVE IInv' /\ Quiet
<1>1. TypeOK'
  BY Bounds DEF IInv, TypeOK, Open, tree, call
<1>2. pc[a] = "opening" /\ pc' = [pc EXCEPT ![a] = "thinking"]
  BY DEF Open
<1>3. Family' /\ Waits' /\ Calls' /\ ForegroundNested'
  BY <1>1, <1>2, OwnStep DEF Open, IInv, TypeOK
<1>4. Ends' /\ Quiet
  BY <1>2, Silence DEF Open, IInv, TypeOK, tree
<1> QED
  BY <1>1, <1>3, <1>4 DEF IInv

LEMMA LoopEndsStep ==
  ASSUME IInv, NEW a \in Agents, NEW s \in {"success", "failed"}, LoopEnds(a, s)
  PROVE  IInv' /\ Quiet
<1>1. TypeOK'
  BY DEF IInv, TypeOK, LoopEnds, tree, call
<1>2. pc[a] = "thinking" /\ pc' = [pc EXCEPT ![a] = "ending"]
  BY DEF LoopEnds
<1>3. Family' /\ Waits' /\ Calls' /\ ForegroundNested'
  BY <1>1, <1>2, OwnStep DEF LoopEnds, IInv, TypeOK
<1>4. Ends' /\ Quiet
  BY <1>2, Silence DEF LoopEnds, IInv, TypeOK, tree
<1> QED
  BY <1>1, <1>3, <1>4 DEF IInv

LEMMA UseToolStep == ASSUME IInv, NEW a \in Agents, UseTool(a) PROVE IInv' /\ Quiet
<1>1. /\ pc[a] = "thinking" /\ Continue(a, pc) /\ UNCHANGED <<tree, call>>
      /\ UNCHANGED <<ended, finished, reported, daemon>>
  BY DEF UseTool
<1>2. /\ pc' \in [Agents -> Places] /\ status' \in [Agents -> Statuses]
      /\ step' \in [Agents -> 0..MaxSteps] /\ pc'[a] \in {"thinking", "ending"}
      /\ \A b \in Agents \ {a} :
            pc'[b] = pc[b] /\ status'[b] = status[b] /\ step'[b] = step[b]
  BY <1>1, ContinueStep DEF IInv, TypeOK, Places
<1>3. TypeOK'
  BY <1>1, <1>2 DEF IInv, TypeOK, Places, Statuses, tree, call
<1>4. Family' /\ Waits' /\ Calls' /\ ForegroundNested'
  BY <1>1, <1>2, <1>3, OwnStep
<1>5. Ends' /\ Quiet
  BY <1>1, <1>2, Silence DEF tree
<1> QED
  BY <1>3, <1>4, <1>5 DEF IInv

LEMMA QueryStep ==
  ASSUME IInv, NEW a \in Agents, NEW b \in Agents, Query(a, b) PROVE IInv' /\ Quiet
<1>1. /\ pc[a] = "thinking" /\ Continue(a, pc) /\ UNCHANGED <<tree, call>>
      /\ kind[b] = "background"
      /\ reported' = reported \/ (reported' = reported \cup {b} /\ pc[b] = "over")
      /\ UNCHANGED <<ended, finished, daemon>>
  BY DEF Query, IsOver
<1>2. /\ pc' \in [Agents -> Places] /\ status' \in [Agents -> Statuses]
      /\ step' \in [Agents -> 0..MaxSteps] /\ pc'[a] \in {"thinking", "ending"}
      /\ \A c \in Agents \ {a} :
            pc'[c] = pc[c] /\ status'[c] = status[c] /\ step'[c] = step[c]
  BY <1>1, ContinueStep DEF IInv, TypeOK, Places
<1>3. TypeOK'
  BY <1>1, <1>2 DEF IInv, TypeOK, Places, Statuses, tree, call
<1>4. Family' /\ Waits' /\ Calls' /\ ForegroundNested'
  BY <1>1, <1>2, <1>3, OwnStep
<1>5. Ends' /\ Quiet
  BY <1>1, <1>2, Silence DEF tree
<1> QED
  BY <1>3, <1>4, <1>5 DEF IInv

LEMMA PublishFinishedStep ==
  ASSUME IInv, NEW a \in Agents, PublishFinished(a) PROVE IInv' /\ Quiet
<1>1. /\ pc[a] = "ending" /\ pc' = [pc EXCEPT ![a] = "published"]
      /\ finished' = finished \/ (finished' = finished \cup {a} /\ kind[a] # "run")
      /\ UNCHANGED <<tree, call>> /\ UNCHANGED <<status, step, ended, reported, daemon>>
  BY DEF PublishFinished
<1>2. TypeOK'
  BY <1>1 DEF IInv, TypeOK, tree, call
<1>3. Family' /\ Waits' /\ Calls' /\ ForegroundNested'
  BY <1>1, <1>2, OwnStep DEF IInv, TypeOK
<1>4. Ends' /\ Quiet
  BY <1>1, Silence DEF IInv, TypeOK, tree
<1> QED
  BY <1>2, <1>3, <1>4 DEF IInv

\* No run id is left for another attempt.
LEMMA OutOfIdsStep == ASSUME IInv, NEW a \in Agents, OutOfIds(a) PROVE IInv' /\ Quiet
<1>1. /\ pc[a] = "calling" /\ child[a] = None /\ Continue(a, pc) /\ UNCHANGED tree
      /\ child' = [child EXCEPT ![a] = None] /\ tries' = [tries EXCEPT ![a] = 0]
      /\ UNCHANGED <<ended, finished, reported, daemon>>
  BY DEF OutOfIds, Hangup, Redial
<1>2. /\ pc' \in [Agents -> Places] /\ status' \in [Agents -> Statuses]
      /\ step' \in [Agents -> 0..MaxSteps] /\ pc'[a] \in {"thinking", "ending"}
      /\ \A b \in Agents \ {a} :
            pc'[b] = pc[b] /\ status'[b] = status[b] /\ step'[b] = step[b]
  BY <1>1, ContinueStep DEF IInv, TypeOK, Places
<1>3. TypeOK'
  <2>1. child' \in [Agents -> 0..MaxAgents] /\ tries' \in [Agents -> 0..(MaxRetries + 1)]
    BY <1>1, Bounds DEF IInv, TypeOK, None
  <2> QED
    BY <1>1, <1>2, <2>1 DEF IInv, TypeOK, Places, Statuses, tree
<1>4. Family' /\ Waits' /\ Calls' /\ ForegroundNested'
  <2>1. child' = child
    BY <1>1 DEF IInv, TypeOK
  <2>2. tries'[a] = 0 /\ \A b \in Agents \ {a} : tries'[b] = tries[b]
    BY <1>1 DEF IInv, TypeOK
  <2>3. \A b \in Agents :
           /\ pc'[b] = "unborn" <=> pc[b] = "unborn"
           /\ pc'[b] = "over" <=> pc[b] = "over"
           /\ pc[b] = "unborn" => child'[b] = None /\ tries'[b] = 0
           /\ pc'[b] = "calling" => pc[b] = "calling"
           /\ pc'[b] \in {"opening", "thinking"} => tries'[b] = 0
           /\ pc'[b] = "calling" /\ child'[b] = None => tries'[b] <= MaxRetries
           /\ pc[b] = "calling" => pc'[b] = "calling" \/ child[b] = None
    BY <1>1, <1>2, <2>1, <2>2 DEF IInv, Family, Calls
  <2> QED
    BY <1>1, <1>3, <2>1, <2>3, NobodyLeaves
<1>5. Ends' /\ Quiet
  BY <1>1, <1>2, Silence DEF tree
<1> QED
  BY <1>3, <1>4, <1>5 DEF IInv

(***************************************************************************)
(* Agents that leave.                                                      *)
(***************************************************************************)

LEMMA HungUp ==
  ASSUME TypeOK, NEW p, child' = [child EXCEPT ![p] = None]
  PROVE  child' \in [Agents -> 0..MaxAgents]
<1>1. 0 \in 0..MaxAgents
  BY Bounds
<1> QED
  BY <1>1 DEF TypeOK, None

\* A foreground agent that returns or fails, and its parent, which hangs up.
LEMMA ChildLeaves ==
  ASSUME IInv, TypeOK', UNCHANGED tree, NEW a \in Agents,
         kind[a] = "foreground", pc[a] \in {"opening", "published"}, pc'[a] = "over",
         child' = [child EXCEPT ![parent[a]] = None],
         \/ pc'[parent[a]] = "calling" /\ tries'[parent[a]] <= MaxRetries
         \/ pc'[parent[a]] \in {"thinking", "ending"} /\ tries'[parent[a]] = 0,
         \A b \in Agents \ {a, parent[a]} : pc'[b] = pc[b],
         \A b \in Agents \ {parent[a]} : tries'[b] = tries[b]
  PROVE  Family' /\ Waits' /\ Calls' /\ ForegroundNested'
<1> DEFINE p == parent[a]
           s == {a}
<1>1. p \in Agents /\ pc[p] = "calling" /\ child[p] = a /\ p # a
  <2>1. pc[p] = "calling" /\ child[p] = a
    BY DEF IInv, ForegroundNested, Alive
  <2>2. p # None /\ p \in 0..MaxAgents
    BY DEF IInv, Family, TypeOK
  <2> QED
    BY <2>1, <2>2, Bounds DEF Agents, None
<1>2. \A b \in Agents \ {p} : child'[b] = child[b]
  BY DEF IInv, TypeOK
<1>3. child'[p] = None
  BY <1>1 DEF IInv, TypeOK
<1>4. s \in SUBSET Agents
  OBVIOUS
<1>5. \A b \in Agents :
         /\ pc'[b] = "unborn" <=> pc[b] = "unborn"
         /\ pc[b] = "unborn" => child'[b] = None /\ tries'[b] = 0
         /\ pc'[b] = "calling" => pc[b] = "calling"
         /\ pc'[b] \in {"opening", "thinking"} => tries'[b] = 0
         /\ pc'[b] = "calling" /\ child'[b] = None => tries'[b] <= MaxRetries
  BY <1>1, <1>2 DEF IInv, Family, Calls
<1>6. \A b \in s : pc'[b] \notin {"unborn", "over"}
                      => kind[b] # "foreground" /\ child'[b] = None
  OBVIOUS
<1>7. \A b \in Agents \ s : pc'[b] \in {"unborn", "over"} <=> ~Alive(b)
  BY <1>1 DEF Alive
<1>8. \A b \in Agents \ s : Alive(b) =>
         \/ /\ child'[b] = child[b] /\ child[b] \notin s
            /\ pc[b] = "calling" => pc'[b] = "calling"
         \/ /\ child'[b] = None
            /\ child[b] = None \/ child[b] \in s
  <2> SUFFICES ASSUME NEW b \in Agents \ s, Alive(b), b # p
               PROVE  child'[b] = child[b] /\ child[b] \notin s /\ pc'[b] = pc[b]
    BY <1>1, <1>3
  <2>1. child[b] # a
    BY DEF IInv, Waits, Agents, None
  <2> QED
    BY <1>2, <2>1
<1>9. \A b \in Agents \ s : kind[b] = "foreground" /\ Alive(b) => parent[b] \notin s
  <2> SUFFICES ASSUME NEW b \in Agents, kind[b] = "foreground", Alive(b), parent[b] = a
               PROVE  FALSE
    OBVIOUS
  <2> QED
    BY DEF IInv, ForegroundNested
<1> HIDE DEF s, p
<1> QED
  BY <1>4, <1>5, <1>6, <1>7, <1>8, <1>9, Departure

\* An agent that no one waits for, and that waits for no one.
LEMMA LonerLeaves ==
  ASSUME IInv, TypeOK', UNCHANGED <<tree, call>>, NEW a \in Agents,
         kind[a] # "foreground", pc[a] \in {"opening", "published"},
         pc' = [pc EXCEPT ![a] = "over"]
  PROVE  Family' /\ Waits' /\ Calls' /\ ForegroundNested'
<1> DEFINE s == {a}
<1>1. pc'[a] = "over" /\ \A b \in Agents \ {a} : pc'[b] = pc[b]
  BY DEF IInv, TypeOK
<1>2. s \in SUBSET Agents
  OBVIOUS
<1>3. \A b \in Agents :
         /\ pc'[b] = "unborn" <=> pc[b] = "unborn"
         /\ pc[b] = "unborn" => child'[b] = None /\ tries'[b] = 0
         /\ pc'[b] = "calling" => pc[b] = "calling"
         /\ pc'[b] \in {"opening", "thinking"} => tries'[b] = 0
         /\ pc'[b] = "calling" /\ child'[b] = None => tries'[b] <= MaxRetries
  BY <1>1 DEF IInv, Family, Calls, call
<1>4. \A b \in s : pc'[b] \notin {"unborn", "over"}
                      => kind[b] # "foreground" /\ child'[b] = None
  BY <1>1
<1>5. \A b \in Agents \ s : pc'[b] \in {"unborn", "over"} <=> ~Alive(b)
  BY <1>1 DEF Alive
<1>6. \A b \in Agents \ s : Alive(b) =>
         \/ /\ child'[b] = child[b] /\ child[b] \notin s
            /\ pc[b] = "calling" => pc'[b] = "calling"
         \/ /\ child'[b] = None
            /\ child[b] = None \/ child[b] \in s
  <2> SUFFICES ASSUME NEW b \in Agents \ s, Alive(b)
               PROVE  child'[b] = child[b] /\ child[b] \notin s /\ pc'[b] = pc[b]
    OBVIOUS
  <2>1. child[b] # a
    BY DEF IInv, Waits, Agents, None
  <2> QED
    BY <1>1, <2>1 DEF call
<1>7. \A b \in Agents \ s : kind[b] = "foreground" /\ Alive(b) => parent[b] \notin s
  BY DEF IInv, ForegroundNested
<1> HIDE DEF s
<1> QED
  BY <1>2, <1>3, <1>4, <1>5, <1>6, <1>7, Departure

LEMMA OpenFailsStep == ASSUME IInv, NEW a \in Agents, OpenFails(a) PROVE IInv' /\ Quiet
<1>1. /\ pc[a] = "opening" /\ kind[a] # "run" /\ ended' = [ended EXCEPT ![a] = "raised"]
      /\ UNCHANGED tree /\ UNCHANGED <<finished, reported, daemon>>
  BY DEF OpenFails
<1> DEFINE p == parent[a]
           next == [pc EXCEPT ![a] = "over"]
<1>2. pc \in [Agents -> Places] /\ next \in [Agents -> Places]
  BY DEF IInv, TypeOK, Places
<1>3. CASE kind[a] = "foreground"
  <2>1. p \in Agents /\ pc[p] = "calling" /\ p # a
    <3>1. pc[p] = "calling"
      BY <1>1, <1>3 DEF IInv, ForegroundNested, Alive
    <3>2. p # None /\ p \in 0..MaxAgents
      BY <1>3 DEF IInv, Family, TypeOK
    <3> QED
      BY <1>1, <3>1, <3>2, Bounds DEF Agents, None
  <2>2. next[p] = "calling" /\ CallFails(p, next)
    BY <1>2, <1>3, <2>1 DEF OpenFails
  <2> HIDE DEF next
  <2>3. /\ pc' \in [Agents -> Places] /\ status' \in [Agents -> Statuses]
        /\ step' \in [Agents -> 0..MaxSteps]
        /\ child' = [child EXCEPT ![p] = None]
        /\ tries' \in [Agents -> 0..(MaxRetries + 1)]
        /\ \/ pc'[p] = "calling" /\ tries'[p] <= MaxRetries
           \/ pc'[p] \in {"thinking", "ending"} /\ tries'[p] = 0
        /\ \A b \in Agents \ {p} :
              /\ pc'[b] = next[b] /\ status'[b] = status[b] /\ step'[b] = step[b]
              /\ tries'[b] = tries[b]
    BY <1>2, <2>1, <2>2, CallFailsStep DEF IInv
  <2>4. pc'[a] = "over" /\ \A b \in Agents \ {a, p} : pc'[b] = pc[b]
    BY <1>2, <2>1, <2>3 DEF next
  <2>5. TypeOK'
    <3>1. child' \in [Agents -> 0..MaxAgents]
      BY <2>3, HungUp DEF IInv
    <3> QED
      BY <1>1, <2>3, <3>1 DEF IInv, TypeOK, Places, Statuses, tree
  <2>6. Family' /\ Waits' /\ Calls' /\ ForegroundNested'
    BY <1>1, <1>3, <2>3, <2>4, <2>5, ChildLeaves
  <2>7. Ends' /\ Quiet
    BY <1>1, <2>1, <2>3, <2>4, Silence DEF tree
  <2> QED
    BY <2>5, <2>6, <2>7 DEF IInv
<1>4. CASE kind[a] # "foreground"
  <2>1. pc' = next /\ UNCHANGED <<call, status, step>>
    BY <1>4 DEF OpenFails
  <2>2. TypeOK'
    BY <1>1, <2>1 DEF IInv, TypeOK, tree, call
  <2>3. Family' /\ Waits' /\ Calls' /\ ForegroundNested'
    BY <1>1, <1>4, <2>1, <2>2, LonerLeaves DEF IInv, TypeOK
  <2>4. Ends' /\ Quiet
    BY <1>1, <1>2, <2>1, Silence DEF tree
  <2> QED
    BY <2>2, <2>3, <2>4 DEF IInv
<1> QED
  BY <1>3, <1>4

LEMMA ReturnStep == ASSUME IInv, NEW a \in Agents, Return(a) PROVE IInv' /\ Quiet
<1>1. /\ pc[a] = "published" /\ ended' = [ended EXCEPT ![a] = "returned"]
      /\ UNCHANGED tree /\ UNCHANGED <<finished, reported, daemon>>
  BY DEF Return
<1> DEFINE p == parent[a]
           next == [pc EXCEPT ![a] = "over"]
<1>2. pc \in [Agents -> Places] /\ next \in [Agents -> Places]
  BY DEF IInv, TypeOK, Places
<1>3. CASE kind[a] = "foreground"
  <2>1. p \in Agents /\ pc[p] = "calling" /\ p # a
    <3>1. pc[p] = "calling"
      BY <1>1, <1>3 DEF IInv, ForegroundNested, Alive
    <3>2. p # None /\ p \in 0..MaxAgents
      BY <1>3 DEF IInv, Family, TypeOK
    <3> QED
      BY <1>1, <3>1, <3>2, Bounds DEF Agents, None
  <2>2. next[p] = "calling"
    BY <1>2, <2>1
  <2>3. CallFails(p, next) \/ (Continue(p, next) /\ Hangup(p) /\ Redial(p))
    BY <1>3 DEF Return
  <2> HIDE DEF next
  <2>4. /\ pc' \in [Agents -> Places] /\ status' \in [Agents -> Statuses]
        /\ step' \in [Agents -> 0..MaxSteps]
        /\ child' = [child EXCEPT ![p] = None]
        /\ tries' \in [Agents -> 0..(MaxRetries + 1)]
        /\ \/ pc'[p] = "calling" /\ tries'[p] <= MaxRetries
           \/ pc'[p] \in {"thinking", "ending"} /\ tries'[p] = 0
        /\ \A b \in Agents \ {p} :
              /\ pc'[b] = next[b] /\ status'[b] = status[b] /\ step'[b] = step[b]
              /\ tries'[b] = tries[b]
    <3>1. CASE CallFails(p, next)
      BY <1>2, <2>1, <2>2, <3>1, CallFailsStep DEF IInv
    <3>2. CASE Continue(p, next) /\ Hangup(p) /\ Redial(p)
      <4>1. child' = [child EXCEPT ![p] = None] /\ tries' = [tries EXCEPT ![p] = 0]
        BY <3>2 DEF Hangup, Redial
      <4>2. /\ pc' \in [Agents -> Places] /\ status' \in [Agents -> Statuses]
            /\ step' \in [Agents -> 0..MaxSteps] /\ pc'[p] \in {"thinking", "ending"}
            /\ \A b \in Agents \ {p} :
                  pc'[b] = next[b] /\ status'[b] = status[b] /\ step'[b] = step[b]
        BY <1>2, <2>1, <3>2, ContinueStep DEF IInv
      <4>3. tries \in [Agents -> 0..(MaxRetries + 1)] /\ 0 \in 0..(MaxRetries + 1)
        BY Bounds DEF IInv, TypeOK
      <4>4. /\ tries' \in [Agents -> 0..(MaxRetries + 1)] /\ tries'[p] = 0
            /\ \A b \in Agents \ {p} : tries'[b] = tries[b]
        BY <2>1, <4>1, <4>3
      <4> QED
        BY <4>1, <4>2, <4>4
    <3> QED
      BY <2>3, <3>1, <3>2
  <2>5. pc'[a] = "over" /\ \A b \in Agents \ {a, p} : pc'[b] = pc[b]
    BY <1>2, <2>1, <2>4 DEF next
  <2>6. TypeOK'
    <3>1. child' \in [Agents -> 0..MaxAgents]
      BY <2>4, HungUp DEF IInv
    <3> QED
      BY <1>1, <2>4, <3>1 DEF IInv, TypeOK, Places, Statuses, tree
  <2>7. Family' /\ Waits' /\ Calls' /\ ForegroundNested'
    BY <1>1, <1>3, <2>4, <2>5, <2>6, ChildLeaves
  <2>8. Ends' /\ Quiet
    BY <1>1, <2>1, <2>4, <2>5, Silence DEF tree
  <2> QED
    BY <2>6, <2>7, <2>8 DEF IInv
<1>4. CASE kind[a] # "foreground"
  <2>1. pc' = next /\ UNCHANGED <<call, status, step>>
    BY <1>4 DEF Return
  <2>2. TypeOK'
    BY <1>1, <2>1 DEF IInv, TypeOK, tree, call
  <2>3. Family' /\ Waits' /\ Calls' /\ ForegroundNested'
    BY <1>1, <1>4, <2>1, <2>2, LonerLeaves DEF IInv, TypeOK
  <2>4. Ends' /\ Quiet
    BY <1>1, <1>2, <2>1, Silence DEF tree
  <2> QED
    BY <2>2, <2>3, <2>4 DEF IInv
<1> QED
  BY <1>3, <1>4

(***************************************************************************)
(* Timeouts, cancels and the end of the daemon: a whole set of agents      *)
(* leaves at once.                                                         *)
(***************************************************************************)

\* A set with everyone below it and no one who waits for it from outside but top.
Whole(s, top) ==
    /\ s \subseteq {a \in Agents : Alive(a)}
    /\ \A b \in Agents : kind[b] = "foreground" /\ Alive(b) /\ parent[b] \in s => b \in s
    /\ \A b \in s : kind[b] = "foreground" => parent[b] \in s \cup top

\* Who is not in s keeps its child, unless it is in top and hangs up.
LEMMA Bystanders ==
  ASSUME IInv, NEW s, NEW top, Whole(s, top),
         \A b \in Agents \ (s \cup top) : child'[b] = child[b] /\ pc'[b] = pc[b],
         \A b \in top : child'[b] = None /\ (child[b] = None \/ child[b] \in s)
  PROVE  /\ \A b \in Agents \ s : Alive(b) =>
               \/ /\ child'[b] = child[b] /\ child[b] \notin s
                  /\ pc[b] = "calling" => pc'[b] = "calling"
               \/ /\ child'[b] = None
                  /\ child[b] = None \/ child[b] \in s
         /\ \A b \in Agents \ s : kind[b] = "foreground" /\ Alive(b) => parent[b] \notin s
<1>1. ASSUME NEW b \in Agents \ (s \cup top), Alive(b) PROVE child[b] \notin s
  <2>1. CASE child[b] = None
    BY <2>1, Bounds DEF Whole, None, Agents
  <2>2. CASE child[b] # None
    BY <1>1, <2>2 DEF IInv, Waits, Whole
  <2> QED
    BY <2>1, <2>2
<1> QED
  BY <1>1 DEF Whole

LEMMA CancelledStep ==
  ASSUME IInv, UNCHANGED tree, UNCHANGED <<step, finished, reported>>,
         daemon' \in {"up", "stopping", "down"},
         NEW s \in SUBSET Agents, NEW top, top \subseteq Agents, Whole(s, top), Cancelled(s),
         \A a \in s : kind[a] = "run" => a \in top /\ pc[a] # "published",
         \A a \in top : a \in s \/ ~Alive(a),
         child' \in [Agents -> 0..MaxAgents], tries' \in [Agents -> 0..(MaxRetries + 1)],
         \A a \in top : child'[a] = None /\ (child[a] = None \/ child[a] \in s),
         \A a \in Agents \ top : child'[a] = child[a] /\ tries'[a] = tries[a],
         \A a \in top : tries'[a] = 0
  PROVE  IInv' /\ Quiet
<1>1. /\ pc' \in [Agents -> Places]
      /\ \A a \in Agents \ s : pc'[a] = pc[a]
      /\ \A a \in s : pc'[a] = IF kind[a] = "run" THEN "ending" ELSE "over"
  BY DEF Cancelled, IInv, TypeOK, Places
<1>2. /\ status' \in [Agents -> Statuses]
      /\ \A a \in Agents : kind[a] # "run" /\ pc[a] # "thinking" => status'[a] = status[a]
  BY MarkedTypes DEF Cancelled, IInv
<1>3. ended' \in [Agents -> {"no", "returned", "raised", "cancelled"}]
  BY DEF Cancelled, IInv, TypeOK
<1>4. TypeOK'
  BY <1>1, <1>2, <1>3 DEF IInv, TypeOK, Places, Statuses, tree
<1>5. Family' /\ Waits' /\ Calls' /\ ForegroundNested'
  <2>1. \A a \in s : Alive(a)
    BY DEF Whole
  <2>2. \A a \in Agents :
           /\ pc'[a] = "unborn" <=> pc[a] = "unborn"
           /\ pc[a] = "unborn" => child'[a] = None /\ tries'[a] = 0
           /\ pc'[a] = "calling" => pc[a] = "calling"
           /\ pc'[a] \in {"opening", "thinking"} => tries'[a] = 0
           /\ pc'[a] = "calling" /\ child'[a] = None => tries'[a] <= MaxRetries
    <3> SUFFICES ASSUME NEW a \in Agents
                 PROVE  /\ pc'[a] = "unborn" <=> pc[a] = "unborn"
                        /\ pc[a] = "unborn" => child'[a] = None /\ tries'[a] = 0
                        /\ pc'[a] = "calling" => pc[a] = "calling"
                        /\ pc'[a] \in {"opening", "thinking"} => tries'[a] = 0
                        /\ pc'[a] = "calling" /\ child'[a] = None => tries'[a] <= MaxRetries
      OBVIOUS
    <3>1. CASE a \in s
      BY <1>1, <2>1, <3>1 DEF Alive
    <3>2. CASE a \notin s /\ a \in top
      BY <1>1, <3>2 DEF Alive
    <3>3. CASE a \notin s /\ a \notin top
      BY <1>1, <3>3 DEF IInv, Family, Calls
    <3> QED
      BY <3>1, <3>2, <3>3
  <2>3. \A a \in s : pc'[a] \notin {"unborn", "over"}
                        => kind[a] # "foreground" /\ child'[a] = None
    BY <1>1
  <2>4. \A a \in Agents \ s : pc'[a] \in {"unborn", "over"} <=> ~Alive(a)
    BY <1>1 DEF Alive
  <2>5. /\ \A b \in Agents \ s : Alive(b) =>
              \/ /\ child'[b] = child[b] /\ child[b] \notin s
                 /\ pc[b] = "calling" => pc'[b] = "calling"
              \/ /\ child'[b] = None
                 /\ child[b] = None \/ child[b] \in s
        /\ \A b \in Agents \ s : kind[b] = "foreground" /\ Alive(b) => parent[b] \notin s
    BY <1>1, Bystanders
  <2> QED
    BY <1>4, <2>2, <2>3, <2>4, <2>5, Departure
<1>6. Ends' /\ Quiet
  BY <1>1, <1>2, Silence DEF tree
<1> QED
  BY <1>4, <1>5, <1>6 DEF IInv

LEMMA CancelRunStep == ASSUME IInv, NEW r \in Agents, CancelRun(r) PROVE IInv' /\ Quiet
<1>1. /\ kind[r] = "run" /\ pc[r] \in {"opening", "thinking", "calling"}
      /\ Cancelled(Chain(r)) /\ UNCHANGED tree /\ UNCHANGED <<step, finished, reported, daemon>>
      /\ child' = [child EXCEPT ![r] = None] /\ tries' = [tries EXCEPT ![r] = 0]
  BY DEF CancelRun, AtWork, Runs, Hangup, Redial
<1>2. Alive(r)
  BY <1>1 DEF Alive
<1>3. /\ Chain(r) \subseteq Agents /\ r \in Chain(r)
      /\ \A a \in Chain(r) : Alive(a)
      /\ \A a \in Chain(r) \ {r} : kind[a] = "foreground" /\ parent[a] \in Chain(r)
      /\ \A b \in Agents : kind[b] = "foreground" /\ Alive(b) /\ parent[b] \in Chain(r)
                             => b \in Chain(r)
  BY <1>2, ChainIsWhole
<1> DEFINE s == Chain(r)
           top == {r}
<1> HIDE DEF s
<1>4. Whole(s, top)
  BY <1>1, <1>3 DEF Whole, s
<1>5. child[r] = None \/ child[r] \in s
  BY <1>2, <1>3 DEF IInv, Waits, s
<1>6. /\ child' \in [Agents -> 0..MaxAgents] /\ tries' \in [Agents -> 0..(MaxRetries + 1)]
      /\ child'[r] = None /\ tries'[r] = 0
      /\ \A a \in Agents \ {r} : child'[a] = child[a] /\ tries'[a] = tries[a]
  <2>1. 0 \in 0..(MaxRetries + 1)
    BY Bounds
  <2> QED
    BY <1>1, <2>1, HungUp DEF IInv, TypeOK
<1>7. /\ \A a \in s : kind[a] = "run" => a \in top /\ pc[a] # "published"
      /\ \A a \in top : a \in s \/ ~Alive(a)
      /\ s \in SUBSET Agents
  BY <1>1, <1>3 DEF s
<1>8. Cancelled(s) /\ daemon' \in {"up", "stopping", "down"}
  BY <1>1 DEF IInv, TypeOK, s
<1> QED
  BY <1>1, <1>4, <1>5, <1>6, <1>7, <1>8, CancelledStep

LEMMA ShutdownStep == ASSUME IInv, Shutdown PROVE IInv' /\ Quiet
<1> DEFINE top == AtWork(oneShot)
           s == UNION {Chain(r) : r \in top}
<1>1. /\ daemon' = "stopping" /\ UNCHANGED tree /\ UNCHANGED <<step, finished, reported>>
      /\ Cancelled(s)
      /\ child' = [a \in Agents |-> IF a \in top THEN None ELSE child[a]]
      /\ tries' = [a \in Agents |-> IF a \in top THEN 0 ELSE tries[a]]
  BY DEF Shutdown, HangupAll
<1>2. /\ top \subseteq Agents
      /\ \A r \in top : kind[r] = "run" /\ Alive(r) /\ pc[r] # "published"
  BY DEF AtWork, Alive, IInv, TypeOK, Ends
<1>3. ASSUME NEW r \in top
      PROVE  /\ Chain(r) \subseteq Agents /\ r \in Chain(r)
             /\ \A a \in Chain(r) : Alive(a)
             /\ \A a \in Chain(r) \ {r} : kind[a] = "foreground" /\ parent[a] \in Chain(r)
             /\ \A b \in Agents : kind[b] = "foreground" /\ Alive(b) /\ parent[b] \in Chain(r)
                                    => b \in Chain(r)
  BY <1>2, <1>3, ChainIsWhole
<1> HIDE DEF top
<1>4. Whole(s, top)
  BY <1>2, <1>3 DEF Whole
<1>5. \A r \in top : r \in s /\ (child[r] = None \/ child[r] \in s)
  BY <1>2, <1>3 DEF IInv, Waits
<1>6. /\ child' \in [Agents -> 0..MaxAgents] /\ tries' \in [Agents -> 0..(MaxRetries + 1)]
      /\ \A r \in top : child'[r] = None /\ tries'[r] = 0
      /\ \A a \in Agents \ top : child'[a] = child[a] /\ tries'[a] = tries[a]
  <2>1. 0 \in 0..(MaxRetries + 1) /\ 0 \in 0..MaxAgents
    BY Bounds
  <2> QED
    BY <1>1, <1>2, <2>1 DEF IInv, TypeOK, None
<1>7. \A a \in s : kind[a] = "run" => a \in top /\ pc[a] # "published"
  BY <1>2, <1>3
<1>8. s \in SUBSET Agents
  BY <1>3
<1> HIDE DEF s
<1> QED
  BY <1>1, <1>2, <1>4, <1>5, <1>6, <1>7, <1>8, CancelledStep

LEMMA ExitStep == ASSUME IInv, Exit PROVE IInv' /\ Quiet
<1> DEFINE top == AtWork(Runs)
           s == {a \in Agents : Alive(a) /\ (kind[a] = "run" => a \in top)}
<1>1. /\ daemon' = "down" /\ UNCHANGED tree /\ UNCHANGED <<step, finished, reported>>
      /\ Cancelled(s)
      /\ child' = [a \in Agents |-> IF a \in top THEN None ELSE child[a]]
      /\ tries' = [a \in Agents |-> IF a \in top THEN 0 ELSE tries[a]]
  BY DEF Exit, HangupAll
<1>2. /\ top \subseteq Agents
      /\ \A r \in top : kind[r] = "run" /\ Alive(r) /\ pc[r] # "published"
      /\ \A a \in Agents : kind[a] = "run" /\ pc[a] = "calling" => a \in top
  BY DEF AtWork, Runs, Alive
<1> HIDE DEF top
<1>3. ASSUME NEW a \in Agents, pc[a] = "calling" PROVE a \in s
  BY <1>2, <1>3 DEF Alive
<1>4. Whole(s, top)
  <2>1. ASSUME NEW b \in s, kind[b] = "foreground" PROVE parent[b] \in s
    <3>1. pc[parent[b]] = "calling"
      BY <2>1 DEF IInv, ForegroundNested
    <3>2. parent[b] # None /\ parent[b] \in 0..MaxAgents
      BY <2>1 DEF IInv, Family, TypeOK
    <3>3. parent[b] \in Agents
      BY <3>2, Bounds DEF Agents, None
    <3> QED
      BY <1>3, <3>1, <3>3
  <2>2. \A b \in Agents : kind[b] = "foreground" /\ Alive(b) => b \in s
    OBVIOUS
  <2> QED
    BY <2>1, <2>2 DEF Whole
<1>5. \A r \in top : r \in s /\ (child[r] = None \/ child[r] \in s)
  <2> SUFFICES ASSUME NEW r \in top PROVE r \in s /\ (child[r] = None \/ child[r] \in s)
    OBVIOUS
  <2>1. r \in s
    BY <1>2
  <2>2. child[r] # None => child[r] \in Agents /\ Alive(child[r]) /\ kind[child[r]] = "foreground"
    BY <1>2 DEF IInv, Waits
  <2> QED
    BY <2>1, <2>2
<1>6. /\ child' \in [Agents -> 0..MaxAgents] /\ tries' \in [Agents -> 0..(MaxRetries + 1)]
      /\ \A r \in top : child'[r] = None /\ tries'[r] = 0
      /\ \A a \in Agents \ top : child'[a] = child[a] /\ tries'[a] = tries[a]
  <2>1. 0 \in 0..(MaxRetries + 1) /\ 0 \in 0..MaxAgents
    BY Bounds
  <2> QED
    BY <1>1, <1>2, <2>1 DEF IInv, TypeOK, None
<1>7. \A a \in s : kind[a] = "run" => a \in top /\ pc[a] # "published"
  BY <1>2
<1>8. s \in SUBSET Agents
  OBVIOUS
<1> HIDE DEF s
<1> QED
  BY <1>1, <1>2, <1>4, <1>5, <1>6, <1>7, <1>8, CancelledStep

\* The child and everyone below it go, a itself goes on.
LEMMA ToolTimeoutStep == ASSUME IInv, NEW a \in Agents, ToolTimeout(a) PROVE IInv' /\ Quiet
<1> DEFINE c == child[a]
           s == Chain(c)
           top == {a}
           next == [b \in Agents |-> IF b \in s THEN "over" ELSE pc[b]]
<1>1. /\ pc[a] = "calling" /\ c # None
      /\ ended' = [b \in Agents |-> IF b \in s THEN "cancelled" ELSE ended[b]]
      /\ GoOn(a, next, Marked(s)) /\ UNCHANGED tree /\ UNCHANGED <<finished, reported, daemon>>
      /\ child' = [child EXCEPT ![a] = None] /\ tries' = [tries EXCEPT ![a] = 0]
  BY DEF ToolTimeout, Hangup, Redial
<1>2. c \in Agents /\ kind[c] = "foreground" /\ parent[c] = a /\ Alive(c)
  BY <1>1 DEF IInv, Waits, Alive
<1>3. /\ s \subseteq Agents /\ c \in s
      /\ \A b \in s : Alive(b)
      /\ \A b \in s \ {c} : kind[b] = "foreground" /\ parent[b] \in s
      /\ \A b \in Agents : kind[b] = "foreground" /\ Alive(b) /\ parent[b] \in s => b \in s
  BY <1>2, ChainIsWhole
<1> HIDE DEF s, next
<1>4. a \notin s
  <2> SUFFICES ASSUME a \in s PROVE FALSE
    OBVIOUS
  <2>1. \A b \in s : parent[b] # None
    BY <1>2, <1>3 DEF IInv, Family
  <2>2. parent[a] \in s
    BY <1>2, <1>3
  <2>3. tools[a] = {}
    BY <2>1, <2>2 DEF IInv, Family
  <2> QED
    BY <1>1, <2>3 DEF IInv, Calls
<1>5. Whole(s, top)
  BY <1>2, <1>3 DEF Whole
<1>6. next \in [Agents -> Places] /\ \A b \in Agents : next[b] = IF b \in s THEN "over" ELSE pc[b]
  BY DEF next, IInv, TypeOK, Places
<1>7. /\ pc' \in [Agents -> Places] /\ status' \in [Agents -> Statuses]
      /\ step' \in [Agents -> 0..MaxSteps] /\ pc'[a] \in {"thinking", "ending"}
      /\ \A b \in Agents \ {a} :
            pc'[b] = next[b] /\ status'[b] = Marked(s)[b] /\ step'[b] = step[b]
  BY <1>1, <1>6, GoOnStep, MarkedTypes DEF IInv
<1>8. /\ child' \in [Agents -> 0..MaxAgents] /\ tries' \in [Agents -> 0..(MaxRetries + 1)]
      /\ child'[a] = None /\ tries'[a] = 0
      /\ \A b \in Agents \ {a} : child'[b] = child[b] /\ tries'[b] = tries[b]
  <2>1. 0 \in 0..(MaxRetries + 1)
    BY Bounds
  <2> QED
    BY <1>1, <2>1, HungUp DEF IInv, TypeOK
<1>9. TypeOK'
  <2>1. ended' \in [Agents -> {"no", "returned", "raised", "cancelled"}]
    BY <1>1 DEF IInv, TypeOK
  <2> QED
    BY <1>1, <1>7, <1>8, <2>1 DEF IInv, TypeOK, Places, Statuses, tree
<1>10. Family' /\ Waits' /\ Calls' /\ ForegroundNested'
  <2>1. \A b \in Agents \ (s \cup top) : child'[b] = child[b] /\ pc'[b] = pc[b]
    BY <1>6, <1>7, <1>8
  <2>2. \A b \in top : child'[b] = None /\ (child[b] = None \/ child[b] \in s)
    BY <1>3, <1>8
  <2>3. \A b \in s : pc'[b] = "over"
    BY <1>3, <1>4, <1>6, <1>7
  <2>4. \A b \in Agents :
           /\ pc'[b] = "unborn" <=> pc[b] = "unborn"
           /\ pc[b] = "unborn" => child'[b] = None /\ tries'[b] = 0
           /\ pc'[b] = "calling" => pc[b] = "calling"
           /\ pc'[b] \in {"opening", "thinking"} => tries'[b] = 0
           /\ pc'[b] = "calling" /\ child'[b] = None => tries'[b] <= MaxRetries
    <3> SUFFICES ASSUME NEW b \in Agents
                 PROVE  /\ pc'[b] = "unborn" <=> pc[b] = "unborn"
                        /\ pc[b] = "unborn" => child'[b] = None /\ tries'[b] = 0
                        /\ pc'[b] = "calling" => pc[b] = "calling"
                        /\ pc'[b] \in {"opening", "thinking"} => tries'[b] = 0
                        /\ pc'[b] = "calling" /\ child'[b] = None => tries'[b] <= MaxRetries
      OBVIOUS
    <3>1. CASE b \in s
      BY <1>3, <2>3, <3>1 DEF Alive
    <3>2. CASE b = a
      BY <1>1, <1>7, <1>8, <3>2
    <3>3. CASE b \notin s \cup {a}
      BY <1>8, <2>1, <3>3 DEF IInv, Family, Calls
    <3> QED
      BY <3>1, <3>2, <3>3
  <2>5. \A b \in s : pc'[b] \notin {"unborn", "over"}
                        => kind[b] # "foreground" /\ child'[b] = None
    BY <2>3
  <2>6. \A b \in Agents \ s : pc'[b] \in {"unborn", "over"} <=> ~Alive(b)
    BY <1>1, <1>7, <2>1 DEF Alive
  <2>7. /\ \A b \in Agents \ s : Alive(b) =>
              \/ /\ child'[b] = child[b] /\ child[b] \notin s
                 /\ pc[b] = "calling" => pc'[b] = "calling"
              \/ /\ child'[b] = None
                 /\ child[b] = None \/ child[b] \in s
        /\ \A b \in Agents \ s : kind[b] = "foreground" /\ Alive(b) => parent[b] \notin s
    BY <1>5, <2>1, <2>2, Bystanders
  <2>8. s \in SUBSET Agents
    BY <1>3
  <2> QED
    BY <1>1, <1>9, <2>4, <2>5, <2>6, <2>7, <2>8, Departure
<1>11. Ends' /\ Quiet
  <2>1. \A b \in Agents : pc[b] \in {"published", "over"} /\ kind[b] # "run"
                           => Marked(s)[b] = status[b]
    BY MarkedTypes DEF IInv
  <2> QED
    BY <1>1, <1>6, <1>7, <2>1, Silence DEF tree
<1> QED
  BY <1>9, <1>10, <1>11 DEF IInv

(***************************************************************************)
(* Births.                                                                 *)
(***************************************************************************)

\* The run id of a new agent is nobody's parent and nobody's child.
LEMMA NewbornIsFresh ==
  ASSUME IInv, born + 1 \in Agents
  PROVE  /\ pc[born + 1] = "unborn" /\ kind[born + 1] = "none"
         /\ \A a \in Agents : parent[a] # born + 1
         /\ \A a \in Agents : Alive(a) => child[a] # born + 1
<1>1. born \in Nat
  BY Bounds DEF IInv, TypeOK
<1>2. pc[born + 1] = "unborn" /\ kind[born + 1] = "none"
  BY <1>1 DEF IInv, Family
<1>3. \A a \in Agents : parent[a] # born + 1
  BY <1>1 DEF IInv, Family
<1>4. ASSUME NEW a \in Agents, Alive(a), child[a] = born + 1 PROVE FALSE
  <2>1. child[a] # None
    BY <1>1, <1>4 DEF None
  <2> QED
    BY <1>2, <1>4, <2>1 DEF IInv, Waits, Alive
<1> QED
  BY <1>2, <1>3, <1>4

LEMMA BirthStep ==
  ASSUME IInv, TypeOK', NEW k \in {"run", "foreground", "background"}, NEW p \in 0..MaxAgents,
         NEW r, NEW profile, Bear(k, p, r, profile),
         k = "run" <=> p = None,
         r = None \/ r \in Agents,
         p # None => Alive(p) /\ "spawn_agent" \in tools[p] /\ child[p] = None,
         pc'[born + 1] = "opening" \/ (pc'[born + 1] = "over" /\ k = "background"),
         \A a \in Agents \ {born + 1, p} :
            pc'[a] = pc[a] /\ child'[a] = child[a] /\ tries'[a] = tries[a],
         child'[born + 1] = child[born + 1], tries'[born + 1] = tries[born + 1],
         k = "foreground" => pc'[p] = "calling" /\ child'[p] = born + 1,
         k = "background" => /\ child'[p] = None
                             /\ \/ pc'[p] \in {"thinking", "ending"} /\ tries'[p] = 0
                                \/ pc'[p] = "calling" /\ tries'[p] <= MaxRetries
  PROVE  Family' /\ Waits' /\ Calls' /\ ForegroundNested'
<1> DEFINE n == born + 1
<1>1. /\ n \in Agents /\ born' = n
      /\ kind' = [kind EXCEPT ![n] = k] /\ parent' = [parent EXCEPT ![n] = p]
      /\ runner' = [runner EXCEPT ![n] = IF r = None THEN n ELSE r]
      /\ tools' = [tools EXCEPT ![n] = Offered(IF p = None THEN 0 ELSE Level(p) + 1, profile)]
  BY DEF Bear
<1>2. /\ pc[n] = "unborn" /\ kind[n] = "none"
      /\ \A a \in Agents : parent[a] # n
      /\ \A a \in Agents : Alive(a) => child[a] # n
  BY <1>1, NewbornIsFresh
<1>3. /\ kind'[n] = k /\ parent'[n] = p /\ runner'[n] \in Agents
      /\ tools'[n] = Offered(IF p = None THEN 0 ELSE Level(p) + 1, profile)
      /\ \A a \in Agents \ {n} : /\ kind'[a] = kind[a] /\ parent'[a] = parent[a]
                                 /\ runner'[a] = runner[a] /\ tools'[a] = tools[a]
  BY <1>1 DEF IInv, TypeOK
<1>4. born \in Nat /\ n \in Nat /\ n = born + 1 /\ n # 0
  BY Bounds DEF IInv, TypeOK
<1>5. p # None => p \in Agents /\ p # n /\ p <= born
  <2> SUFFICES ASSUME p # None PROVE p \in Agents /\ p # n /\ p <= born
    OBVIOUS
  <2>1. p \in Agents
    BY Bounds DEF Agents, None
  <2>2. ~ (p > born)
    BY <2>1 DEF IInv, Family, Alive
  <2>3. p \in Nat
    BY <2>1, Bounds DEF Agents
  <2> QED
    BY <1>4, <2>1, <2>2, <2>3
<1>6. child[n] = None /\ tries[n] = 0
  BY <1>1, <1>2 DEF IInv, Family
<1> HIDE DEF n
<1>7. \A a \in Agents \ {n} : pc'[a] \in {"unborn", "over"} <=> ~Alive(a)
  <2>1. CASE p = None
    BY <2>1 DEF Alive, Agents, None, n
  <2>2. CASE p # None
    BY <1>5, <2>2 DEF Alive, n
  <2> QED
    BY <2>1, <2>2
<1>8. Family'
  <2> SUFFICES ASSUME NEW a \in Agents
               PROVE  /\ pc'[a] = "unborn" <=> a > n
                      /\ pc'[a] = "unborn" => child'[a] = None /\ tries'[a] = 0
                      /\ kind'[a] = "none" <=> pc'[a] = "unborn"
                      /\ parent'[a] \in 0..n
                      /\ kind'[a] \in {"foreground", "background"} <=> parent'[a] # None
                      /\ pc'[a] # "unborn" => runner'[a] \in Agents
                      /\ parent'[a] # None /\ parent'[parent'[a]] # None => tools'[a] = {}
    BY <1>1 DEF Family
  <2>1. CASE a = n
    <3>1. p \in 0..n
      BY <1>4, <1>5 DEF None
    <3>2. ASSUME p # None, parent'[p] # None PROVE tools'[n] = {}
      <4>1. parent[p] # None
        BY <1>3, <1>5, <3>2
      <4>2. Level(p) \in {1, 2}
        BY <4>1 DEF Level
      <4> QED
        BY <1>3, <3>2, <4>2 DEF Offered
    <3>3. pc'[n] \in {"opening", "over"} /\ ~ (n > n)
      BY <1>4 DEF n
    <3> QED
      BY <1>3, <2>1, <3>1, <3>2, <3>3
  <2>2. CASE a # n
    <3>1. /\ pc[a] = "unborn" <=> a > born
          /\ pc[a] = "unborn" => child[a] = None /\ tries[a] = 0
          /\ kind[a] = "none" <=> pc[a] = "unborn"
          /\ parent[a] \in 0..born
          /\ kind[a] \in {"foreground", "background"} <=> parent[a] # None
          /\ pc[a] # "unborn" => runner[a] \in Agents
          /\ parent[a] # None /\ parent[parent[a]] # None => tools[a] = {}
      BY DEF IInv, Family
    <3>2. a \in Nat /\ (a > born <=> a > n)
      BY <1>4, <2>2, Bounds DEF Agents
    <3>3. /\ pc'[a] = "unborn" <=> pc[a] = "unborn"
          /\ pc[a] = "unborn" => child'[a] = child[a] /\ tries'[a] = tries[a]
      <4>1. CASE a = p
        <5>1. p # None
          BY <4>1 DEF Agents, None
        <5> QED
          BY <4>1, <5>1 DEF Alive
      <4>2. CASE a # p
        BY <2>2, <4>2 DEF n
      <4> QED
        BY <4>1, <4>2
    <3>4. parent'[a] = parent[a] /\ parent[a] \in 0..n
      BY <1>3, <1>4, <2>2, <3>1
    <3>5. parent[a] # None => parent'[parent[a]] = parent[parent[a]]
      <4>1. parent[a] # None => parent[a] \in Agents
        <5>1. parent[a] \in 0..MaxAgents
          BY DEF IInv, TypeOK
        <5> QED
          BY <5>1, Bounds DEF Agents, None
      <4> QED
        BY <1>2, <1>3, <4>1
    <3> QED
      BY <1>3, <2>2, <3>1, <3>2, <3>3, <3>4, <3>5
  <2> QED
    BY <2>1, <2>2
<1>9. Waits'
  <2> SUFFICES ASSUME NEW a \in Agents, child'[a] # None, pc'[a] \notin {"unborn", "over"}
               PROVE  /\ pc'[a] = "calling"
                      /\ child'[a] \in Agents
                      /\ kind'[child'[a]] = "foreground"
                      /\ parent'[child'[a]] = a
                      /\ pc'[child'[a]] \notin {"unborn", "over"}
    BY DEF Waits, Alive
  <2>1. a # n
    BY <1>6 DEF n
  <2>2. CASE a = p
    <3>1. p # None
      BY <2>2 DEF Agents, None
    <3>2. k = "foreground"
      BY <2>2, <3>1
    <3> QED
      BY <1>1, <1>3, <2>2, <3>2 DEF n
  <2>3. CASE a # p
    <3>1. pc'[a] = pc[a] /\ child'[a] = child[a] /\ Alive(a)
      BY <1>7, <2>1, <2>3 DEF n
    <3>2. /\ pc[a] = "calling" /\ child[a] \in Agents /\ kind[child[a]] = "foreground"
          /\ parent[child[a]] = a /\ Alive(child[a]) /\ child[a] # n
      BY <1>2, <3>1 DEF IInv, Waits
    <3> QED
      BY <1>3, <1>7, <3>1, <3>2
  <2> QED
    BY <2>2, <2>3
<1>10. Calls'
  <2> SUFFICES ASSUME NEW a \in Agents
               PROVE  /\ pc'[a] = "calling" => "spawn_agent" \in tools'[a]
                      /\ pc'[a] \in {"opening", "thinking"} => tries'[a] = 0
                      /\ pc'[a] = "calling" /\ child'[a] = None => tries'[a] <= MaxRetries
    BY DEF Calls
  <2>1. CASE a = n
    BY <1>6, <2>1 DEF n
  <2>2. CASE a = p /\ a # n
    <3>1. p # None
      BY <2>2 DEF Agents, None
    <3>2. tools'[p] = tools[p]
      BY <1>3, <1>5, <3>1
    <3>3. k = "foreground" => child'[p] # None
      BY <1>4 DEF None, n
    <3> QED
      BY <2>2, <3>1, <3>2, <3>3
  <2>3. CASE a # p /\ a # n
    BY <1>3, <2>3 DEF IInv, Calls, n
  <2> QED
    BY <2>1, <2>2, <2>3
<1>11. ForegroundNested'
  <2> SUFFICES ASSUME NEW b \in Agents, kind'[b] = "foreground",
                      pc'[b] \notin {"unborn", "over"}
               PROVE  pc'[parent'[b]] = "calling" /\ child'[parent'[b]] = b
    BY DEF ForegroundNested, Alive
  <2>1. CASE b = n
    BY <1>3, <2>1 DEF n
  <2>2. CASE b # n
    <3>1. kind[b] = "foreground" /\ parent'[b] = parent[b] /\ Alive(b)
      BY <1>3, <1>7, <2>2
    <3>2. pc[parent[b]] = "calling" /\ child[parent[b]] = b /\ parent[b] # n
      BY <1>2, <3>1 DEF IInv, ForegroundNested
    <3>3. parent[b] # None /\ parent[b] \in Agents
      <4>1. parent[b] # None /\ parent[b] \in 0..MaxAgents
        BY <3>1 DEF IInv, Family, TypeOK
      <4> QED
        BY <4>1, Bounds DEF Agents, None
    <3>4. parent[b] # p
      BY <3>2, <3>3 DEF Agents, None
    <3> QED
      BY <3>1, <3>2, <3>3, <3>4 DEF n
  <2> QED
    BY <2>1, <2>2
<1> QED
  BY <1>8, <1>9, <1>10, <1>11

\* What Bear gives is of its type.
LEMMA BearTypes ==
  ASSUME TypeOK, NEW k \in {"run", "foreground", "background"}, NEW p \in 0..MaxAgents,
         NEW r \in 0..MaxAgents, NEW profile, profile \subseteq SubagentTools,
         Bear(k, p, r, profile)
  PROVE  /\ born + 1 \in Agents /\ born' = born + 1 /\ born' \in 0..MaxAgents
         /\ kind' \in [Agents -> {"none", "run", "foreground", "background"}]
         /\ parent' \in [Agents -> 0..MaxAgents]
         /\ runner' \in [Agents -> 0..MaxAgents]
         /\ tools' \in [Agents -> SUBSET SubagentTools]
<1>1. born + 1 \in Agents /\ born' = born + 1
  BY DEF Bear
<1>2. born + 1 \in 0..MaxAgents
  BY <1>1, Bounds DEF Agents
<1>3. kind' \in [Agents -> {"none", "run", "foreground", "background"}]
  BY DEF Bear, TypeOK
<1>4. parent' \in [Agents -> 0..MaxAgents]
  BY DEF Bear, TypeOK
<1>5. runner' \in [Agents -> 0..MaxAgents]
  BY <1>2 DEF Bear, TypeOK
<1>6. tools' \in [Agents -> SUBSET SubagentTools]
  <2>1. \A l : Offered(l, profile) \in SUBSET SubagentTools
    BY DEF Offered
  <2> QED
    BY <2>1 DEF Bear, TypeOK
<1> QED
  BY <1>1, <1>2, <1>3, <1>4, <1>5, <1>6

\* Nobody who is over takes part in a birth.
LEMMA NewbornEnds ==
  ASSUME IInv, NEW k \in {"run", "foreground", "background"}, NEW p, NEW r, NEW profile,
         Bear(k, p, r, profile), p \in Agents => pc[p] \in {"thinking", "calling"},
         \A a \in Agents \ {born + 1, p} :
            pc'[a] = pc[a] /\ step'[a] = step[a] /\ status'[a] = status[a],
         oneShot' \subseteq (IF k = "run" THEN oneShot \cup {born + 1} ELSE oneShot),
         UNCHANGED <<finished, reported>>
  PROVE  Ends' /\ Quiet
<1>1. /\ born + 1 \in Agents /\ pc[born + 1] = "unborn"
  BY NewbornIsFresh DEF Bear
<1>2. \A a \in Agents \ {born + 1} : kind'[a] = kind[a]
  BY DEF Bear, IInv, TypeOK
<1>3. \A a \in finished \cup reported :
         /\ a \in Agents /\ pc[a] \in {"published", "over"} /\ a \notin {born + 1, p}
         /\ pc'[a] = pc[a] /\ kind'[a] = kind[a]
         /\ step'[a] = step[a] /\ status'[a] = status[a]
  BY <1>1, <1>2 DEF IInv, TypeOK, Ends
<1>4. \A a \in oneShot' : kind'[a] = "run"
  <2>1. kind'[born + 1] = k
    BY <1>1 DEF Bear, IInv, TypeOK
  <2>2. \A a \in oneShot : a \in Agents /\ a # born + 1 /\ kind[a] = "run"
    BY <1>1, NewbornIsFresh DEF Bear, IInv, TypeOK, Ends
  <2> QED
    BY <1>2, <2>1, <2>2
<1> QED
  BY <1>3, <1>4 DEF IInv, Ends, Quiet

LEMMA StartRunStep == ASSUME IInv, StartRun PROVE IInv' /\ Quiet
<1> DEFINE n == born + 1
<1>1. /\ Bear("run", None, None, SubagentTools) /\ pc' = [pc EXCEPT ![n] = "opening"]
      /\ oneShot' \subseteq oneShot \cup {n}
      /\ UNCHANGED <<registry, call, status, step, ended, finished, reported, daemon>>
  BY DEF StartRun
<1>2. None \in 0..MaxAgents
  BY Bounds DEF None
<1>3. /\ n \in Agents /\ born' = n /\ born' \in 0..MaxAgents
      /\ kind' \in [Agents -> {"none", "run", "foreground", "background"}]
      /\ parent' \in [Agents -> 0..MaxAgents]
      /\ runner' \in [Agents -> 0..MaxAgents]
      /\ tools' \in [Agents -> SUBSET SubagentTools]
  BY <1>1, <1>2, BearTypes DEF IInv
<1>4. TypeOK'
  BY <1>1, <1>3 DEF IInv, TypeOK, call
<1>5. pc'[n] = "opening" /\ \A a \in Agents \ {n} : pc'[a] = pc[a]
  BY <1>1, <1>3 DEF IInv, TypeOK
<1>6. Family' /\ Waits' /\ Calls' /\ ForegroundNested'
  BY <1>1, <1>2, <1>4, <1>5, BirthStep DEF call
<1>7. Ends' /\ Quiet
  <2>1. None \notin Agents
    BY DEF Agents, None
  <2> QED
    BY <1>1, <1>3, <1>5, <2>1, NewbornEnds
<1> QED
  BY <1>4, <1>6, <1>7 DEF IInv

LEMMA SpawnForegroundStep ==
  ASSUME IInv, NEW a \in Agents, NEW profile \in Profiles, SpawnForeground(a, profile)
  PROVE  IInv' /\ Quiet
<1> DEFINE n == born + 1
<1>1. /\ Bear("foreground", a, runner[a], profile)
      /\ pc' = [pc EXCEPT ![a] = "calling", ![n] = "opening"]
      /\ child' = [child EXCEPT ![a] = n]
      /\ tries' = [tries EXCEPT ![a] = @ + 1]
      /\ UNCHANGED <<oneShot, registry, status, step, ended, finished, reported, daemon>>
  BY DEF SpawnForeground
<1>2. /\ Alive(a) /\ child[a] = None /\ "spawn_agent" \in tools[a] /\ tries[a] <= MaxRetries
      /\ pc[a] \in {"thinking", "calling"}
  <2>1. CASE pc[a] = "thinking" /\ "spawn_agent" \in tools[a]
    BY <2>1, Bounds DEF IInv, Waits, Calls, Alive
  <2>2. CASE pc[a] = "calling" /\ child[a] = None
    BY <2>2 DEF IInv, Calls, Alive
  <2> QED
    BY <2>1, <2>2 DEF SpawnForeground, Attempts
<1>3. a \in 0..MaxAgents /\ runner[a] \in 0..MaxAgents /\ runner[a] \in Agents
  BY <1>2, Bounds DEF IInv, TypeOK, Family, Agents, Alive
<1>4. /\ n \in Agents /\ born' = n /\ born' \in 0..MaxAgents
      /\ kind' \in [Agents -> {"none", "run", "foreground", "background"}]
      /\ parent' \in [Agents -> 0..MaxAgents]
      /\ runner' \in [Agents -> 0..MaxAgents]
      /\ tools' \in [Agents -> SUBSET SubagentTools]
  BY <1>1, <1>3, BearTypes, ProfileTypes DEF IInv
<1>5. a # n
  BY <1>2, <1>4, NewbornIsFresh DEF Alive
<1>6. pc'[n] = "opening" /\ pc'[a] = "calling" /\ \A b \in Agents \ {n, a} : pc'[b] = pc[b]
  BY <1>1, <1>4, <1>5 DEF IInv, TypeOK
<1>7. /\ child'[a] = n /\ \A b \in Agents \ {a} : child'[b] = child[b] /\ tries'[b] = tries[b]
  BY <1>1 DEF IInv, TypeOK
<1>8. TypeOK'
  <2>1. pc' \in [Agents -> Places]
    BY <1>1 DEF IInv, TypeOK, Places
  <2>2. child' \in [Agents -> 0..MaxAgents]
    BY <1>1, <1>4 DEF IInv, TypeOK
  <2>3. tries[a] + 1 \in 0..(MaxRetries + 1)
    BY <1>2, Bounds DEF IInv, TypeOK
  <2>4. tries' \in [Agents -> 0..(MaxRetries + 1)]
    BY <1>1, <2>3 DEF IInv, TypeOK
  <2> QED
    BY <1>1, <1>4, <2>1, <2>2, <2>4 DEF IInv, TypeOK, Places
<1>9. Family' /\ Waits' /\ Calls' /\ ForegroundNested'
  <2>1. a # None
    BY DEF Agents, None
  <2> HIDE DEF n
  <2>2. child'[n] = child[n] /\ tries'[n] = tries[n]
    BY <1>4, <1>5, <1>7
  <2> QED
    BY <1>1, <1>2, <1>3, <1>6, <1>7, <1>8, <2>1, <2>2, BirthStep DEF n
<1>10. Ends' /\ Quiet
  BY <1>1, <1>2, <1>4, <1>6, NewbornEnds
<1> QED
  BY <1>8, <1>9, <1>10 DEF IInv

\* What both ends of an attempt in the background have in common: a newborn that
\* comes to stand at place, and a caller that goes on or tries again.
LEMMA BackgroundStep ==
  ASSUME IInv, NEW a \in Agents, NEW profile \in Profiles, NEW place \in {"opening", "over"},
         Attempts(a, "background"), Bear("background", a, runner[a], profile),
         registry' \in [Agents -> SUBSET Agents],
         ended' \in [Agents -> {"no", "returned", "raised", "cancelled"}],
         UNCHANGED <<oneShot, child, finished, reported, daemon>>,
         LET next == [pc EXCEPT ![born + 1] = place]
         IN \/ Continue(a, next) /\ tries' = [tries EXCEPT ![a] = 0]
            \/ /\ tries[a] < MaxRetries
               /\ pc' = [next EXCEPT ![a] = "calling"] /\ UNCHANGED <<status, step>>
               /\ tries' = [tries EXCEPT ![a] = @ + 1]
  PROVE  IInv' /\ Quiet
<1> DEFINE n == born + 1
           next == [pc EXCEPT ![n] = place]
<1>1. /\ Alive(a) /\ child[a] = None /\ "spawn_agent" \in tools[a]
      /\ pc[a] \in {"thinking", "calling"}
  <2>1. CASE pc[a] = "thinking" /\ "spawn_agent" \in tools[a]
    BY <2>1 DEF IInv, Waits, Alive
  <2>2. CASE pc[a] = "calling" /\ child[a] = None
    BY <2>2 DEF IInv, Calls, Alive
  <2> QED
    BY <2>1, <2>2 DEF Attempts
<1>2. a \in 0..MaxAgents /\ runner[a] \in 0..MaxAgents /\ runner[a] \in Agents
  BY <1>1, Bounds DEF IInv, TypeOK, Family, Agents, Alive
<1>3. /\ n \in Agents /\ born' = n /\ born' \in 0..MaxAgents
      /\ kind' \in [Agents -> {"none", "run", "foreground", "background"}]
      /\ parent' \in [Agents -> 0..MaxAgents]
      /\ runner' \in [Agents -> 0..MaxAgents]
      /\ tools' \in [Agents -> SUBSET SubagentTools]
  BY <1>2, BearTypes, ProfileTypes DEF IInv
<1>4. a # n
  BY <1>1, <1>3, NewbornIsFresh DEF Alive
<1>5. /\ next \in [Agents -> Places] /\ next[n] = place
      /\ \A b \in Agents \ {n} : next[b] = pc[b]
  BY <1>3 DEF IInv, TypeOK, Places
<1> HIDE DEF next
<1>6. /\ pc' \in [Agents -> Places] /\ status' \in [Agents -> Statuses]
      /\ step' \in [Agents -> 0..MaxSteps]
      /\ tries' \in [Agents -> 0..(MaxRetries + 1)]
      /\ \/ pc'[a] \in {"thinking", "ending"} /\ tries'[a] = 0
         \/ pc'[a] = "calling" /\ tries'[a] <= MaxRetries
      /\ \A b \in Agents \ {a} :
            /\ pc'[b] = next[b] /\ status'[b] = status[b] /\ step'[b] = step[b]
            /\ tries'[b] = tries[b]
  <2>1. CASE Continue(a, next) /\ tries' = [tries EXCEPT ![a] = 0]
    <3>1. tries' \in [Agents -> 0..(MaxRetries + 1)] /\ tries'[a] = 0
          /\ \A b \in Agents \ {a} : tries'[b] = tries[b]
      BY <2>1, Bounds DEF IInv, TypeOK
    <3> QED
      BY <1>1, <1>5, <2>1, <3>1, ContinueStep DEF IInv
  <2>2. CASE /\ tries[a] < MaxRetries
             /\ pc' = [next EXCEPT ![a] = "calling"] /\ UNCHANGED <<status, step>>
             /\ tries' = [tries EXCEPT ![a] = @ + 1]
    <3>1. tries[a] + 1 \in 0..(MaxRetries + 1) /\ tries[a] + 1 <= MaxRetries
      BY <2>2, Bounds DEF IInv, TypeOK
    <3>2. tries' \in [Agents -> 0..(MaxRetries + 1)] /\ tries'[a] = tries[a] + 1
          /\ \A b \in Agents \ {a} : tries'[b] = tries[b]
      BY <2>2, <3>1 DEF IInv, TypeOK
    <3>3. /\ pc' \in [Agents -> Places] /\ pc'[a] = "calling"
          /\ \A b \in Agents \ {a} : pc'[b] = next[b]
      BY <1>5, <2>2 DEF Places
    <3> QED
      BY <2>2, <3>1, <3>2, <3>3 DEF IInv, TypeOK, Statuses
  <2> QED
    BY <2>1, <2>2 DEF next
<1>7. pc'[n] = place /\ \A b \in Agents \ {n, a} : pc'[b] = pc[b]
  BY <1>3, <1>4, <1>5, <1>6
<1>8. TypeOK'
  BY <1>3, <1>6 DEF IInv, TypeOK, Places, Statuses
<1>9. Family' /\ Waits' /\ Calls' /\ ForegroundNested'
  <2>1. a # None
    BY DEF Agents, None
  <2>2. /\ child'[n] = child[n] /\ tries'[n] = tries[n]
        /\ \A b \in Agents \ {n, a} : child'[b] = child[b] /\ tries'[b] = tries[b]
    BY <1>3, <1>4, <1>6
  <2> QED
    BY <1>1, <1>2, <1>6, <1>7, <1>8, <2>1, <2>2, BirthStep
<1>10. Ends' /\ Quiet
  BY <1>1, <1>3, <1>6, <1>7, NewbornEnds
<1> QED
  BY <1>8, <1>9, <1>10 DEF IInv

LEMMA SpawnBackgroundStep ==
  ASSUME IInv, NEW a \in Agents, NEW profile \in Profiles, SpawnBackground(a, profile)
  PROVE  IInv' /\ Quiet
<1>1. /\ Attempts(a, "background") /\ Bear("background", a, runner[a], profile)
      /\ registry' = [registry EXCEPT ![runner[a]] = @ \cup {born + 1}]
      /\ Continue(a, [pc EXCEPT ![born + 1] = "opening"])
      /\ tries' = [tries EXCEPT ![a] = 0]
      /\ UNCHANGED <<oneShot, child, ended, finished, reported, daemon>>
  BY DEF SpawnBackground, Register, Redial
<1>2. registry' \in [Agents -> SUBSET Agents]
  BY <1>1 DEF Bear, IInv, TypeOK
<1>3. ended' \in [Agents -> {"no", "returned", "raised", "cancelled"}]
  BY <1>1 DEF IInv, TypeOK
<1> QED
  BY <1>1, <1>2, <1>3, BackgroundStep

LEMMA SpawnFailsStep ==
  ASSUME IInv, NEW a \in Agents, NEW profile \in Profiles, SpawnFails(a, profile)
  PROVE  IInv' /\ Quiet
<1> DEFINE next == [pc EXCEPT ![born + 1] = "over"]
<1>1. /\ Attempts(a, "background") /\ Bear("background", a, runner[a], profile)
      /\ ended' = [ended EXCEPT ![born + 1] = "raised"]
      /\ \/ Continue(a, next) /\ tries' = [tries EXCEPT ![a] = 0]
         \/ /\ tries[a] < MaxRetries
            /\ pc' = [next EXCEPT ![a] = "calling"] /\ UNCHANGED <<status, step>>
            /\ tries' = [tries EXCEPT ![a] = @ + 1]
      /\ UNCHANGED <<oneShot, registry, child, finished, reported, daemon>>
  BY DEF SpawnFails, Redial
<1>2. /\ registry' \in [Agents -> SUBSET Agents]
      /\ ended' \in [Agents -> {"no", "returned", "raised", "cancelled"}]
  BY <1>1 DEF IInv, TypeOK
<1> QED
  BY <1>1, <1>2, BackgroundStep

(***************************************************************************)
(* The specification.                                                      *)
(***************************************************************************)

LEMMA InitInv == Init => IInv
<1> SUFFICES ASSUME Init PROVE IInv
  OBVIOUS
<1>1. TypeOK
  BY Bounds DEF Init, TypeOK, None
<1>2. Family
  <2>1. \A a \in Agents : a > born
    BY Bounds DEF Init, Agents
  <2> QED
    BY <2>1, Bounds DEF Init, Family, None
<1>3. Waits /\ Calls /\ ForegroundNested /\ Ends
  BY DEF Init, Waits, Calls, ForegroundNested, Ends, None
<1> QED
  BY <1>1, <1>2, <1>3 DEF IInv

\* Every step keeps the invariant and the peace of those who are over.
LEMMA NextInv == IInv /\ [Next]_vars => IInv' /\ (Quiet \/ UNCHANGED vars)
<1> SUFFICES ASSUME IInv, [Next]_vars PROVE IInv' /\ (Quiet \/ UNCHANGED vars)
  OBVIOUS
<1>1. CASE StartRun
  BY <1>1, StartRunStep
<1>2. ASSUME NEW a \in Agents, AgentStep(a) PROVE IInv' /\ Quiet
  <2>1. CASE Open(a)
    BY <2>1, OpenStep
  <2>2. CASE OpenFails(a)
    BY <2>2, OpenFailsStep
  <2>3. CASE LoopEnds(a, "success") \/ LoopEnds(a, "failed")
    BY <2>3, LoopEndsStep
  <2>4. CASE UseTool(a)
    BY <2>4, UseToolStep
  <2>5. CASE OutOfIds(a)
    BY <2>5, OutOfIdsStep
  <2>6. CASE \E p \in Profiles : SpawnForeground(a, p) \/ SpawnBackground(a, p) \/ SpawnFails(a, p)
    BY <2>6, SpawnForegroundStep, SpawnBackgroundStep, SpawnFailsStep
  <2>7. CASE \E b \in Agents : Query(a, b)
    BY <2>7, QueryStep
  <2>8. CASE PublishFinished(a)
    BY <2>8, PublishFinishedStep
  <2>9. CASE Return(a)
    BY <2>9, ReturnStep
  <2>10. CASE ToolTimeout(a)
    BY <2>10, ToolTimeoutStep
  <2> QED
    BY <1>2, <2>1, <2>2, <2>3, <2>4, <2>5, <2>6, <2>7, <2>8, <2>9, <2>10 DEF AgentStep
<1>3. ASSUME NEW a \in Agents, CancelRun(a) PROVE IInv' /\ Quiet
  BY <1>3, CancelRunStep
<1>4. CASE Shutdown
  BY <1>4, ShutdownStep
<1>5. CASE Exit
  BY <1>5, ExitStep
<1>6. CASE UNCHANGED vars
  BY <1>6 DEF vars, tree, call, IInv, TypeOK, Family, Waits, Calls, ForegroundNested, Ends,
              Alive
<1> QED
  BY <1>1, <1>2, <1>3, <1>4, <1>5, <1>6 DEF Next

LEMMA SpecInv == Spec => []IInv
<1>1. IInv /\ [Next]_vars => IInv'
  BY NextInv
<1> QED
  BY <1>1, InitInv, PTL DEF Spec

\* Every variable keeps to its values, the attempts of a call and the steps of
\* an agent to their bounds.
THEOREM TypeCorrect == Spec => []TypeOK
<1>1. IInv => TypeOK
  BY DEF IInv
<1> QED
  BY <1>1, SpecInv, PTL

\* A foreground agent at work has a parent that waits for exactly it: no
\* timeout, cancel, failure or shutdown leaves one behind, no retry starts a
\* second one beside it (SpawnAgentTool.invoke, invoke_tool).
THEOREM ForegroundNestedHolds == Spec => []ForegroundNested
<1>1. IInv => ForegroundNested
  BY DEF IInv
<1> QED
  BY <1>1, SpecInv, PTL

\* Nothing is heard of a subagent behind subagent.finished, nor behind the
\* agent_result that reported it as over.
THEOREM NoNewsAfterTheEndHolds == Spec => NoNewsAfterTheEnd
<1>1. IInv /\ [Next]_vars =>
        [ \A a \in Agents :
            /\ a \in finished => step'[a] = step[a] /\ status'[a] = status[a]
            /\ a \in reported => step'[a] = step[a] /\ (a \in finished' => a \in finished) ]_vars
  BY NextInv DEF Quiet
<1> QED
  BY <1>1, SpecInv, PTL DEF Spec, NoNewsAfterTheEnd

\* A subagent two levels below a run has neither tool of this module, so a
\* run's task never holds more than three agents (_build_child_registry).
THEOREM DepthIsBounded ==
  Spec => [](\A a \in Agents : Level(a) = 2 => tools[a] = {} /\ pc[a] # "calling")
<1>1. IInv => \A a \in Agents : Level(a) = 2 => tools[a] = {} /\ pc[a] # "calling"
  <2> SUFFICES ASSUME IInv, NEW a \in Agents, Level(a) = 2
               PROVE  tools[a] = {} /\ pc[a] # "calling"
    OBVIOUS
  <2>1. parent[a] # None /\ parent[parent[a]] # None
    BY DEF Level
  <2>2. tools[a] = {}
    BY <2>1 DEF IInv, Family
  <2> QED
    BY <2>2 DEF IInv, Calls
<1> QED
  BY <1>1, SpecInv, PTL
=============================================================================
