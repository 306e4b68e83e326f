------------------------ MODULE SessionManagerProofs ------------------------
(***************************************************************************)
(* Proofs about sessions: for any number of runs, sessions and messages,   *)
(* turns do not overlap, a run answers the thread it read, and nothing     *)
(* said while a summary is written is lost.                                *)
(***************************************************************************)
EXTENDS SessionManager, SequenceTheorems, FiniteSetTheorems, TLAPS

Early == {"idle", "creating", "created", "resuming", "announcing", "expanding",
          "starting", "running"}

\* How many run.finished events a run has published, by where it stands.
FinishedInv ==
    \A r \in Runs :
        /\ pc[r] \in Early => finished[r] = 0
        /\ pc[r] \in {"finishing", "aborting", "settling"} => finished[r] = 1
        /\ pc[r] = "reporting" => finished[r] \in 1..2

\* meta.json lags behind only while a run settles, or behind one that was cut
\* off then.
MetaInv ==
    \A s \in Sessions :
        meta[s] # status[s] =>
            \/ \E r \in cutOff : sess[r] = s
            \/ \E r \in Runs : holder[s] = r /\ pc[r] = "settling"

Inv == /\ TypeOK /\ FinishedInv /\ OneTurnAtATime
       /\ PromptIsTheThread /\ SummaryIsCurrent /\ MetaInv

-----------------------------------------------------------------------------
(***************************************************************************)
(* Messages and threads.                                                   *)
(***************************************************************************)
LEMMA ItemTypes ==
  ASSUME NEW r \in Runs \cup {NoRun}
  PROVE  User(r) \in Items /\ Reply(r) \in Items /\ Dangling(r) \in Items
BY DEF User, Reply, Dangling, Items

LEMMA TailTypes ==
  ASSUME NEW r \in Runs, NEW tail \in Tails(r)
  PROVE  tail \in Seq(Items)
<1>1. \/ tail = <<>> \/ tail = <<Reply(r)>>
      \/ tail = <<Dangling(r)>> \/ tail = <<Reply(r), Dangling(r)>>
  BY DEF Tails
<1>2. Reply(r) \in Items /\ Dangling(r) \in Items
  BY ItemTypes
<1>3. <<>> \in Seq(Items) /\ <<Reply(r)>> \in Seq(Items)
  BY <1>2
<1>4. <<Dangling(r)>> \in Seq(Items) /\ <<Reply(r), Dangling(r)>> \in Seq(Items)
  BY <1>2
<1>5. QED
  BY <1>1, <1>3, <1>4

\* read_messages returns a beginning of the thread.
LEMMA ReadableType ==
  ASSUME NEW q \in Seq(Items)
  PROVE  Readable(q) \in Seq(Items)
<1> DEFINE K == {k \in 1..Len(q) : Intact(q, k)}
           n == Cardinality(K)
<1>1. IsFiniteSet(1..Len(q)) /\ Cardinality(1..Len(q)) = Len(q)
  <2> DEFINE len == Len(q)
  <2>1. len \in Nat
    OBVIOUS
  <2> HIDE DEF len
  <2>2. IsFiniteSet(1..len) /\ Cardinality(1..len) = IF 1 > len THEN 0 ELSE len - 1 + 1
    BY <2>1, FS_Interval
  <2>3. QED
    BY <2>1, <2>2 DEF len
<1>2. n \in Nat /\ n <= Len(q)
  <2> K \subseteq 1..Len(q)
    OBVIOUS
  <2> HIDE DEF K
  <2>1. QED
    BY <1>1, FS_Subset, FS_CardinalityType
<1>3. Readable(q) = SubSeq(q, 1, n)
  BY DEF Readable
<1> HIDE DEF n
<1>4. QED
  BY <1>2, <1>3

LEMMA CountType ==
  ASSUME NEW f \in [Runs -> 0..2], NEW r \in Runs, NEW v \in 0..2
  PROVE  [f EXCEPT ![r] = v] \in [Runs -> 0..2]
OBVIOUS

LEMMA SummaryType == Summary \in Seq(Items)
BY ItemTypes DEF Summary

-----------------------------------------------------------------------------
(***************************************************************************)
(* The steps of a run's task.                                              *)
(***************************************************************************)
LEMMA AgentRunStep ==
  ASSUME Inv, NEW r \in Runs, AgentRun(r)
  PROVE  Inv'
<1> USE DEF Inv
<1>1. sess[r] \in Sessions
  BY DEF TypeOK
<1>2. TypeOK'
  BY ItemTypes, TailTypes, ReadableType, SummaryType DEF TypeOK, FinishedInv,
     Early, PCs, InTurn, asked, AgentRun, CreateSession
<1>3. FinishedInv'
  BY DEF TypeOK, FinishedInv, Early, PCs, InTurn, AgentRun, CreateSession
<1>4. OneTurnAtATime'
  BY SessionAssumption DEF TypeOK, OneTurnAtATime, PCs, InTurn, asked,
     AgentRun, CreateSession
<1>5. PromptIsTheThread'
  BY DEF TypeOK, OneTurnAtATime, PromptIsTheThread, PCs, InTurn, asked,
     AgentRun, CreateSession
<1>6. SummaryIsCurrent'
  BY SessionAssumption DEF TypeOK, OneTurnAtATime, SummaryIsCurrent, InTurn,
     AgentRun, CreateSession
<1>7. MetaInv'
  BY SessionAssumption DEF TypeOK, OneTurnAtATime, MetaInv, InTurn, asked,
     AgentRun, CreateSession
<1>8. QED
  BY <1>2, <1>3, <1>4, <1>5, <1>6, <1>7

LEMMA AgentRunSpawnStep ==
  ASSUME Inv, NEW r \in Runs, AgentRunSpawn(r)
  PROVE  Inv'
<1> USE DEF Inv
<1>1. sess[r] \in Sessions
  BY DEF TypeOK
<1>2. TypeOK'
  BY ItemTypes, TailTypes, ReadableType, SummaryType DEF TypeOK, FinishedInv,
     Early, PCs, InTurn, asked, AgentRunSpawn
<1>3. FinishedInv'
  BY DEF TypeOK, FinishedInv, Early, PCs, InTurn, AgentRunSpawn
<1>4. OneTurnAtATime'
  BY SessionAssumption DEF TypeOK, OneTurnAtATime, PCs, InTurn, asked,
     AgentRunSpawn
<1>5. PromptIsTheThread'
  BY DEF TypeOK, OneTurnAtATime, PromptIsTheThread, PCs, InTurn, asked,
     AgentRunSpawn
<1>6. SummaryIsCurrent'
  BY SessionAssumption DEF TypeOK, OneTurnAtATime, SummaryIsCurrent, InTurn,
     AgentRunSpawn
<1>7. MetaInv'
  BY SessionAssumption DEF TypeOK, OneTurnAtATime, MetaInv, InTurn, asked,
     AgentRunSpawn
<1>8. QED
  BY <1>2, <1>3, <1>4, <1>5, <1>6, <1>7

LEMMA SendStep ==
  ASSUME Inv, NEW r \in Runs, Send(r)
  PROVE  Inv'
<1> USE DEF Inv
<1>1. sess[r] \in Sessions
  BY DEF TypeOK
<1>2. TypeOK'
  BY ItemTypes, TailTypes, ReadableType, SummaryType DEF TypeOK, FinishedInv,
     Early, PCs, InTurn, asked, Send
<1>3. FinishedInv'
  BY DEF TypeOK, FinishedInv, Early, PCs, InTurn, Send
<1>4. OneTurnAtATime'
  BY SessionAssumption DEF TypeOK, OneTurnAtATime, PCs, InTurn, asked, Send
<1>5. PromptIsTheThread'
  BY DEF TypeOK, OneTurnAtATime, PromptIsTheThread, PCs, InTurn, asked, Send
<1>6. SummaryIsCurrent'
  BY SessionAssumption DEF TypeOK, OneTurnAtATime, SummaryIsCurrent, InTurn,
     Send
<1>7. MetaInv'
  BY SessionAssumption DEF TypeOK, OneTurnAtATime, MetaInv, InTurn, asked, Send
<1>8. QED
  BY <1>2, <1>3, <1>4, <1>5, <1>6, <1>7

LEMMA StartRefusedStep ==
  ASSUME Inv, NEW r \in Runs, StartRefused(r)
  PROVE  Inv'
<1> USE DEF Inv
<1>1. sess[r] \in Sessions
  BY DEF TypeOK
<1>2. TypeOK'
  BY ItemTypes, TailTypes, ReadableType, SummaryType DEF TypeOK, FinishedInv,
     Early, PCs, InTurn, asked, StartRefused
<1>3. FinishedInv'
  BY DEF TypeOK, FinishedInv, Early, PCs, InTurn, StartRefused
<1>4. OneTurnAtATime'
  BY SessionAssumption DEF TypeOK, OneTurnAtATime, PCs, InTurn, asked,
     StartRefused
<1>5. PromptIsTheThread'
  BY DEF TypeOK, OneTurnAtATime, PromptIsTheThread, PCs, InTurn, asked,
     StartRefused
<1>6. SummaryIsCurrent'
  BY SessionAssumption DEF TypeOK, OneTurnAtATime, SummaryIsCurrent, InTurn,
     StartRefused
<1>7. MetaInv'
  BY SessionAssumption DEF TypeOK, OneTurnAtATime, MetaInv, InTurn, asked,
     StartRefused
<1>8. QED
  BY <1>2, <1>3, <1>4, <1>5, <1>6, <1>7

LEMMA StartStep ==
  ASSUME Inv, NEW r \in Runs, Start(r)
  PROVE  Inv'
<1> USE DEF Inv
<1>1. sess[r] \in Sessions
  BY DEF TypeOK
<1>2. TypeOK'
  <2>1. User(r) \in Items
    BY ItemTypes
  <2>2. thread' \in [Sessions -> Seq(Items)]
    <3>1. Append(thread[sess[r]], User(r)) \in Seq(Items)
      BY <1>1, <2>1 DEF TypeOK
    <3>2. thread' = thread \/ thread' = [thread EXCEPT ![sess[r]] = Append(thread[sess[r]], User(r))]
      BY DEF Start, AppendUser
    <3>3. QED
      BY <1>1, <3>1, <3>2 DEF TypeOK
  <2>3. pc' \in [Runs -> PCs]
    <3>1. \E p \in {"resuming", "announcing"} : pc' = [pc EXCEPT ![r] = p]
      BY DEF Start, AppendUser
    <3>2. QED
      BY <3>1 DEF TypeOK, PCs
  <2>4. QED
    BY <1>1, <2>2, <2>3 DEF TypeOK, Start, asked
<1>3. FinishedInv'
  BY DEF TypeOK, FinishedInv, Early, PCs, InTurn, Start, Refused, AppendUser
<1>4. OneTurnAtATime'
  BY SessionAssumption DEF TypeOK, OneTurnAtATime, PCs, InTurn, asked, Start,
     Refused, AppendUser
<1>5. PromptIsTheThread'
  <2> SUFFICES ASSUME NEW q \in Runs,
                      pc'[q] \in {"starting", "running", "finishing", "aborting"}
               PROVE  prompt'[q] = Readable(thread'[sess'[q]])
    BY DEF PromptIsTheThread
  <2>1. q # r /\ pc'[q] = pc[q]
    BY DEF TypeOK, Start, AppendUser
  <2>2. holder[sess[q]] = q /\ sess[q] # sess[r]
    BY <2>1, SessionAssumption DEF TypeOK, OneTurnAtATime, InTurn, Start,
       Refused
  <2>3. thread'[sess[q]] = thread[sess[q]]
    BY <2>2 DEF TypeOK, Start, AppendUser
  <2>4. QED
    BY <2>1, <2>3 DEF PromptIsTheThread, Start, asked
<1>6. SummaryIsCurrent'
  BY SessionAssumption DEF TypeOK, OneTurnAtATime, SummaryIsCurrent, InTurn,
     Start, Refused, AppendUser
<1>7. MetaInv'
  <2>1. pc[r] = "created" /\ holder[sess[r]] = NoRun
    BY DEF Start, Refused
  <2>2. \A q \in Runs : q # r => pc'[q] = pc[q]
    BY DEF TypeOK, Start, AppendUser
  <2>3. \A q \in Runs, s \in Sessions : holder[s] = q => holder'[s] = q /\ q # r
    BY <1>1, <2>1, SessionAssumption DEF TypeOK, OneTurnAtATime, InTurn, Start
  <2>4. QED
    BY <2>2, <2>3 DEF MetaInv, Start, asked
<1>8. QED
  BY <1>2, <1>3, <1>4, <1>5, <1>6, <1>7

LEMMA ResumedStep ==
  ASSUME Inv, NEW r \in Runs, Resumed(r)
  PROVE  Inv'
<1> USE DEF Inv
<1>1. sess[r] \in Sessions
  BY DEF TypeOK
<1>2. TypeOK'
  BY ItemTypes, TailTypes, ReadableType, SummaryType DEF TypeOK, FinishedInv,
     Early, PCs, InTurn, asked, Resumed, AppendUser
<1>3. FinishedInv'
  BY DEF TypeOK, FinishedInv, Early, PCs, InTurn, Resumed, AppendUser
<1>4. OneTurnAtATime'
  BY SessionAssumption DEF TypeOK, OneTurnAtATime, PCs, InTurn, asked,
     Resumed, AppendUser
<1>5. PromptIsTheThread'
  BY DEF TypeOK, OneTurnAtATime, PromptIsTheThread, PCs, InTurn, asked,
     Resumed, AppendUser
<1>6. SummaryIsCurrent'
  BY SessionAssumption DEF TypeOK, OneTurnAtATime, SummaryIsCurrent, InTurn,
     Resumed, AppendUser
<1>7. MetaInv'
  BY SessionAssumption DEF TypeOK, OneTurnAtATime, MetaInv, InTurn, asked,
     Resumed, AppendUser
<1>8. QED
  BY <1>2, <1>3, <1>4, <1>5, <1>6, <1>7

LEMMA AnnouncedStep ==
  ASSUME Inv, NEW r \in Runs, Announced(r)
  PROVE  Inv'
<1> USE DEF Inv
<1>1. sess[r] \in Sessions
  BY DEF TypeOK
<1>2. TypeOK'
  <2>1. Readable(thread[sess[r]]) \in Seq(Items)
    BY <1>1, ReadableType DEF TypeOK
  <2>2. prompt' \in [Runs -> Seq(Items)]
    BY <2>1 DEF TypeOK, Announced, ReadHistory
  <2>3. pc' \in [Runs -> PCs]
    <3>1. \E p \in {"starting", "expanding", "ended"} : pc' = [pc EXCEPT ![r] = p]
      BY DEF Announced, ReadHistory
    <3>2. QED
      BY <3>1 DEF TypeOK, PCs
  <2>4. QED
    BY <1>1, <2>2, <2>3 DEF TypeOK, Announced, ReadHistory, Release, asked
<1>3. FinishedInv'
  BY DEF TypeOK, FinishedInv, Early, PCs, InTurn, Announced, ReadHistory,
     Release
<1>4. OneTurnAtATime'
  BY SessionAssumption DEF TypeOK, OneTurnAtATime, PCs, InTurn, asked,
     Announced, ReadHistory, Release
<1>5. PromptIsTheThread'
  BY DEF TypeOK, OneTurnAtATime, PromptIsTheThread, PCs, InTurn, asked,
     Announced, ReadHistory, Release
<1>6. SummaryIsCurrent'
  BY SessionAssumption DEF TypeOK, OneTurnAtATime, SummaryIsCurrent, InTurn,
     Announced, ReadHistory, Release
<1>7. MetaInv'
  BY SessionAssumption DEF TypeOK, OneTurnAtATime, MetaInv, InTurn, asked,
     Announced, ReadHistory, Release
<1>8. QED
  BY <1>2, <1>3, <1>4, <1>5, <1>6, <1>7

LEMMA ExpandedStep ==
  ASSUME Inv, NEW r \in Runs, Expanded(r)
  PROVE  Inv'
<1> USE DEF Inv
<1>1. sess[r] \in Sessions
  BY DEF TypeOK
<1>2. TypeOK'
  BY ItemTypes, TailTypes, ReadableType, SummaryType DEF TypeOK, FinishedInv,
     Early, PCs, InTurn, asked, Expanded, ReadHistory
<1>3. FinishedInv'
  BY DEF TypeOK, FinishedInv, Early, PCs, InTurn, Expanded, ReadHistory
<1>4. OneTurnAtATime'
  BY SessionAssumption DEF TypeOK, OneTurnAtATime, PCs, InTurn, asked,
     Expanded, ReadHistory
<1>5. PromptIsTheThread'
  BY DEF TypeOK, OneTurnAtATime, PromptIsTheThread, PCs, InTurn, asked,
     Expanded, ReadHistory
<1>6. SummaryIsCurrent'
  BY SessionAssumption DEF TypeOK, OneTurnAtATime, SummaryIsCurrent, InTurn,
     Expanded, ReadHistory
<1>7. MetaInv'
  BY SessionAssumption DEF TypeOK, OneTurnAtATime, MetaInv, InTurn, asked,
     Expanded, ReadHistory
<1>8. QED
  BY <1>2, <1>3, <1>4, <1>5, <1>6, <1>7

LEMMA StartedStep ==
  ASSUME Inv, NEW r \in Runs, Started(r)
  PROVE  Inv'
<1> USE DEF Inv
<1>1. sess[r] \in Sessions
  BY DEF TypeOK
<1>2. TypeOK'
  BY ItemTypes, TailTypes, ReadableType, SummaryType DEF TypeOK, FinishedInv,
     Early, PCs, InTurn, asked, Started
<1>3. FinishedInv'
  BY DEF TypeOK, FinishedInv, Early, PCs, InTurn, Started
<1>4. OneTurnAtATime'
  BY SessionAssumption DEF TypeOK, OneTurnAtATime, PCs, InTurn, asked, Started
<1>5. PromptIsTheThread'
  BY DEF TypeOK, OneTurnAtATime, PromptIsTheThread, PCs, InTurn, asked, Started
<1>6. SummaryIsCurrent'
  BY SessionAssumption DEF TypeOK, OneTurnAtATime, SummaryIsCurrent, InTurn,
     Started
<1>7. MetaInv'
  BY SessionAssumption DEF TypeOK, OneTurnAtATime, MetaInv, InTurn, asked,
     Started
<1>8. QED
  BY <1>2, <1>3, <1>4, <1>5, <1>6, <1>7

LEMMA RunEndsStep ==
  ASSUME Inv, NEW r \in Runs, RunEnds(r)
  PROVE  Inv'
<1> USE DEF Inv
<1>1. sess[r] \in Sessions
  BY DEF TypeOK
<1>2. TypeOK'
  BY ItemTypes, TailTypes, ReadableType, SummaryType DEF TypeOK, FinishedInv,
     Early, PCs, InTurn, asked, RunEnds, PublishFinished
<1>3. FinishedInv'
  BY DEF TypeOK, FinishedInv, Early, PCs, InTurn, RunEnds, PublishFinished
<1>4. OneTurnAtATime'
  BY SessionAssumption DEF TypeOK, OneTurnAtATime, PCs, InTurn, asked,
     RunEnds, PublishFinished
<1>5. PromptIsTheThread'
  BY DEF TypeOK, OneTurnAtATime, PromptIsTheThread, PCs, InTurn, asked,
     RunEnds, PublishFinished
<1>6. SummaryIsCurrent'
  BY SessionAssumption DEF TypeOK, OneTurnAtATime, SummaryIsCurrent, InTurn,
     RunEnds, PublishFinished
<1>7. MetaInv'
  BY SessionAssumption DEF TypeOK, OneTurnAtATime, MetaInv, InTurn, asked,
     RunEnds, PublishFinished
<1>8. QED
  BY <1>2, <1>3, <1>4, <1>5, <1>6, <1>7

LEMMA RunClosedStep ==
  ASSUME Inv, NEW r \in Runs, RunClosed(r)
  PROVE  Inv'
<1> USE DEF Inv
<1>1. sess[r] \in Sessions
  BY DEF TypeOK
<1>2. TypeOK'
  <2>1. PICK tail \in Tails(r) : thread' = [thread EXCEPT ![sess[r]] = @ \o tail]
    BY DEF RunClosed
  <2>2. tail \in Seq(Items)
    BY TailTypes
  <2>3. thread' \in [Sessions -> Seq(Items)]
    BY <1>1, <2>1, <2>2 DEF TypeOK
  <2>4. <<>> \in Seq(Items)
    OBVIOUS
  <2>5. prompt' \in [Runs -> Seq(Items)]
    BY <2>4 DEF TypeOK, RunClosed
  <2>6. QED
    BY <1>1, <2>3, <2>5 DEF TypeOK, PCs, RunClosed, asked
<1>3. FinishedInv'
  BY DEF TypeOK, FinishedInv, Early, PCs, InTurn, RunClosed
<1>4. OneTurnAtATime'
  BY SessionAssumption DEF TypeOK, OneTurnAtATime, PCs, InTurn, asked, RunClosed
<1>5. PromptIsTheThread'
  BY DEF TypeOK, OneTurnAtATime, PromptIsTheThread, PCs, InTurn, asked,
     RunClosed
<1>6. SummaryIsCurrent'
  BY SessionAssumption DEF TypeOK, OneTurnAtATime, SummaryIsCurrent, InTurn,
     RunClosed
<1>7. MetaInv'
  BY SessionAssumption DEF TypeOK, OneTurnAtATime, MetaInv, InTurn, asked,
     RunClosed
<1>8. QED
  BY <1>2, <1>3, <1>4, <1>5, <1>6, <1>7

LEMMA RunAbortedStep ==
  ASSUME Inv, NEW r \in Runs, RunAborted(r)
  PROVE  Inv'
<1> USE DEF Inv
<1>1. sess[r] \in Sessions
  BY DEF TypeOK
<1>2. /\ pc[r] = "aborting" /\ finished[r] = 1
      /\ \/ pc' = [pc EXCEPT ![r] = "reporting"] /\ finished' = [finished EXCEPT ![r] = 2]
         \/ pc' = [pc EXCEPT ![r] = "ended"] /\ finished' = finished
  BY DEF TypeOK, FinishedInv, RunAborted, LeaveCancelled, PublishFinished
<1>3. TypeOK'
  <2>1. PICK tail \in Tails(r) : thread' = [thread EXCEPT ![sess[r]] = @ \o tail]
    BY DEF RunAborted
  <2>2. tail \in Seq(Items)
    BY TailTypes
  <2>3. thread' \in [Sessions -> Seq(Items)]
    BY <1>1, <2>1, <2>2 DEF TypeOK
  <2>4. pc' \in [Runs -> PCs]
    <3>1. \E p \in {"reporting", "ended"} : pc' = [pc EXCEPT ![r] = p]
      BY <1>2
    <3>2. pc \in [Runs -> PCs] /\ {"reporting", "ended"} \subseteq PCs
      BY DEF TypeOK, PCs
    <3> HIDE DEF Inv
    <3>3. QED
      BY <3>1, <3>2
  <2>5. finished' \in [Runs -> 0..2]
    <3>1. finished \in [Runs -> 0..2] /\ 2 \in 0..2
      BY DEF TypeOK
    <3> HIDE DEF Inv
    <3>2. QED
      BY <1>2, <3>1, CountType
  <2>6. prompt' \in [Runs -> Seq(Items)]
    BY DEF TypeOK, RunAborted, LeaveCancelled
  <2>7. holder' \in [Sessions -> Runs \cup {NoRun, "compact", "close"}]
    BY <1>1 DEF TypeOK, RunAborted, LeaveCancelled, Release
  <2>8. QED
    BY <2>3, <2>4, <2>6, <2>7, <2>5 DEF TypeOK, RunAborted, asked
<1>4. FinishedInv'
  BY <1>2 DEF TypeOK, FinishedInv, Early, PCs
<1>5. OneTurnAtATime'
  BY SessionAssumption DEF TypeOK, OneTurnAtATime, PCs, InTurn, asked,
     RunAborted, LeaveCancelled, Release, PublishFinished
<1>6. PromptIsTheThread'
  BY DEF TypeOK, OneTurnAtATime, PromptIsTheThread, PCs, InTurn, asked,
     RunAborted, LeaveCancelled, Release, PublishFinished
<1>7. SummaryIsCurrent'
  BY SessionAssumption DEF TypeOK, OneTurnAtATime, SummaryIsCurrent, InTurn,
     RunAborted, LeaveCancelled, Release, PublishFinished
<1>8. MetaInv'
  BY SessionAssumption DEF TypeOK, OneTurnAtATime, MetaInv, InTurn, asked,
     RunAborted, LeaveCancelled, Release, PublishFinished
<1>9. QED
  BY <1>3, <1>4, <1>5, <1>6, <1>7, <1>8

LEMMA SettledStep ==
  ASSUME Inv, NEW r \in Runs, Settled(r)
  PROVE  Inv'
<1> USE DEF Inv
<1>1. sess[r] \in Sessions
  BY DEF TypeOK
<1>2. TypeOK'
  BY ItemTypes, TailTypes, ReadableType, SummaryType DEF TypeOK, FinishedInv,
     Early, PCs, InTurn, asked, Settled, Release
<1>3. FinishedInv'
  BY DEF TypeOK, FinishedInv, Early, PCs, InTurn, Settled, Release
<1>4. OneTurnAtATime'
  BY SessionAssumption DEF TypeOK, OneTurnAtATime, PCs, InTurn, asked,
     Settled, Release
<1>5. PromptIsTheThread'
  BY DEF TypeOK, OneTurnAtATime, PromptIsTheThread, PCs, InTurn, asked,
     Settled, Release
<1>6. SummaryIsCurrent'
  BY SessionAssumption DEF TypeOK, OneTurnAtATime, SummaryIsCurrent, InTurn,
     Settled, Release
<1>7. MetaInv'
  BY SessionAssumption DEF TypeOK, OneTurnAtATime, MetaInv, InTurn, asked,
     Settled, Release
<1>8. QED
  BY <1>2, <1>3, <1>4, <1>5, <1>6, <1>7

LEMMA ReportedStep ==
  ASSUME Inv, NEW r \in Runs, Reported(r)
  PROVE  Inv'
<1> USE DEF Inv
<1>1. sess[r] \in Sessions
  BY DEF TypeOK
<1>2. TypeOK'
  BY ItemTypes, TailTypes, ReadableType, SummaryType DEF TypeOK, FinishedInv,
     Early, PCs, InTurn, asked, Reported
<1>3. FinishedInv'
  BY DEF TypeOK, FinishedInv, Early, PCs, InTurn, Reported
<1>4. OneTurnAtATime'
  BY SessionAssumption DEF TypeOK, OneTurnAtATime, PCs, InTurn, asked, Reported
<1>5. PromptIsTheThread'
  BY DEF TypeOK, OneTurnAtATime, PromptIsTheThread, PCs, InTurn, asked, Reported
<1>6. SummaryIsCurrent'
  BY SessionAssumption DEF TypeOK, OneTurnAtATime, SummaryIsCurrent, InTurn,
     Reported
<1>7. MetaInv'
  BY SessionAssumption DEF TypeOK, OneTurnAtATime, MetaInv, InTurn, asked,
     Reported
<1>8. QED
  BY <1>2, <1>3, <1>4, <1>5, <1>6, <1>7

LEMMA CancelledStep ==
  ASSUME Inv, NEW r \in Runs, Cancelled(r)
  PROVE  Inv'
<1> USE DEF Inv
<1>1. sess[r] \in Sessions
  BY DEF TypeOK
<1>2. TypeOK'
  <2>1. pc' \in [Runs -> PCs]
    <3>1. \E p \in {"ended", "aborting", "reporting"} : pc' = [pc EXCEPT ![r] = p]
      BY DEF Cancelled, LeaveCancelled
    <3>2. QED
      BY <3>1 DEF TypeOK, PCs
  <2>2. finished' \in [Runs -> 0..2]
    <3>1. \/ finished' = finished
          \/ InTurn(r) /\ finished' = [finished EXCEPT ![r] = finished[r] + 1]
      BY DEF TypeOK, Cancelled, LeaveCancelled, PublishFinished, InTurn
    <3>2. InTurn(r) => finished[r] \in 0..1
      BY DEF FinishedInv, InTurn, Early
    <3>3. finished \in [Runs -> 0..2]
      BY DEF TypeOK
    <3>4. finished[r] + 1 \in 0..2 \/ ~InTurn(r)
      BY <3>2
    <3> HIDE DEF Inv
    <3>5. QED
      BY <3>1, <3>3, <3>4, CountType
  <2>3. prompt' \in [Runs -> Seq(Items)]
    <3>1. <<>> \in Seq(Items)
      OBVIOUS
    <3>2. QED
      BY <3>1 DEF TypeOK, Cancelled, LeaveCancelled
  <2>4. holder' \in [Sessions -> Runs \cup {NoRun, "compact", "close"}]
    BY <1>1 DEF TypeOK, Cancelled, LeaveCancelled, Release
  <2>5. cancelReq' \in SUBSET Runs /\ cutOff' \in SUBSET Runs
    BY DEF TypeOK, Cancelled
  <2>6. QED
    BY <2>1, <2>2, <2>3, <2>4, <2>5 DEF TypeOK, Cancelled, asked
<1>3. FinishedInv'
  BY DEF TypeOK, FinishedInv, Early, PCs, InTurn, Cancelled, LeaveCancelled,
     Release, PublishFinished, Cancelling
<1>4. OneTurnAtATime'
  <2>1. CASE ~InTurn(r)
    BY <2>1 DEF TypeOK, OneTurnAtATime, InTurn, asked, Cancelled
  <2>2. CASE pc[r] = "running"
    BY <2>2 DEF TypeOK, OneTurnAtATime, InTurn, asked, Cancelled
  <2>3. CASE InTurn(r) /\ pc[r] # "running"
    <3>1. holder' = [holder EXCEPT ![sess[r]] = NoRun] /\ pc'[r] \in {"reporting", "ended"}
      BY <2>3 DEF TypeOK, Cancelled, LeaveCancelled, Release, InTurn
    <3>2. \A q \in Runs : q # r => pc'[q] = pc[q]
      BY <2>3 DEF TypeOK, Cancelled, LeaveCancelled, InTurn
    <3>3. QED
      BY <1>1, <2>3, <3>1, <3>2, SessionAssumption
         DEF TypeOK, OneTurnAtATime, InTurn, asked, Cancelled
  <2>4. QED
    BY <2>1, <2>2, <2>3
<1>5. PromptIsTheThread'
  BY DEF TypeOK, OneTurnAtATime, PromptIsTheThread, PCs, InTurn, asked,
     Cancelled, LeaveCancelled, Release, PublishFinished, Cancelling
<1>6. SummaryIsCurrent'
  BY SessionAssumption DEF TypeOK, OneTurnAtATime, SummaryIsCurrent, InTurn,
     Cancelled, LeaveCancelled, Release, PublishFinished, Cancelling
<1>7. MetaInv'
  <2> SUFFICES ASSUME NEW s \in Sessions, meta'[s] # status'[s]
               PROVE  \/ \E q \in cutOff' : sess'[q] = s
                      \/ \E q \in Runs : holder'[s] = q /\ pc'[q] = "settling"
    BY DEF MetaInv
  <2>1. meta[s] # status[s] /\ sess' = sess /\ cutOff \subseteq cutOff'
    BY DEF Cancelled, asked
  <2>2. CASE \E q \in cutOff : sess[q] = s
    BY <2>1, <2>2
  <2>3. CASE \E q \in Runs : holder[s] = q /\ pc[q] = "settling"
    <3>1. PICK q \in Runs : holder[s] = q /\ pc[q] = "settling"
      BY <2>3
    <3>2. CASE q = r
      <4>1. r \in cutOff' /\ sess[r] = s
        BY <3>1, <3>2 DEF TypeOK, OneTurnAtATime, InTurn, Cancelled
      <4>2. QED
        BY <2>1, <4>1
    <3>3. CASE q # r
      <4>1. pc'[q] = "settling"
        BY <3>1, <3>3 DEF TypeOK, Cancelled, LeaveCancelled
      <4>2. sess[r] = s => ~InTurn(r)
        BY <1>1, <3>1, <3>3 DEF TypeOK, OneTurnAtATime
      <4>3. holder'[s] = q
        BY <1>1, <3>1, <4>2 DEF TypeOK, Cancelled, LeaveCancelled,
           Release, InTurn
      <4>4. QED
        BY <4>1, <4>3
    <3>4. QED
      BY <3>2, <3>3
  <2>4. QED
    BY <2>1, <2>2, <2>3 DEF MetaInv
<1>8. QED
  BY <1>2, <1>3, <1>4, <1>5, <1>6, <1>7

LEMMA DoneCallbackStep ==
  ASSUME Inv, NEW r \in Runs, DoneCallback(r)
  PROVE  Inv'
<1> USE DEF Inv
<1>1. sess[r] \in Sessions
  BY DEF TypeOK
<1>2. TypeOK'
  BY ItemTypes, TailTypes, ReadableType, SummaryType DEF TypeOK, FinishedInv,
     Early, PCs, InTurn, asked, DoneCallback
<1>3. FinishedInv'
  BY DEF TypeOK, FinishedInv, Early, PCs, InTurn, DoneCallback
<1>4. OneTurnAtATime'
  BY SessionAssumption DEF TypeOK, OneTurnAtATime, PCs, InTurn, asked,
     DoneCallback
<1>5. PromptIsTheThread'
  BY DEF TypeOK, OneTurnAtATime, PromptIsTheThread, PCs, InTurn, asked,
     DoneCallback
<1>6. SummaryIsCurrent'
  BY SessionAssumption DEF TypeOK, OneTurnAtATime, SummaryIsCurrent, InTurn,
     DoneCallback
<1>7. MetaInv'
  BY SessionAssumption DEF TypeOK, OneTurnAtATime, MetaInv, InTurn, asked,
     DoneCallback
<1>8. QED
  BY <1>2, <1>3, <1>4, <1>5, <1>6, <1>7

LEMMA CreateStep ==
  ASSUME Inv, NEW s \in Sessions, Create(s)
  PROVE  Inv'
<1> USE DEF Inv
<1>1. TypeOK'
  BY ItemTypes, TailTypes, ReadableType, SummaryType DEF TypeOK, FinishedInv,
     Early, PCs, InTurn, asked, Create, CreateSession
<1>2. FinishedInv'
  BY DEF TypeOK, FinishedInv, Early, PCs, InTurn, Create, CreateSession
<1>3. OneTurnAtATime'
  BY SessionAssumption DEF TypeOK, OneTurnAtATime, PCs, InTurn, asked, Create,
     CreateSession
<1>4. PromptIsTheThread'
  BY DEF TypeOK, OneTurnAtATime, PromptIsTheThread, PCs, InTurn, asked,
     Create, CreateSession
<1>5. SummaryIsCurrent'
  BY SessionAssumption DEF TypeOK, OneTurnAtATime, SummaryIsCurrent, InTurn,
     Create, CreateSession
<1>6. MetaInv'
  BY SessionAssumption DEF TypeOK, OneTurnAtATime, MetaInv, InTurn, asked,
     Create, CreateSession
<1>7. QED
  BY <1>1, <1>2, <1>3, <1>4, <1>5, <1>6

LEMMA CancelRunStep ==
  ASSUME Inv, NEW s \in Sessions, CancelRun(s)
  PROVE  Inv'
<1> USE DEF Inv
<1>1. TypeOK'
  BY ItemTypes, TailTypes, ReadableType, SummaryType DEF TypeOK, FinishedInv,
     Early, PCs, InTurn, asked, CancelRun
<1>2. FinishedInv'
  BY DEF TypeOK, FinishedInv, Early, PCs, InTurn, CancelRun
<1>3. OneTurnAtATime'
  BY SessionAssumption DEF TypeOK, OneTurnAtATime, PCs, InTurn, asked, CancelRun
<1>4. PromptIsTheThread'
  BY DEF TypeOK, OneTurnAtATime, PromptIsTheThread, PCs, InTurn, asked,
     CancelRun
<1>5. SummaryIsCurrent'
  BY SessionAssumption DEF TypeOK, OneTurnAtATime, SummaryIsCurrent, InTurn,
     CancelRun
<1>6. MetaInv'
  BY SessionAssumption DEF TypeOK, OneTurnAtATime, MetaInv, InTurn, asked,
     CancelRun
<1>7. QED
  BY <1>1, <1>2, <1>3, <1>4, <1>5, <1>6

LEMMA CloseStep ==
  ASSUME Inv, NEW s \in Sessions, Close(s)
  PROVE  Inv'
<1> USE DEF Inv
<1>1. TypeOK'
  BY ItemTypes, TailTypes, ReadableType, SummaryType DEF TypeOK, FinishedInv,
     Early, PCs, InTurn, asked, Close, SetClosed
<1>2. FinishedInv'
  BY DEF TypeOK, FinishedInv, Early, PCs, InTurn, Close, SetClosed
<1>3. OneTurnAtATime'
  BY SessionAssumption DEF TypeOK, OneTurnAtATime, PCs, InTurn, asked, Close,
     SetClosed
<1>4. PromptIsTheThread'
  BY DEF TypeOK, OneTurnAtATime, PromptIsTheThread, PCs, InTurn, asked, Close,
     SetClosed
<1>5. SummaryIsCurrent'
  BY SessionAssumption DEF TypeOK, OneTurnAtATime, SummaryIsCurrent, InTurn,
     Close, SetClosed
<1>6. MetaInv'
  BY SessionAssumption DEF TypeOK, OneTurnAtATime, MetaInv, InTurn, asked,
     Close, SetClosed
<1>7. QED
  BY <1>1, <1>2, <1>3, <1>4, <1>5, <1>6

LEMMA ForceCloseStep ==
  ASSUME Inv, NEW s \in Sessions, ForceClose(s)
  PROVE  Inv'
<1> USE DEF Inv
<1>1. TypeOK'
  BY ItemTypes, TailTypes, ReadableType, SummaryType DEF TypeOK, FinishedInv,
     Early, PCs, InTurn, asked, ForceClose, SetClosed
<1>2. FinishedInv'
  BY DEF TypeOK, FinishedInv, Early, PCs, InTurn, ForceClose, SetClosed
<1>3. OneTurnAtATime'
  BY SessionAssumption DEF TypeOK, OneTurnAtATime, PCs, InTurn, asked,
     ForceClose, SetClosed
<1>4. PromptIsTheThread'
  BY DEF TypeOK, OneTurnAtATime, PromptIsTheThread, PCs, InTurn, asked,
     ForceClose, SetClosed
<1>5. SummaryIsCurrent'
  BY SessionAssumption DEF TypeOK, OneTurnAtATime, SummaryIsCurrent, InTurn,
     ForceClose, SetClosed
<1>6. MetaInv'
  BY SessionAssumption DEF TypeOK, OneTurnAtATime, MetaInv, InTurn, asked,
     ForceClose, SetClosed
<1>7. QED
  BY <1>1, <1>2, <1>3, <1>4, <1>5, <1>6

LEMMA CloseDoneStep ==
  ASSUME Inv, NEW s \in Sessions, CloseDone(s)
  PROVE  Inv'
<1> USE DEF Inv
<1>1. TypeOK'
  BY ItemTypes, TailTypes, ReadableType, SummaryType DEF TypeOK, FinishedInv,
     Early, PCs, InTurn, asked, CloseDone, Unlock
<1>2. FinishedInv'
  BY DEF TypeOK, FinishedInv, Early, PCs, InTurn, CloseDone, Unlock
<1>3. OneTurnAtATime'
  BY SessionAssumption DEF TypeOK, OneTurnAtATime, PCs, InTurn, asked,
     CloseDone, Unlock
<1>4. PromptIsTheThread'
  BY DEF TypeOK, OneTurnAtATime, PromptIsTheThread, PCs, InTurn, asked,
     CloseDone, Unlock
<1>5. SummaryIsCurrent'
  BY SessionAssumption DEF TypeOK, OneTurnAtATime, SummaryIsCurrent, InTurn,
     CloseDone, Unlock
<1>6. MetaInv'
  BY SessionAssumption DEF TypeOK, OneTurnAtATime, MetaInv, InTurn, asked,
     CloseDone, Unlock
<1>7. QED
  BY <1>1, <1>2, <1>3, <1>4, <1>5, <1>6

LEMMA CompactStep ==
  ASSUME Inv, NEW s \in Sessions, Compact(s)
  PROVE  Inv'
<1> USE DEF Inv
<1>1. TypeOK'
  BY ItemTypes, TailTypes, ReadableType, SummaryType DEF TypeOK, FinishedInv,
     Early, PCs, InTurn, asked, Compact
<1>2. FinishedInv'
  BY DEF TypeOK, FinishedInv, Early, PCs, InTurn, Compact
<1>3. OneTurnAtATime'
  BY SessionAssumption DEF TypeOK, OneTurnAtATime, PCs, InTurn, asked, Compact
<1>4. PromptIsTheThread'
  BY DEF TypeOK, OneTurnAtATime, PromptIsTheThread, PCs, InTurn, asked, Compact
<1>5. SummaryIsCurrent'
  BY SessionAssumption DEF TypeOK, OneTurnAtATime, SummaryIsCurrent, InTurn,
     Compact
<1>6. MetaInv'
  BY SessionAssumption DEF TypeOK, OneTurnAtATime, MetaInv, InTurn, asked,
     Compact
<1>7. QED
  BY <1>1, <1>2, <1>3, <1>4, <1>5, <1>6

LEMMA CompactDoneStep ==
  ASSUME Inv, NEW s \in Sessions, CompactDone(s)
  PROVE  Inv'
<1> USE DEF Inv
<1>1. TypeOK'
  BY ItemTypes, TailTypes, ReadableType, SummaryType DEF TypeOK, FinishedInv,
     Early, PCs, InTurn, asked, CompactDone, Unlock
<1>2. FinishedInv'
  BY DEF TypeOK, FinishedInv, Early, PCs, InTurn, CompactDone, Unlock
<1>3. OneTurnAtATime'
  BY SessionAssumption DEF TypeOK, OneTurnAtATime, PCs, InTurn, asked,
     CompactDone, Unlock
<1>4. PromptIsTheThread'
  <2> SUFFICES ASSUME NEW q \in Runs,
                      pc[q] \in {"starting", "running", "finishing", "aborting"}
               PROVE  prompt'[q] = Readable(thread'[sess'[q]])
    BY DEF PromptIsTheThread, CompactDone, Unlock
  <2>1. sess[q] \in Sessions /\ sess[q] # s
    BY SessionAssumption DEF TypeOK, OneTurnAtATime, InTurn, CompactDone
  <2>2. QED
    BY <2>1 DEF TypeOK, PromptIsTheThread, CompactDone, Unlock, asked
<1>5. SummaryIsCurrent'
  BY SessionAssumption DEF TypeOK, OneTurnAtATime, SummaryIsCurrent, InTurn,
     CompactDone, Unlock
<1>6. MetaInv'
  BY SessionAssumption DEF TypeOK, OneTurnAtATime, MetaInv, InTurn, asked,
     CompactDone, Unlock
<1>7. QED
  BY <1>1, <1>2, <1>3, <1>4, <1>5, <1>6

LEMMA CompactFailsStep ==
  ASSUME Inv, NEW s \in Sessions, CompactFails(s)
  PROVE  Inv'
<1> USE DEF Inv
<1>1. TypeOK'
  BY ItemTypes, TailTypes, ReadableType, SummaryType DEF TypeOK, FinishedInv,
     Early, PCs, InTurn, asked, CompactFails, Unlock
<1>2. FinishedInv'
  BY DEF TypeOK, FinishedInv, Early, PCs, InTurn, CompactFails, Unlock
<1>3. OneTurnAtATime'
  BY SessionAssumption DEF TypeOK, OneTurnAtATime, PCs, InTurn, asked,
     CompactFails, Unlock
<1>4. PromptIsTheThread'
  BY DEF TypeOK, OneTurnAtATime, PromptIsTheThread, PCs, InTurn, asked,
     CompactFails, Unlock
<1>5. SummaryIsCurrent'
  BY SessionAssumption DEF TypeOK, OneTurnAtATime, SummaryIsCurrent, InTurn,
     CompactFails, Unlock
<1>6. MetaInv'
  BY SessionAssumption DEF TypeOK, OneTurnAtATime, MetaInv, InTurn, asked,
     CompactFails, Unlock
<1>7. QED
  BY <1>1, <1>2, <1>3, <1>4, <1>5, <1>6

LEMMA TruncateStep ==
  ASSUME Inv, NEW s \in Sessions, NEW k \in 0..Len(thread[s]), Truncate(s, k)
  PROVE  Inv'
<1> USE DEF Inv
<1>1. TypeOK'
  <2>1. thread[s] \in Seq(Items)
    BY DEF TypeOK
  <2>2. SubSeq(thread[s], 1, k) \in Seq(Items)
    BY <2>1
  <2>3. QED
    BY <2>2 DEF TypeOK, Truncate, asked
<1>2. FinishedInv' /\ OneTurnAtATime'
  BY DEF FinishedInv, OneTurnAtATime, InTurn, Truncate, asked
<1>3. PromptIsTheThread'
  <2> SUFFICES ASSUME NEW q \in Runs,
                      pc[q] \in {"starting", "running", "finishing", "aborting"}
               PROVE  prompt'[q] = Readable(thread'[sess'[q]])
    BY DEF PromptIsTheThread, Truncate
  <2>1. sess[q] \in Sessions /\ sess[q] # s
    BY SessionAssumption DEF TypeOK, OneTurnAtATime, InTurn, Truncate
  <2>2. QED
    BY <2>1 DEF TypeOK, PromptIsTheThread, Truncate, asked
<1>4. SummaryIsCurrent'
  BY SessionAssumption DEF TypeOK, SummaryIsCurrent, Truncate
<1>5. MetaInv'
  BY DEF TypeOK, MetaInv, Truncate, asked
<1>6. QED
  BY <1>1, <1>2, <1>3, <1>4, <1>5

\* What touches neither the tasks' places nor the sessions.
LEMMA OtherStep ==
  ASSUME Inv, Shutdown \/ UNCHANGED vars
  PROVE  Inv'
<1> USE DEF Inv
<1>1. CASE Shutdown
  BY <1>1 DEF Shutdown, asked, TypeOK, FinishedInv, OneTurnAtATime, InTurn,
              PromptIsTheThread, SummaryIsCurrent, MetaInv
<1>2. CASE UNCHANGED vars
  BY <1>2 DEF vars, asked, TypeOK, FinishedInv, OneTurnAtATime, InTurn,
              PromptIsTheThread, SummaryIsCurrent, MetaInv
<1>3. QED
  BY <1>1, <1>2

LEMMA InitInv == Init => Inv
<1> SUFFICES ASSUME Init PROVE Inv
  OBVIOUS
<1>1. <<>> \in Seq(Items)
  OBVIOUS
<1>2. TypeOK
  <2>1. /\ pc \in [Runs -> PCs]
        /\ prompt \in [Runs -> Seq(Items)]
        /\ finished \in [Runs -> 0..2]
    BY <1>1 DEF Init, PCs
  <2>2. /\ thread \in [Sessions -> Seq(Items)]
        /\ summarised \in [Sessions -> Seq(Items)]
    BY <1>1 DEF Init
  <2>3. QED
    BY <2>1, <2>2 DEF Init, TypeOK
<1>3. FinishedInv /\ MetaInv /\ PromptIsTheThread
  BY DEF Init, FinishedInv, MetaInv, PromptIsTheThread
<1>4. OneTurnAtATime /\ SummaryIsCurrent
  BY SessionAssumption DEF Init, OneTurnAtATime, SummaryIsCurrent, InTurn
<1>5. QED
  BY <1>2, <1>3, <1>4 DEF Inv

LEMMA NextInv == Inv /\ [Next]_vars => Inv'
<1> SUFFICES ASSUME Inv, [Next]_vars PROVE Inv'
  OBVIOUS
<1>1. ASSUME NEW r \in Runs, AgentRun(r) \/ Send(r) \/ RunStep(r) PROVE Inv'
  BY <1>1, AgentRunStep, SendStep, AgentRunSpawnStep, StartRefusedStep,
     StartStep,
     ResumedStep, AnnouncedStep, ExpandedStep, StartedStep, RunEndsStep,
     RunClosedStep, RunAbortedStep, SettledStep, ReportedStep, CancelledStep,
     DoneCallbackStep
     DEF RunStep
<1>2. ASSUME NEW s \in Sessions,
             \/ Create(s) \/ LockStep(s) \/ CancelRun(s) \/ Close(s)
             \/ ForceClose(s) \/ Compact(s)
             \/ \E k \in 0..Len(thread[s]) : Truncate(s, k)
      PROVE Inv'
  BY <1>2, CreateStep, CancelRunStep, CloseStep, ForceCloseStep, CloseDoneStep,
     CompactStep, CompactDoneStep, CompactFailsStep, TruncateStep
     DEF LockStep
<1>3. QED
  BY <1>1, <1>2, OtherStep DEF Next

LEMMA InvHolds == Spec => []Inv
<1>1. Init => Inv
  BY InitInv
<1>2. Inv /\ [Next]_vars => Inv'
  BY NextInv
<1>3. QED
  BY <1>1, <1>2, PTL DEF Spec

-----------------------------------------------------------------------------
(***************************************************************************)
(* The theorems about single states.                                       *)
(***************************************************************************)
\* Sessions, tasks and threads have their types (session/manager.py, app.py).
THEOREM TypeCorrect == Spec => []TypeOK
<1>1. Inv => TypeOK
  BY DEF Inv
<1>2. QED
  BY <1>1, InvHolds, PTL

\* The session's lock (manager.py:81) excludes: never two runs in a turn of one
\* session, and never a compaction or a close beside a run.
THEOREM OneTurnAtATimeHolds == Spec => []OneTurnAtATime
<1>1. Inv => OneTurnAtATime
  BY DEF Inv
<1>2. QED
  BY <1>1, InvHolds, PTL

\* What a run was asked is still what the thread says when its messages are
\* appended (runner.py:183-253).
THEOREM PromptIsTheThreadHolds == Spec => []PromptIsTheThread
<1>1. Inv => PromptIsTheThread
  BY DEF Inv
<1>2. QED
  BY <1>1, InvHolds, PTL

\* A summary never replaces a message it was not made from (manager.py:181).
THEOREM SummaryIsCurrentHolds == Spec => []SummaryIsCurrent
<1>1. Inv => SummaryIsCurrent
  BY DEF Inv
<1>2. QED
  BY <1>1, InvHolds, PTL

\* meta.json of an idle session is behind its status only after a run that was
\* cancelled between setting the status and saving it (manager.py:139).
THEOREM MetaTracksStatusHolds == Spec => []MetaTracksStatus
<1>1. Inv => MetaTracksStatus
  BY SessionAssumption DEF Inv, MetaInv, MetaTracksStatus
<1>2. QED
  BY <1>1, InvHolds, PTL

-----------------------------------------------------------------------------
(***************************************************************************)
(* The theorems about steps.                                               *)
(***************************************************************************)
\* A step of one task moves that task alone.
LEMMA OneTaskMoves ==
  ASSUME NEW q \in Runs, AgentRun(q) \/ Send(q) \/ RunStep(q)
  PROVE  \E p \in PCs : pc' = [pc EXCEPT ![q] = p]
BY DEF PCs, AgentRun, Send, RunStep, AgentRunSpawn, StartRefused, Start,
   AppendUser, Resumed, Announced, ReadHistory, Expanded, Started, RunEnds,
   RunClosed, RunAborted, LeaveCancelled, Settled, Reported, Cancelled,
   DoneCallback

\* A task's place changes by its own steps only.
LEMMA OwnSteps ==
  ASSUME Inv, [Next]_vars, NEW r \in Runs, pc'[r] # pc[r]
  PROVE  AgentRun(r) \/ Send(r) \/ RunStep(r)
<1>1. pc \in [Runs -> PCs]
  BY DEF Inv, TypeOK
<1>2. ASSUME NEW q \in Runs, AgentRun(q) \/ Send(q) \/ RunStep(q)
      PROVE  \E p \in PCs : pc' = [pc EXCEPT ![q] = p]
  BY <1>2, OneTaskMoves
<1>3. ASSUME NEW s \in Sessions,
             \/ Create(s) \/ LockStep(s) \/ CancelRun(s) \/ Close(s)
             \/ ForceClose(s) \/ Compact(s)
             \/ \E k \in 0..Len(thread[s]) : Truncate(s, k)
      PROVE  pc' = pc
  BY <1>3 DEF Create, LockStep, CloseDone, CompactDone, CompactFails, Unlock,
     CancelRun, Close, ForceClose, Compact, Truncate
<1>4. Shutdown \/ UNCHANGED vars => pc' = pc
  BY DEF Shutdown, vars
<1>5. PICK q \in Runs : AgentRun(q) \/ Send(q) \/ RunStep(q)
  BY <1>3, <1>4 DEF Next
<1>6. q = r
  BY <1>1, <1>2, <1>5
<1>7. QED
  BY <1>5, <1>6

\* Whoever's message entered its turn is told when it is over, however often
\* it was cancelled (_run_session_task, run_and_capture).
THEOREM TurnsAreReportedHolds == Spec => TurnsAreReported
<1> DEFINE A == \A r \in wrapped :
          /\ pc[r] # "ended" /\ pc'[r] = "ended"
          /\ InTurn(r) \/ pc[r] = "reporting"
          /\ content[r] # "slash" \/ pc[r] # "announcing"
          => finished'[r] > 0
<1>1. ASSUME Inv, [Next]_vars PROVE A
  <2> SUFFICES ASSUME NEW r \in wrapped,
                      pc[r] # "ended", pc'[r] = "ended",
                      InTurn(r) \/ pc[r] = "reporting",
                      content[r] # "slash" \/ pc[r] # "announcing"
               PROVE  finished'[r] > 0
    OBVIOUS
  <2>1. r \in Runs /\ pc \in [Runs -> PCs] /\ finished \in [Runs -> 0..2]
    BY <1>1 DEF Inv, TypeOK
  <2>2. RunStep(r)
    BY <1>1, <2>1, OwnSteps DEF AgentRun, Send, InTurn
  <2>3. Settled(r) \/ Reported(r) \/ Cancelled(r)
    BY <2>1, <2>2 DEF RunStep, AgentRunSpawn, StartRefused, Start, AppendUser,
       Resumed, Announced, ReadHistory, Expanded, Started, RunEnds, RunClosed,
       RunAborted, LeaveCancelled, DoneCallback, InTurn
  <2>4. pc[r] \in {"settling", "reporting"}
    BY <2>1, <2>3 DEF Settled, Reported, Cancelled, LeaveCancelled, InTurn
  <2>5. finished[r] > 0
    BY <1>1, <2>1, <2>4 DEF Inv, FinishedInv
  <2>6. finished'[r] = finished[r]
    BY <2>1, <2>3, <2>4 DEF Settled, Reported, Cancelled, LeaveCancelled, InTurn
  <2>7. QED
    BY <2>5, <2>6
<1>2. TurnsAreReported <=> [][A]_vars
  BY DEF TurnsAreReported
<1>3. QED
  BY <1>1, <1>2, InvHolds, PTL DEF Spec

\* A one_shot session that is closed stays closed, and admits no message any
\* more (send_message, close).
THEOREM OneShotStaysClosedHolds == Spec => OneShotStaysClosed
<1> DEFINE A == \A s \in oneShot : status[s] = "closed" =>
          /\ status'[s] = "closed"
          /\ \A r \in Runs : sess[r] = s /\ pc[r] = "created" => ~InTurn(r)'
<1>1. ASSUME Inv, [Next]_vars PROVE A
  <2> SUFFICES ASSUME NEW s \in oneShot, status[s] = "closed"
               PROVE  /\ status'[s] = "closed"
                      /\ \A r \in Runs : sess[r] = s /\ pc[r] = "created" => ~InTurn(r)'
    OBVIOUS
  <2>1. /\ s \in Sessions /\ pc \in [Runs -> PCs] /\ sess \in [Runs -> Sessions]
        /\ status \in [Sessions -> {"none", "active", "waiting_for_input", "closed"}]
    BY <1>1 DEF Inv, TypeOK
  <2>2. status'[s] = "closed"
    <3>1. ASSUME NEW q \in Runs, AgentRun(q) \/ Send(q) \/ RunStep(q)
          PROVE  status'[s] = "closed"
      BY <2>1, <3>1 DEF AgentRun, CreateSession, Send, RunStep, AgentRunSpawn,
         StartRefused, Start, Resumed, Announced, Expanded, Started, RunEnds,
         RunClosed, RunAborted, Settled, Reported, Cancelled, DoneCallback
    <3>2. ASSUME NEW t \in Sessions,
                 \/ Create(t) \/ LockStep(t) \/ CancelRun(t) \/ Close(t)
                 \/ ForceClose(t) \/ Compact(t)
                 \/ \E k \in 0..Len(thread[t]) : Truncate(t, k)
          PROVE  status'[s] = "closed"
      BY <2>1, <3>2 DEF Create, CreateSession, LockStep, CloseDone, CompactDone,
         CompactFails, Unlock, CancelRun, Close, ForceClose, SetClosed, Compact,
         Truncate
    <3>3. Shutdown \/ UNCHANGED vars => status'[s] = "closed"
      BY DEF Shutdown, vars
    <3>4. QED
      BY <1>1, <3>1, <3>2, <3>3 DEF Next
  <2>3. ASSUME NEW r \in Runs, sess[r] = s, pc[r] = "created"
        PROVE  ~InTurn(r)'
    <3>1. CASE pc'[r] = pc[r]
      BY <2>3, <3>1 DEF InTurn
    <3>2. CASE pc'[r] # pc[r]
      <4>1. AgentRun(r) \/ Send(r) \/ RunStep(r)
        BY <1>1, <3>2, OwnSteps
      <4>2. StartRefused(r) \/ Cancelled(r)
        BY <2>3, <4>1 DEF AgentRun, Send, RunStep, AgentRunSpawn, Start,
           Refused,
           Resumed, Announced, Expanded, Started, RunEnds, RunClosed, RunAborted,
           Settled, Reported, DoneCallback
      <4>3. pc'[r] = "ended"
        BY <2>1, <2>3, <4>2 DEF StartRefused, Cancelled, InTurn
      <4>4. QED
        BY <4>3 DEF InTurn
    <3>3. QED
      BY <3>1, <3>2
  <2>4. QED
    BY <2>2, <2>3
<1>2. OneShotStaysClosed <=> [][A]_vars
  BY DEF OneShotStaysClosed
<1>3. QED
  BY <1>1, <1>2, InvHolds, PTL DEF Spec

-----------------------------------------------------------------------------
(***************************************************************************)
(* A session implements SessionThread.                                     *)
(***************************************************************************)
\* The turn of a run is open from its user message to its last one.
InLog(r) == pc[r] \in {"announcing", "expanding", "starting", "running",
                       "finishing", "aborting"}

turnMap == [s \in Sessions |-> TurnOf(s)]

LEMMA TurnIsInLog ==
  ASSUME Inv, NEW s \in Sessions
  PROVE  /\ TurnOf(s) \in Runs \cup {NoRun}
         /\ \A r \in Runs : TurnOf(s) = r <=> InLog(r) /\ sess[r] = s
BY SessionAssumption DEF Inv, TypeOK, PCs, OneTurnAtATime, InTurn, InLog, TurnOf

LEMMA TurnIsInLogNext ==
  ASSUME Inv', NEW s \in Sessions
  PROVE  /\ TurnOf(s)' \in Runs \cup {NoRun}
         /\ \A r \in Runs : TurnOf(s)' = r <=> InLog(r)' /\ sess'[r] = s
BY SessionAssumption DEF Inv, TypeOK, PCs, OneTurnAtATime, InTurn, InLog, TurnOf

\* Only a step that changes whether a run is in its turn changes the turns.
LEMMA TurnKept ==
  ASSUME Inv, Inv', sess' = sess, NEW s \in Sessions,
         \A q \in Runs : sess[q] = s => (InLog(q)' <=> InLog(q))
  PROVE  TurnOf(s)' = TurnOf(s)
<1>1. \A r \in Runs : TurnOf(s) = r <=> InLog(r) /\ sess[r] = s
  BY TurnIsInLog
<1>2. \A r \in Runs : TurnOf(s)' = r <=> InLog(r)' /\ sess[r] = s
  BY TurnIsInLogNext
<1>3. TurnOf(s) \in Runs \cup {NoRun}
  BY TurnIsInLog
<1>4. TurnOf(s)' \in Runs \cup {NoRun}
  BY TurnIsInLogNext
<1> HIDE DEF Inv
<1>5. QED
  BY <1>1, <1>2, <1>3, <1>4

LEMMA Quiet ==
  ASSUME Inv, Inv', sess' = sess, thread' = thread,
         \A q \in Runs : InLog(q)' <=> InLog(q)
  PROVE  [Abstract!TNext]_(Abstract!tvars)
<1>1. turnMap' = turnMap
  BY TurnKept DEF turnMap
<1>2. QED
  BY <1>1 DEF turnMap, Abstract!tvars

LEMMA TurnOpens ==
  ASSUME Inv, Inv', sess' = sess, NEW r \in Runs, ~InLog(r), InLog(r)',
         \A q \in Runs : q # r => (InLog(q)' <=> InLog(q)),
         thread' = [thread EXCEPT ![sess[r]] = Append(@, User(r))]
  PROVE  [Abstract!TNext]_(Abstract!tvars)
<1>1. sess[r] \in Sessions
  BY DEF Inv, TypeOK
<1>2. TurnOf(sess[r])' = r
  BY <1>1, TurnIsInLogNext
<1>3. TurnOf(sess[r]) = NoRun
  <2>1. \A q \in Runs : TurnOf(sess[r]) = q => InLog(q) /\ sess[q] = sess[r] /\ q # r
    BY <1>1, TurnIsInLog
  <2>2. \A q \in Runs : TurnOf(sess[r])' = q <=> InLog(q)' /\ sess'[q] = sess[r]
    BY <1>1, TurnIsInLogNext
  <2>3. \A q \in Runs : TurnOf(sess[r]) # q
    BY <1>2, <2>1, <2>2
  <2>4. QED
    BY <1>1, <2>3, TurnIsInLog
<1>4. ASSUME NEW s \in Sessions, s # sess[r] PROVE TurnOf(s)' = TurnOf(s)
  BY <1>4, TurnKept
<1>5. turnMap[sess[r]] = NoRun /\ turnMap' = [turnMap EXCEPT ![sess[r]] = r]
  BY <1>1, <1>2, <1>3, <1>4 DEF turnMap
<1>6. thread' = [thread EXCEPT ![sess[r]] = Append(@, [q \in Runs |-> User(q)][r])]
  OBVIOUS
<1>7. Abstract!OpenTurn(sess[r], r)
  BY <1>5, <1>6 DEF turnMap, Abstract!OpenTurn
<1>8. QED
  BY <1>1, <1>7 DEF Abstract!TNext

LEMMA TurnCloses ==
  ASSUME Inv, Inv', sess' = sess, NEW r \in Runs, InLog(r), ~InLog(r)',
         \A q \in Runs : q # r => (InLog(q)' <=> InLog(q)),
         NEW tail \in Tails(r),
         thread' = [thread EXCEPT ![sess[r]] = @ \o tail]
  PROVE  [Abstract!TNext]_(Abstract!tvars)
<1>1. sess[r] \in Sessions
  BY DEF Inv, TypeOK
<1>2. TurnOf(sess[r]) = r
  BY <1>1, TurnIsInLog
<1>3. TurnOf(sess[r])' = NoRun
  <2>1. \A q \in Runs : TurnOf(sess[r])' = q => InLog(q)' /\ sess[q] = sess[r] /\ q # r
    BY <1>1, TurnIsInLogNext
  <2>2. \A q \in Runs : TurnOf(sess[r]) = q <=> InLog(q) /\ sess[q] = sess[r]
    BY <1>1, TurnIsInLog
  <2>3. \A q \in Runs : TurnOf(sess[r])' # q
    BY <1>2, <2>1, <2>2
  <2>4. QED
    BY <1>1, <2>3, TurnIsInLogNext
<1>4. ASSUME NEW s \in Sessions, s # sess[r] PROVE TurnOf(s)' = TurnOf(s)
  BY <1>4, TurnKept
<1>5. turnMap[sess[r]] = r /\ turnMap' = [turnMap EXCEPT ![sess[r]] = NoRun]
  BY <1>1, <1>2, <1>3, <1>4 DEF turnMap
<1>6. tail \in [q \in Runs |-> Tails(q)][r]
  OBVIOUS
<1>7. Abstract!CloseTurn(sess[r], r)
  BY <1>5, <1>6 DEF turnMap, Abstract!CloseTurn
<1>8. QED
  BY <1>1, <1>7 DEF Abstract!TNext

\* A run that is cancelled or fails may close its turn without a word.
LEMMA TurnClosesSilently ==
  ASSUME Inv, Inv', sess' = sess, thread' = thread, NEW r \in Runs,
         \A q \in Runs : q # r => (InLog(q)' <=> InLog(q)), ~InLog(r)'
  PROVE  [Abstract!TNext]_(Abstract!tvars)
<1>1. CASE InLog(r)
  <2>1. <<>> \in Tails(r)
    BY DEF Tails
  <2>2. thread \in [Sessions -> Seq(Items)] /\ sess[r] \in Sessions
    BY DEF Inv, TypeOK
  <2>3. thread[sess[r]] \o <<>> = thread[sess[r]]
    BY <2>2
  <2>4. thread' = [thread EXCEPT ![sess[r]] = @ \o <<>>]
    BY <2>2, <2>3
  <2>5. QED
    BY <1>1, <2>1, <2>4, TurnCloses
<1>2. CASE ~InLog(r)
  BY <1>2, Quiet
<1>3. QED
  BY <1>1, <1>2

LEMMA ThreadRewritten ==
  ASSUME Inv, Inv', pc' = pc, sess' = sess, NEW s \in Sessions, holder[s] \notin Runs,
         NEW q, q = Summary \/ \E k \in 0..Len(thread[s]) : q = SubSeq(thread[s], 1, k),
         thread' = [thread EXCEPT ![s] = q]
  PROVE  [Abstract!TNext]_(Abstract!tvars)
<1>1. \A r \in Runs : InLog(r)' <=> InLog(r)
  BY DEF InLog
<1>2. turnMap' = turnMap
  BY <1>1, TurnKept DEF turnMap
<1>3. turnMap[s] = NoRun
  BY DEF turnMap, TurnOf
<1>4. q \in Abstract!Prefixes(thread[s]) \cup {Summary}
  BY DEF Abstract!Prefixes
<1>5. Abstract!Rewrite(s)
  BY <1>2, <1>3, <1>4 DEF turnMap, Abstract!Rewrite
<1>6. QED
  BY <1>5 DEF Abstract!TNext

LEMMA RunRefines ==
  ASSUME Inv, Inv', NEW r \in Runs, AgentRun(r) \/ Send(r) \/ RunStep(r)
  PROVE  [Abstract!TNext]_(Abstract!tvars)
<1> USE DEF Inv, TypeOK
<1>1. sess' = sess /\ pc \in [Runs -> PCs]
  BY DEF AgentRun, Send, RunStep, AgentRunSpawn, StartRefused, Start, Resumed,
     Announced, Expanded, Started, RunEnds, RunClosed, RunAborted, Settled,
     Reported, Cancelled, DoneCallback, asked
<1>2. \A q \in Runs : q # r => (InLog(q)' <=> InLog(q))
  BY <1>1, OneTaskMoves DEF InLog
<1>3. CASE AgentRun(r) \/ Send(r) \/ AgentRunSpawn(r) \/ StartRefused(r) \/ Expanded(r)
           \/ Started(r) \/ RunEnds(r) \/ Settled(r) \/ Reported(r) \/ DoneCallback(r)
  <2>1. thread' = thread /\ (InLog(r)' <=> InLog(r))
    BY <1>1, <1>3 DEF AgentRun, Send, AgentRunSpawn, StartRefused, Expanded,
       ReadHistory, Started, RunEnds, Settled, Reported, DoneCallback, InLog
  <2>2. QED
    BY <1>1, <1>2, <2>1, Quiet
<1>4. CASE Start(r) \/ Resumed(r)
  <2>1. CASE AppendUser(r)
    <3>1. ~InLog(r) /\ InLog(r)'
      BY <1>1, <1>4, <2>1 DEF Start, Resumed, AppendUser, InLog
    <3>2. thread' = [thread EXCEPT ![sess[r]] = Append(@, User(r))]
      BY <2>1 DEF AppendUser
    <3>3. QED
      BY <1>1, <1>2, <3>1, <3>2, TurnOpens
  <2>2. CASE ~AppendUser(r)
    <3>1. thread' = thread /\ (InLog(r)' <=> InLog(r))
      BY <1>1, <1>4, <2>2 DEF Start, Resumed, InLog
    <3>2. QED
      BY <1>1, <1>2, <3>1, Quiet
  <2>3. QED
    BY <2>1, <2>2
<1>5. CASE Announced(r)
  <2>1. /\ thread' = thread /\ InLog(r)
        /\ pc' = [pc EXCEPT ![r] = "ended"] \/ InLog(r)'
    BY <1>1, <1>5 DEF Announced, ReadHistory, InLog
  <2>2. InLog(r)' \/ ~InLog(r)'
    BY DEF InLog
  <2>3. QED
    BY <1>1, <1>2, <2>1, <2>2, Quiet, TurnClosesSilently
<1>6. CASE RunClosed(r) \/ RunAborted(r)
  <2>1. /\ pc[r] \in {"finishing", "aborting"}
        /\ \E p \in {"settling", "reporting", "ended"} : pc' = [pc EXCEPT ![r] = p]
    BY <1>6 DEF RunClosed, RunAborted, LeaveCancelled
  <2>2. InLog(r) /\ ~InLog(r)'
    BY <1>1, <2>1 DEF InLog
  <2>3. PICK tail \in Tails(r) : thread' = [thread EXCEPT ![sess[r]] = @ \o tail]
    BY <1>6 DEF RunClosed, RunAborted, Tails
  <2>4. QED
    BY <1>1, <1>2, <2>2, <2>3, TurnCloses
<1>7. CASE Cancelled(r)
  <2>1. CASE pc[r] = "running"
    <3>1. thread' = thread /\ (InLog(r)' <=> InLog(r))
      BY <1>1, <1>7, <2>1 DEF Cancelled, InTurn, InLog
    <3>2. QED
      BY <1>1, <1>2, <3>1, Quiet
  <2>2. CASE pc[r] # "running"
    <3>1. thread' = thread /\ ~InLog(r)'
      BY <1>1, <1>7, <2>2 DEF Cancelled, LeaveCancelled, InLog
    <3>2. QED
      BY <1>1, <1>2, <3>1, TurnClosesSilently
  <2>3. QED
    BY <2>1, <2>2
<1>8. QED
  BY <1>3, <1>4, <1>5, <1>6, <1>7 DEF RunStep

LEMMA CommandRefines ==
  ASSUME Inv, Inv', NEW s \in Sessions,
         \/ Create(s) \/ LockStep(s) \/ CancelRun(s) \/ Close(s)
         \/ ForceClose(s) \/ Compact(s)
         \/ \E k \in 0..Len(thread[s]) : Truncate(s, k)
  PROVE  [Abstract!TNext]_(Abstract!tvars)
<1>1. pc' = pc /\ sess' = sess
  BY DEF Create, LockStep, CloseDone, CompactDone, CompactFails, Unlock,
     CancelRun, Close, ForceClose, Compact, Truncate, asked
<1>2. \A q \in Runs : InLog(q)' <=> InLog(q)
  BY <1>1 DEF InLog
<1>3. CASE thread' = thread
  BY <1>1, <1>2, <1>3, Quiet
<1>4. CASE CompactDone(s)
  BY <1>1, <1>4, ThreadRewritten, SessionAssumption DEF CompactDone
<1>5. ASSUME NEW k \in 0..Len(thread[s]), Truncate(s, k)
      PROVE  [Abstract!TNext]_(Abstract!tvars)
  BY <1>1, <1>5, ThreadRewritten, SessionAssumption DEF Truncate
<1>6. QED
  BY <1>3, <1>4, <1>5 DEF Create, LockStep, CloseDone, CompactFails, CancelRun,
     Close, ForceClose, Compact

\* A session, with its lock, its tasks and their cancellation, keeps the
\* promise of SessionThread: one turn after the other, rewritten in between.
THEOREM SessionImplementsThread == Spec => ImplementsThread
<1>1. Init => Abstract!TInit
  <2>1. ASSUME Init, NEW s \in Sessions PROVE TurnOf(s) = NoRun
    BY <2>1, SessionAssumption DEF Init, TurnOf
  <2>2. QED
    BY <2>1 DEF Init, Abstract!TInit
<1>2. ASSUME Inv, Inv', [Next]_vars PROVE [Abstract!TNext]_(Abstract!tvars)
  <2>1. CASE Shutdown \/ UNCHANGED vars
    <3>1. pc' = pc /\ sess' = sess /\ thread' = thread
      BY <2>1 DEF Shutdown, vars, asked
    <3>2. QED
      BY <1>2, <3>1, Quiet DEF InLog
  <2>2. QED
    BY <1>2, <2>1, RunRefines, CommandRefines DEF Next
<1>3. QED
  BY <1>1, <1>2, InvHolds, PTL DEF Spec, ImplementsThread, Abstract!TSpec
=============================================================================
