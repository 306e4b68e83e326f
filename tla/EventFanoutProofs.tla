------------------------- MODULE EventFanoutProofs -------------------------
(***************************************************************************)
(* Proofs about EventFanout, for any number of runs, clients and events:   *)
(* every client and every file gets a run's events in order and none       *)
(* twice, the file of a run tells what its clients were told, and a replay *)
(* that was not suspended misses one event at most.                        *)
(*                                                                         *)
(* The heart of the inductive invariant is Told, about the event in the    *)
(* air: a client the broadcast has passed has got it, or it is the one     *)
(* event m the client is excused for - none (0) for a client that was      *)
(* there from the start, the event in the air at its registration for one  *)
(* that replayed.  StreamInv and FileInv put that event behind the others. *)
(***************************************************************************)
EXTENDS EventFanout, NaturalsInduction, WellFoundedInduction, FiniteSetTheorems, TLAPS

\* The clients of the broadcast that it has not written to.
Coming(r) == {c \in todo[r] : c # First(todo[r])}

Types ==
    /\ \A c \in Clients : ask[c] \in Subscriptions[c]
    /\ conn \in [Clients -> {"open", "stalled", "lost", "closed"}]
    /\ phase \in [Clients -> {"new", "replaying", "done"}]
    /\ subs \in SUBSET Clients
    /\ place \in [Clients -> Nat]
    /\ pc \in [Runs -> {"idle", "between", "draining", "over"}]
    /\ last \in [Runs -> Nat]
    /\ todo \in [Runs -> SUBSET Clients]
    /\ dead \in [Runs -> SUBSET Clients]
    /\ open \in SUBSET Runs
    /\ early \in [Clients -> SUBSET Runs]
    /\ waited \in SUBSET Clients
    /\ cancelled \in SUBSET Runs

Logs ==
    /\ stream \in [Clients -> [Runs -> Seq(Nat)]]
    /\ file \in [Runs -> [Runs -> Seq(Nat)]]

\* Where a run stands, which event it is at and whether its file is open.
RunInv(r) ==
    /\ pc[r] = "draining" <=> todo[r] # {}
    /\ pc[r] = "idle" <=> last[r] = 0
    /\ pc[r] = "between" => last[r] < LastEvent[r]
    /\ last[r] <= LastEvent[r] + 1
    /\ r \in open => pc[r] \in {"between", "draining"} /\ last[r] \in 1..LastEvent[r]
    /\ pc[r] \in {"between", "draining"} /\ r \notin cancelled => r \in open

\* Who is subscribed: everybody whose event.subscribe is over, but for those
\* who are gone.  Only they are in a broadcast.
ClientInv(c) ==
    /\ c \in subs => phase[c] = "done"
    /\ \A r \in Runs : c \in todo[r] => phase[c] = "done"
    /\ phase[c] = "done" /\ ~Gone(c) => c \in subs
    /\ phase[c] = "new" => stream[c] = EmptyLog
    /\ phase[c] # "done" => early[c] = {}
    /\ phase[c] = "replaying" /\ ~Gone(c) => c \in waited
    /\ \A r \in Runs : c \in dead[r] => Gone(c)

\* A log's events of one run: in order, none twice, none above n.
Rising(s, n) ==
    /\ \A i \in 1..Len(s) : 1 <= s[i] /\ s[i] <= n
    /\ \A i, j \in 1..Len(s) : i < j => s[i] < s[j]

\* The event a run publishes is in no file yet, and not with those the
\* broadcast has not reached.
StreamInv(c, r) ==
    Rising(stream[c][r], IF c \in Coming(r) THEN last[r] - 1 ELSE last[r])
FileInv(q, r) ==
    Rising(file[q][r], IF pc[r] = "draining" THEN last[r] - 1 ELSE last[r])

\* What the file of r tells, a client got, but for the event m; and so it will
\* be when the event in the air is written to the file.
Told(c, r, m) ==
    /\ InFile(r) \subseteq Seen(c, r) \cup {m}
    /\ pc[r] = "draining" => c \in Coming(r) \/ last[r] \in Seen(c, r) \cup {m}

\* A client that follows a run misses nothing (0 is no event), and of a run
\* that was not cancelled it got nothing else but the event in the air.
FollowInv(c, r) ==
    Follows(c, r) /\ pc[r] # "idle" =>
        /\ Told(c, r, 0)
        /\ r \notin cancelled =>
              Seen(c, r) \subseteq InFile(r) \cup (IF pc[r] = "draining" THEN {last[r]} ELSE {})

\* The clients ReplayMissesOneAtMost is about.
Caught(c) ==
    LET r == ask[c].replay IN
    phase[c] = "done" /\ r # NoRun /\ c \notin waited /\ Matches(c, r) /\ ~Gone(c)

ReplayInv(c) ==
    Caught(c) => LET r == ask[c].replay IN \E m \in 0..(LastEvent[r] + 1) : Told(c, r, m)

IInv ==
    /\ Types /\ Logs
    /\ \A r \in Runs : RunInv(r)
    /\ \A c \in Clients : ClientInv(c) /\ ReplayInv(c)
    /\ \A c \in Clients, r \in Runs : StreamInv(c, r) /\ FollowInv(c, r)
    /\ \A q, r \in Runs : FileInv(q, r)

-----------------------------------------------------------------------------
(***************************************************************************)
(* Logs.                                                                   *)
(***************************************************************************)
LEMMA RisingUp ==
    ASSUME NEW s \in Seq(Nat), NEW m \in Int, NEW n \in Int, m <= n, Rising(s, m)
    PROVE  Rising(s, n)
  BY DEF Rising

LEMMA RisingAppend ==
    ASSUME NEW s \in Seq(Nat), NEW m \in Int, NEW n \in Nat \ {0}, m < n, Rising(s, m)
    PROVE  Rising(Append(s, n), n)
<1> DEFINE t == Append(s, n)
<1>1. Len(s) \in Nat /\ Len(t) = Len(s) + 1 /\ t[Len(s) + 1] = n
      /\ \A i \in 1..Len(s) : t[i] = s[i] /\ s[i] \in Nat
  OBVIOUS
<1> HIDE DEF t
<1>2. \A i \in 1..Len(t) : 1 <= t[i] /\ t[i] <= n
  <2> SUFFICES ASSUME NEW i \in 1..Len(t) PROVE 1 <= t[i] /\ t[i] <= n
    OBVIOUS
  <2>1. CASE i \in 1..Len(s)
    BY <1>1, <2>1 DEF Rising
  <2>2. CASE i = Len(s) + 1
    BY <1>1, <2>2
  <2> QED
    BY <1>1, <2>1, <2>2
<1>3. \A i, j \in 1..Len(t) : i < j => t[i] < t[j]
  <2> SUFFICES ASSUME NEW i \in 1..Len(t), NEW j \in 1..Len(t), i < j PROVE t[i] < t[j]
    OBVIOUS
  <2>1. i \in 1..Len(s) /\ t[i] = s[i] /\ s[i] <= m /\ s[i] \in Nat
    BY <1>1 DEF Rising
  <2>2. CASE j \in 1..Len(s)
    BY <1>1, <2>1, <2>2 DEF Rising
  <2>3. CASE j = Len(s) + 1
    BY <1>1, <2>1, <2>3
  <2> QED
    BY <1>1, <2>2, <2>3
<1> QED
  BY <1>2, <1>3 DEF Rising, t

LEMMA RisingSet ==
    ASSUME NEW s \in Seq(Nat), NEW n \in Int, Rising(s, n)
    PROVE  \A k \in ToSet(s) : k \in Nat /\ 1 <= k /\ k <= n
  BY DEF Rising, ToSet

LEMMA SetAppend ==
    ASSUME NEW s \in Seq(Nat), NEW n \in Nat
    PROVE  ToSet(Append(s, n)) = ToSet(s) \cup {n}
<1> DEFINE t == Append(s, n)
<1>1. Len(s) \in Nat /\ Len(t) = Len(s) + 1 /\ t[Len(s) + 1] = n
      /\ (\A i \in 1..Len(s) : t[i] = s[i])
      /\ DOMAIN t = 1..Len(t) /\ DOMAIN s = 1..Len(s)
  OBVIOUS
<1> HIDE DEF t
<1>2. ASSUME NEW k \in ToSet(t) PROVE k \in ToSet(s) \cup {n}
  BY <1>1, <1>2 DEF ToSet
<1>3. ASSUME NEW k \in ToSet(s) PROVE k \in ToSet(t)
  BY <1>1, <1>3 DEF ToSet
<1>4. n \in ToSet(t)
  <2>1. Len(t) \in DOMAIN t /\ t[Len(t)] = n
    BY <1>1
  <2> QED
    BY <2>1 DEF ToSet
<1> QED
  BY <1>2, <1>3, <1>4 DEF t

\* The first of some clients is one of them.
LEMMA FirstIsIn ==
    ASSUME place \in [Clients -> Nat], NEW S \in SUBSET Clients, S # {}
    PROVE  First(S) \in S
<1> DEFINE T == {place[c] : c \in S}
           R == OpToRel(<, Nat)
<1>1. T \subseteq Nat /\ T # {}
  OBVIOUS
<1>2. \A x, y \in Nat : <<x, y>> \in R <=> x < y
  BY DEF OpToRel
<1>3. PICK x \in T : \A y \in T : ~(<<y, x>> \in R)
  <2> HIDE DEF T
  <2> QED
    BY <1>1, NatLessThanWellFounded, WFMin
<1>4. x \in Nat /\ \A y \in T : y \in Nat /\ ~(<<y, x>> \in R)
  BY <1>1, <1>3
<1> HIDE DEF R
<1>5. \A y \in T : ~(y < x)
  BY <1>2, <1>4, Zenon
<1>6. \A y \in T : x <= y
  BY <1>4, <1>5
<1>7. PICK c \in S : place[c] = x
  BY <1>3
<1>8. c \in Earliest(S)
  BY <1>6, <1>7 DEF Earliest
<1>9. First(S) \in Earliest(S)
  BY <1>8 DEF First
<1> QED
  BY <1>9 DEF Earliest

-----------------------------------------------------------------------------
(***************************************************************************)
(* What a step of run r writes: event n to the clients S that are there,   *)
(* and to the files W.                                                     *)
(***************************************************************************)
Wrote(r, n, S) ==
    /\ stream' \in [Clients -> [Runs -> Seq(Nat)]]
    /\ \A c \in Clients, q \in Runs :
          stream'[c][q] = IF q = r /\ c \in S /\ ~Gone(c) THEN Append(stream[c][q], n)
                          ELSE stream[c][q]
Filed(r, n, W) ==
    /\ file' \in [Runs -> [Runs -> Seq(Nat)]]
    /\ \A q, p \in Runs :
          file'[q][p] = IF p = r /\ q \in W THEN Append(file[q][p], n) ELSE file[q][p]

LEMMA AddedIs ==
    ASSUME NEW log \in [Runs -> Seq(Nat)], NEW r \in Runs, NEW n \in Nat
    PROVE  /\ Added(log, r, n) \in [Runs -> Seq(Nat)]
           /\ \A q \in Runs : Added(log, r, n)[q] = IF q = r THEN Append(log[q], n) ELSE log[q]
  BY DEF Added

LEMMA WriteToWrote ==
    ASSUME Logs, NEW r \in Runs, NEW n \in Nat, NEW d \in Clients, WriteTo(d, r, n)
    PROVE  Wrote(r, n, {d})
<1>1. stream \in [Clients -> [Runs -> Seq(Nat)]]
  BY DEF Logs
<1>2. CASE Gone(d)
  BY <1>1, <1>2 DEF WriteTo, Wrote
<1>3. CASE ~Gone(d)
  <2> DEFINE log == Added(stream[d], r, n)
  <2>1. log \in [Runs -> Seq(Nat)]
        /\ \A q \in Runs : log[q] = IF q = r THEN Append(stream[d][q], n) ELSE stream[d][q]
    BY <1>1, AddedIs
  <2>2. stream' = [stream EXCEPT ![d] = log]
    BY <1>3 DEF WriteTo
  <2> HIDE DEF log
  <2> QED
    BY <1>1, <1>3, <2>1, <2>2 DEF Wrote
<1> QED
  BY <1>2, <1>3

LEMMA NothingWrote ==
    ASSUME Logs, NEW r \in Runs, NEW n, UNCHANGED stream PROVE Wrote(r, n, {})
  BY DEF Logs, Wrote

LEMMA RecordFiled ==
    ASSUME Logs, NEW r \in Runs, NEW n \in Nat, NEW W \in SUBSET Runs, Record(r, n, W)
    PROVE  Filed(r, n, W)
<1>1. file \in [Runs -> [Runs -> Seq(Nat)]]
  BY DEF Logs
<1>2. \A q \in Runs : Added(file[q], r, n) \in [Runs -> Seq(Nat)]
        /\ \A p \in Runs : Added(file[q], r, n)[p]
              = IF p = r THEN Append(file[q][p], n) ELSE file[q][p]
  BY <1>1, AddedIs
<1>3. file' = [q \in Runs |-> IF q \in W THEN Added(file[q], r, n) ELSE file[q]]
  BY DEF Record
<1>4. file' \in [Runs -> [Runs -> Seq(Nat)]]
  BY <1>1, <1>2, <1>3
<1>5. \A q, p \in Runs :
        file'[q][p] = IF p = r /\ q \in W THEN Append(file[q][p], n) ELSE file[q][p]
  BY <1>2, <1>3
<1> QED
  BY <1>4, <1>5 DEF Filed

LEMMA NothingFiled ==
    ASSUME Logs, NEW r \in Runs, NEW n, UNCHANGED file PROVE Filed(r, n, {})
  BY DEF Logs, Filed

-----------------------------------------------------------------------------
(***************************************************************************)
(* A step of run r leaves the others and the clients be.                   *)
(***************************************************************************)
RunMoves(r, n, S, W) ==
    /\ UNCHANGED clients
    /\ n \in Nat
    /\ Wrote(r, n, S) /\ Filed(r, n, W)
    /\ S \subseteq Clients /\ \A c \in S : phase[c] = "done"
    /\ W \subseteq Runs
    /\ \E p \in {"idle", "between", "draining", "over"} : pc' = [pc EXCEPT ![r] = p]
    /\ last' = [last EXCEPT ![r] = n]
    /\ \E T \in SUBSET Clients :
          /\ todo' = [todo EXCEPT ![r] = T]
          /\ \A c \in T : phase[c] = "done"
    /\ \E D \in SUBSET Clients :
          /\ dead' = [dead EXCEPT ![r] = D]
          /\ \A c \in D : Gone(c)
    /\ subs' \subseteq subs /\ \A c \in subs \ subs' : Gone(c)
    /\ open' \subseteq Runs /\ \A q \in Runs \ {r} : q \in open' <=> q \in open
    /\ cancelled' \subseteq Runs
    /\ \A q \in Runs \ {r} : q \in cancelled' <=> q \in cancelled

LEMMA RunTypes ==
    ASSUME IInv, NEW r \in Runs, NEW n, NEW S, NEW W, RunMoves(r, n, S, W)
    PROVE  Types' /\ Logs'
<1>1. Types
  BY DEF IInv
<1>2. Logs'
  BY DEF RunMoves, Wrote, Filed, Logs
<1>3. UNCHANGED <<ask, conn, phase, place, early, waited>>
  BY DEF RunMoves, clients
<1> QED
  BY <1>1, <1>2, <1>3 DEF RunMoves, Types

LEMMA RunClients ==
    ASSUME IInv, NEW r \in Runs, NEW n, NEW S, NEW W, RunMoves(r, n, S, W),
           NEW c \in Clients
    PROVE  ClientInv(c)'
<1>1. ClientInv(c) /\ Types /\ Logs
  BY DEF IInv
<1>2. UNCHANGED <<ask, conn, phase, place, early, waited>>
  BY DEF RunMoves, clients
<1>3. Gone(c)' <=> Gone(c)
  BY <1>2 DEF Gone
<1>4. \A q \in Runs : c \in todo'[q] => phase[c] = "done"
  BY <1>1 DEF RunMoves, ClientInv, Types
<1>5. \A q \in Runs : c \in dead'[q] => Gone(c)
  BY <1>1 DEF RunMoves, ClientInv, Types
<1>6. phase[c] = "new" => stream'[c] = EmptyLog
  <2> SUFFICES ASSUME phase[c] = "new" PROVE stream'[c] = EmptyLog
    OBVIOUS
  <2>1. \A q \in Runs : stream'[c][q] = stream[c][q]
    BY DEF RunMoves, Wrote
  <2>2. stream[c] \in [Runs -> Seq(Nat)] /\ stream'[c] \in [Runs -> Seq(Nat)]
    BY <1>1 DEF RunMoves, Wrote, Logs
  <2>3. stream'[c] = stream[c]
    BY <2>1, <2>2
  <2> QED
    BY <1>1, <2>3 DEF ClientInv
<1>7. (c \in subs' => c \in subs) /\ (~Gone(c) /\ c \in subs => c \in subs')
  BY DEF RunMoves
<1> QED
  BY <1>1, <1>2, <1>3, <1>4, <1>5, <1>6, <1>7 DEF ClientInv

\* The first client of a broadcast under way stays the first.
LEMMA ComingSame ==
    ASSUME NEW q \in Runs, todo'[q] = todo[q], \A d \in todo[q] : place'[d] = place[d]
    PROVE  Coming(q)' = Coming(q)
<1>1. Earliest(todo[q])' = Earliest(todo[q])
  BY DEF Earliest
<1>2. First(todo[q])' = First(todo[q])
  BY <1>1 DEF First
<1> QED
  BY <1>2 DEF Coming

\* What is told of a run, as the variables have it.
LEMMA SameTold ==
    ASSUME NEW c \in Clients, NEW q \in Runs,
           stream'[c][q] = stream[c][q], file'[q][q] = file[q][q],
           pc'[q] = pc[q], last'[q] = last[q], Coming(q)' = Coming(q)
    PROVE  /\ Seen(c, q)' = Seen(c, q) /\ InFile(q)' = InFile(q)
           /\ \A m : Told(c, q, m)' <=> Told(c, q, m)
<1>1. Seen(c, q)' = Seen(c, q) /\ InFile(q)' = InFile(q)
  BY DEF Seen, InFile
<1> QED
  BY <1>1 DEF Told

LEMMA RunOthers ==
    ASSUME IInv, NEW r \in Runs, NEW n, NEW S, NEW W, RunMoves(r, n, S, W),
           NEW q \in Runs, q # r
    PROVE  /\ RunInv(q)'
           /\ \A c \in Clients : StreamInv(c, q)' /\ FollowInv(c, q)'
                                 /\ (ask[c].replay = q => ReplayInv(c)')
           /\ \A p \in Runs : FileInv(p, q)'
<1>1. /\ pc'[q] = pc[q] /\ last'[q] = last[q] /\ todo'[q] = todo[q]
      /\ UNCHANGED <<ask, conn, phase, place, early, waited>>
      /\ (q \in open' <=> q \in open) /\ (q \in cancelled' <=> q \in cancelled)
  BY DEF RunMoves, clients, IInv, Types
<1>2. /\ \A c \in Clients : stream'[c][q] = stream[c][q]
      /\ \A p \in Runs : file'[p][q] = file[p][q]
  BY DEF RunMoves, Wrote, Filed
<1>3. Coming(q)' = Coming(q)
  BY <1>1, ComingSame
<1>4. RunInv(q)'
  BY <1>1 DEF IInv, RunInv
<1>5. ASSUME NEW c \in Clients
      PROVE  StreamInv(c, q)' /\ FollowInv(c, q)' /\ (ask[c].replay = q => ReplayInv(c)')
  <2>1. /\ Seen(c, q)' = Seen(c, q) /\ InFile(q)' = InFile(q)
        /\ \A m : Told(c, q, m)' <=> Told(c, q, m)
    BY <1>1, <1>2, <1>3, SameTold
  <2>2. StreamInv(c, q)'
    BY <1>1, <1>2, <1>3 DEF IInv, StreamInv, Rising
  <2>3. Follows(c, q)' <=> Follows(c, q)
    BY <1>1 DEF Follows, Gone, Matches
  <2>4. FollowInv(c, q)'
    BY <1>1, <2>1, <2>3 DEF IInv, FollowInv
  <2>5. Caught(c)' <=> Caught(c)
    BY <1>1 DEF Caught, Gone, Matches
  <2>6. ask[c].replay = q => ReplayInv(c)'
    BY <1>1, <2>1, <2>5 DEF IInv, ReplayInv
  <2> QED
    BY <2>2, <2>4, <2>6
<1>6. \A p \in Runs : FileInv(p, q)'
  BY <1>1, <1>2 DEF IInv, FileInv, Rising
<1> QED
  BY <1>4, <1>5, <1>6

-----------------------------------------------------------------------------
(***************************************************************************)
(* A publication, up to its first drain or to its end.                     *)
(***************************************************************************)
Listed(r) == {c \in subs : Matches(c, r)}

Publishes(r, n, writing) ==
    /\ Publish(r, n, writing)
    /\ UNCHANGED <<clients, subs>>
    /\ n \in Nat /\ last[r] < n /\ n <= LastEvent[r] + 1
    /\ writing \subseteq Runs
    /\ \A q \in Runs \ {r} : q \in writing <=> q \in open
    /\ r \in writing => n \in 1..LastEvent[r]
    /\ cancelled' \subseteq Runs /\ cancelled \subseteq cancelled'
    /\ \A q \in Runs \ {r} : q \in cancelled' <=> q \in cancelled
    /\ r \notin cancelled' => r \in writing

\* To nobody: the event goes to the files at once.
LEMMA PublishToNobody ==
    ASSUME IInv, NEW r \in Runs, NEW n, NEW W, Publishes(r, n, W), Listed(r) = {}
    PROVE  /\ RunMoves(r, n, {}, W)
           /\ todo'[r] = {}
           /\ pc'[r] = IF n >= LastEvent[r] THEN "over" ELSE "between"
           /\ open' = IF n >= LastEvent[r] THEN W \ {r} ELSE W
<1>1. Types /\ Logs
  BY DEF IInv
<1>2. Record(r, n, W) /\ UNCHANGED stream
  BY DEF Publishes, Publish, Listed
<1>3. Filed(r, n, W) /\ Wrote(r, n, {})
  BY <1>1, <1>2, RecordFiled, NothingWrote DEF Publishes
<1>4. /\ last' = [last EXCEPT ![r] = n] /\ dead' = [dead EXCEPT ![r] = {}]
      /\ todo' = [todo EXCEPT ![r] = {}]
  BY DEF Publishes, Publish, Listed
<1>5. /\ pc' = [pc EXCEPT ![r] = IF n >= LastEvent[r] THEN "over" ELSE "between"]
      /\ open' = IF n >= LastEvent[r] THEN W \ {r} ELSE W
  BY <1>2 DEF Record
<1>6. \E D \in SUBSET Clients : dead' = [dead EXCEPT ![r] = D] /\ \A c \in D : Gone(c)
  BY <1>4
<1>7. \E T \in SUBSET Clients : todo' = [todo EXCEPT ![r] = T] /\ \A c \in T : phase[c] = "done"
  BY <1>4
<1>8. \E p \in {"idle", "between", "draining", "over"} : pc' = [pc EXCEPT ![r] = p]
  BY <1>5
<1>9. open' \subseteq Runs /\ \A q \in Runs \ {r} : q \in open' <=> q \in open
  BY <1>5 DEF Publishes
<1>10. RunMoves(r, n, {}, W)
  BY <1>3, <1>4, <1>6, <1>7, <1>8, <1>9 DEF RunMoves, Publishes
<1> QED
  BY <1>1, <1>4, <1>5, <1>10 DEF Types

\* To somebody: the first is written to.
LEMMA PublishToSome ==
    ASSUME IInv, NEW r \in Runs, NEW n, NEW W, Publishes(r, n, W), Listed(r) # {}
    PROVE  /\ First(Listed(r)) \in Listed(r)
           /\ RunMoves(r, n, {First(Listed(r))}, {})
           /\ todo'[r] = Listed(r)
           /\ Coming(r)' = Listed(r) \ {First(Listed(r))}
           /\ pc'[r] = "draining"
           /\ open' = W
<1> DEFINE L == Listed(r)
<1>1. Types /\ Logs
  BY DEF IInv
<1>2. L \subseteq Clients /\ First(L) \in L
  BY <1>1, FirstIsIn DEF Types, Listed
<1>3. /\ WriteTo(First(L), r, n) /\ UNCHANGED file
      /\ pc' = [pc EXCEPT ![r] = "draining"] /\ open' = W
      /\ last' = [last EXCEPT ![r] = n] /\ dead' = [dead EXCEPT ![r] = {}]
      /\ todo' = [todo EXCEPT ![r] = L]
  BY DEF Publishes, Publish, Listed
<1>4. \A c \in L : phase[c] = "done" /\ c \in Clients
  BY <1>1 DEF Listed, IInv, ClientInv, Types
<1> HIDE DEF L
<1>5. Wrote(r, n, {First(L)}) /\ Filed(r, n, {})
  <2>1. n \in Nat /\ First(L) \in Clients
    BY <1>2 DEF Publishes
  <2> QED
    BY <1>1, <1>3, <2>1, WriteToWrote, NothingFiled
<1>6. \E D \in SUBSET Clients : dead' = [dead EXCEPT ![r] = D] /\ \A c \in D : Gone(c)
  <2>1. dead' = [dead EXCEPT ![r] = {}]
    BY <1>3
  <2>2. {} \in SUBSET Clients /\ \A c \in {} : Gone(c)
    OBVIOUS
  <2> WITNESS {} \in SUBSET Clients
  <2> QED
    BY <2>1, <2>2
<1>7. \E T \in SUBSET Clients : todo' = [todo EXCEPT ![r] = T] /\ \A c \in T : phase[c] = "done"
  BY <1>2, <1>3, <1>4
<1>8. \E p \in {"idle", "between", "draining", "over"} : pc' = [pc EXCEPT ![r] = p]
  BY <1>3
<1>9. open' \subseteq Runs /\ \A q \in Runs \ {r} : q \in open' <=> q \in open
  BY <1>3 DEF Publishes
<1>10. RunMoves(r, n, {First(L)}, {})
  BY <1>2, <1>3, <1>4, <1>5, <1>6, <1>7, <1>8, <1>9 DEF RunMoves, Publishes
<1>11. todo'[r] = L /\ pc'[r] = "draining"
  BY <1>1, <1>3 DEF Types
<1>12. Coming(r)' = L \ {First(L)}
  <2>1. place' = place
    BY DEF Publishes, clients
  <2>2. Earliest(todo[r])' = Earliest(L)
    BY <1>11, <2>1 DEF Earliest
  <2>3. First(todo[r])' = First(L)
    BY <2>2 DEF First
  <2> QED
    BY <1>11, <2>3 DEF Coming
<1> QED
  BY <1>2, <1>3, <1>10, <1>11, <1>12 DEF L

\* In both cases the run's own part of the invariant is kept.
LEMMA PublishRun ==
    ASSUME IInv, NEW r \in Runs, NEW n, NEW W, Publishes(r, n, W)
    PROVE  RunInv(r)'
<1>1. /\ last'[r] = n /\ n \in Nat /\ LastEvent[r] \in Nat /\ LastEvent[r] >= 2
      /\ last[r] \in Nat
  BY FanoutAssumption DEF Publishes, Publish, IInv, Types
<1>2. CASE Listed(r) = {}
  <2>1. /\ todo'[r] = {}
        /\ pc'[r] = IF n >= LastEvent[r] THEN "over" ELSE "between"
        /\ open' = IF n >= LastEvent[r] THEN W \ {r} ELSE W
    BY <1>2, PublishToNobody
  <2>2. /\ last[r] < n /\ n <= LastEvent[r] + 1
        /\ r \in W => n \in 1..LastEvent[r]
        /\ r \notin cancelled' => r \in W
    BY DEF Publishes
  <2>3. CASE n >= LastEvent[r]
    BY <1>1, <2>1, <2>2, <2>3 DEF RunInv
  <2>4. CASE ~(n >= LastEvent[r])
    BY <1>1, <2>1, <2>2, <2>4 DEF RunInv
  <2> QED
    BY <2>3, <2>4
<1>3. CASE Listed(r) # {}
  <2>1. todo'[r] = Listed(r) /\ pc'[r] = "draining" /\ open' = W
    BY <1>3, PublishToSome
  <2>2. /\ last[r] < n /\ n <= LastEvent[r] + 1
        /\ r \in W => n \in 1..LastEvent[r]
        /\ r \notin cancelled' => r \in W
    BY DEF Publishes
  <2> QED
    BY <1>1, <1>3, <2>1, <2>2 DEF RunInv
<1> QED
  BY <1>2, <1>3

LEMMA PublishLogs ==
    ASSUME IInv, NEW r \in Runs, NEW n, NEW W, Publishes(r, n, W)
    PROVE  /\ \A c \in Clients : StreamInv(c, r)'
           /\ \A q \in Runs : FileInv(q, r)'
<1>1. /\ last'[r] = n /\ n \in Nat \ {0} /\ last[r] \in Nat /\ last[r] <= n - 1
      /\ pc[r] = "draining" => last[r] - 1 \in Int
  BY DEF Publishes, Publish, IInv, Types
<1>2. /\ stream \in [Clients -> [Runs -> Seq(Nat)]] /\ file \in [Runs -> [Runs -> Seq(Nat)]]
  BY DEF IInv, Logs
<1>3. ASSUME NEW c \in Clients PROVE Rising(stream[c][r], n - 1)
  <2>1. \E m \in Int : m <= n - 1 /\ Rising(stream[c][r], m)
    BY <1>1 DEF IInv, StreamInv
  <2> QED
    BY <1>1, <1>2, <2>1, RisingUp
<1>4. ASSUME NEW q \in Runs PROVE Rising(file[q][r], n - 1)
  <2>1. \E m \in Int : m <= n - 1 /\ Rising(file[q][r], m)
    BY <1>1 DEF IInv, FileInv
  <2> QED
    BY <1>1, <1>2, <2>1, RisingUp
<1>5. ASSUME NEW s \in Seq(Nat), Rising(s, n - 1)
      PROVE  Rising(s, n) /\ Rising(Append(s, n), n)
  BY <1>1, <1>5, RisingUp, RisingAppend
<1>6. CASE Listed(r) = {}
  <2>1. Wrote(r, n, {}) /\ Filed(r, n, W) /\ todo'[r] = {} /\ pc'[r] # "draining"
    BY <1>6, PublishToNobody DEF RunMoves
  <2>2. \A c \in Clients : stream'[c][r] = stream[c][r]
    BY <2>1 DEF Wrote
  <2>3. \A c \in Clients : c \notin Coming(r)'
    BY <2>1 DEF Coming
  <2>4. \A q \in Runs : file'[q][r] \in {file[q][r], Append(file[q][r], n)}
    BY <2>1 DEF Filed
  <2>5. \A c \in Clients : StreamInv(c, r)'
    BY <1>1, <1>2, <1>3, <1>5, <2>2, <2>3 DEF StreamInv
  <2>6. \A q \in Runs : FileInv(q, r)'
    BY <1>1, <1>2, <1>4, <1>5, <2>1, <2>4 DEF FileInv
  <2> QED
    BY <2>5, <2>6
<1>7. CASE Listed(r) # {}
  <2> DEFINE f == First(Listed(r))
  <2>1. /\ Wrote(r, n, {f}) /\ Filed(r, n, {}) /\ pc'[r] = "draining"
        /\ f \notin Coming(r)'
    BY <1>7, PublishToSome DEF RunMoves
  <2> HIDE DEF f
  <2>2. \A c \in Clients : /\ stream'[c][r] \in {stream[c][r], Append(stream[c][r], n)}
                           /\ c # f => stream'[c][r] = stream[c][r]
    BY <2>1 DEF Wrote
  <2>3. \A q \in Runs : file'[q][r] = file[q][r]
    BY <2>1 DEF Filed
  <2>4. ASSUME NEW c \in Clients PROVE StreamInv(c, r)'
    <3>1. CASE c = f
      BY <1>1, <1>2, <1>3, <1>5, <2>1, <2>2, <3>1 DEF StreamInv
    <3>2. CASE c # f
      BY <1>1, <1>2, <1>3, <1>5, <2>2, <3>2 DEF StreamInv
    <3> QED
      BY <3>1, <3>2
  <2>5. \A q \in Runs : FileInv(q, r)'
    BY <1>1, <1>4, <2>1, <2>3 DEF FileInv
  <2> QED
    BY <2>4, <2>5
<1> QED
  BY <1>6, <1>7

\* Who is subscribed to the run is told of the event.
LEMMA PublishTold ==
    ASSUME IInv, NEW r \in Runs, NEW n, NEW W, Publishes(r, n, W),
           NEW c \in Clients, c \in Listed(r), ~Gone(c)
    PROVE  /\ pc'[r] = "draining" /\ last'[r] = n
           /\ InFile(r)' = InFile(r)
           /\ Seen(c, r) \subseteq Seen(c, r)' /\ Seen(c, r)' \subseteq Seen(c, r) \cup {n}
           /\ \A m : Told(c, r, m) => Told(c, r, m)'
<1> DEFINE f == First(Listed(r))
<1>1. /\ Wrote(r, n, {f}) /\ Filed(r, n, {}) /\ pc'[r] = "draining"
      /\ Coming(r)' = Listed(r) \ {f}
  BY PublishToSome DEF RunMoves
<1>2. last'[r] = n /\ n \in Nat
  BY DEF Publishes, Publish, IInv, Types
<1>3. stream[c][r] \in Seq(Nat)
  BY DEF IInv, Logs
<1> HIDE DEF f
<1>4. InFile(r)' = InFile(r)
  BY <1>1 DEF Filed, InFile
<1>5. c = f => Seen(c, r)' = Seen(c, r) \cup {n}
  BY <1>1, <1>2, <1>3, SetAppend DEF Wrote, Seen
<1>6. c # f => Seen(c, r)' = Seen(c, r)
  BY <1>1 DEF Wrote, Seen
<1> QED
  BY <1>1, <1>2, <1>4, <1>5, <1>6 DEF Told

\* Before it began nothing is told of a run.
LEMMA IdleTold ==
    ASSUME IInv, NEW r \in Runs, pc[r] = "idle", NEW c \in Clients
    PROVE  Told(c, r, 0) /\ Seen(c, r) = {}
<1>1. last[r] = 0 /\ todo[r] = {}
  BY DEF IInv, RunInv
<1>2. Rising(file[r][r], 0) /\ Rising(stream[c][r], 0)
  BY <1>1 DEF IInv, FileInv, StreamInv, Coming
<1>3. InFile(r) = {} /\ Seen(c, r) = {}
  BY <1>2, RisingSet DEF InFile, Seen, IInv, Logs
<1> QED
  BY <1>3 DEF Told

KeepsTold(c, r) ==
    c \in subs /\ Matches(c, r) /\ ~Gone(c) => \A m : Told(c, r, m) => Told(c, r, m)'

\* What stays of the replay of r when r moves.
LEMMA ReplayKept ==
    ASSUME IInv, NEW r \in Runs, NEW n, NEW S, NEW W, RunMoves(r, n, S, W),
           NEW c \in Clients, ask[c].replay = r, KeepsTold(c, r)
    PROVE  ReplayInv(c)'
<1>1. UNCHANGED <<ask, conn, phase, place, early, waited>>
  BY DEF RunMoves, clients
<1>2. Caught(c)' <=> Caught(c)
  BY <1>1 DEF Caught, Gone, Matches
<1>3. Caught(c) => c \in subs /\ Matches(c, r) /\ ~Gone(c)
  BY DEF Caught, IInv, ClientInv
<1> QED
  BY <1>1, <1>2, <1>3 DEF IInv, ReplayInv, KeepsTold

\* A step of a run, from what it does to the run itself.
LEMMA RunStepInv ==
    ASSUME IInv, NEW r \in Runs, NEW n, NEW S, NEW W, RunMoves(r, n, S, W),
           RunInv(r)',
           \A c \in Clients : StreamInv(c, r)' /\ FollowInv(c, r)' /\ KeepsTold(c, r),
           \A q \in Runs : FileInv(q, r)'
    PROVE  IInv'
<1>1. Types' /\ Logs'
  BY RunTypes
<1>2. \A q \in Runs : RunInv(q)'
  BY RunOthers
<1>3. \A c \in Clients, q \in Runs : StreamInv(c, q)' /\ FollowInv(c, q)'
  BY RunOthers
<1>4. \A p, q \in Runs : FileInv(p, q)'
  BY RunOthers
<1>5. ASSUME NEW c \in Clients PROVE ClientInv(c)' /\ ReplayInv(c)'
  <2>1. ClientInv(c)'
    BY RunClients
  <2>2. CASE ask[c].replay = r
    BY <2>1, <2>2, ReplayKept
  <2>3. CASE ask[c].replay \in Runs \ {r}
    BY <2>1, <2>3, RunOthers
  <2>4. CASE ask[c].replay = NoRun
    <3>1. ~Caught(c)'
      BY <2>4 DEF RunMoves, clients, Caught
    <3> QED
      BY <2>1, <3>1 DEF ReplayInv
  <2>5. ask[c].replay \in Runs \cup {NoRun}
    BY FanoutAssumption DEF IInv, Types
  <2> QED
    BY <2>1, <2>2, <2>3, <2>4, <2>5
<1> QED
  BY <1>1, <1>2, <1>3, <1>4, <1>5 DEF IInv

LEMMA FollowersListed ==
    ASSUME IInv, NEW r \in Runs, NEW c \in Clients, Follows(c, r)
    PROVE  c \in subs /\ c \in Listed(r) /\ ~Gone(c)
<1>1. phase[c] = "done"
  BY DEF IInv, ClientInv, Follows
<1> QED
  BY <1>1 DEF IInv, ClientInv, Follows, Listed

LEMMA PublishFollow ==
    ASSUME IInv, NEW r \in Runs, NEW n, NEW W, Publishes(r, n, W),
           pc[r] # "draining" \/ r \in cancelled', NEW c \in Clients
    PROVE  FollowInv(c, r)'
<1>1. UNCHANGED <<ask, conn, phase, place, early, waited>>
  BY DEF Publishes, clients
<1>2. Follows(c, r)' <=> Follows(c, r)
  BY <1>1 DEF Follows, Gone, Matches
<1>3. CASE Follows(c, r)
  <2>1. c \in Listed(r) /\ ~Gone(c)
    BY <1>3, FollowersListed
  <2>2. /\ pc'[r] = "draining" /\ last'[r] = n
        /\ InFile(r)' = InFile(r)
        /\ Seen(c, r)' \subseteq Seen(c, r) \cup {n}
        /\ Told(c, r, 0) => Told(c, r, 0)'
    BY <2>1, PublishTold
  <2>3. Told(c, r, 0)
    BY <1>3, IdleTold DEF IInv, FollowInv
  <2>4. r \notin cancelled' => Seen(c, r) \subseteq InFile(r)
    <3>1. CASE pc[r] = "idle"
      BY <3>1, IdleTold
    <3>2. CASE pc[r] # "idle"
      BY <1>3, <3>2 DEF IInv, FollowInv, Publishes
    <3> QED
      BY <3>1, <3>2
  <2> QED
    BY <2>2, <2>3, <2>4 DEF FollowInv
<1> QED
  BY <1>2, <1>3 DEF FollowInv

LEMMA PublishInv ==
    ASSUME IInv, NEW r \in Runs, NEW n, NEW W, Publishes(r, n, W),
           pc[r] # "draining" \/ r \in cancelled'
    PROVE  IInv'
<1>1. PICK S, V : RunMoves(r, n, S, V)
  BY PublishToNobody, PublishToSome
<1>2. ASSUME NEW c \in Clients PROVE KeepsTold(c, r)
  BY PublishTold DEF Listed, KeepsTold
<1>3. RunInv(r)' /\ \A q \in Runs : FileInv(q, r)'
  BY PublishRun, PublishLogs
<1>4. \A c \in Clients : StreamInv(c, r)' /\ FollowInv(c, r)'
  BY PublishLogs, PublishFollow
<1> QED
  BY <1>1, <1>2, <1>3, <1>4, RunStepInv

-----------------------------------------------------------------------------
(***************************************************************************)
(* A drain that returns, to the next client or to the files.               *)
(***************************************************************************)
LEMMA DrainedFacts ==
    ASSUME IInv, NEW r \in Runs, pc[r] = "draining"
    PROVE  /\ last[r] \in Nat \ {0} /\ last[r] <= LastEvent[r] + 1 /\ LastEvent[r] \in Nat
           /\ todo[r] \subseteq Clients /\ Coming(r) \subseteq Clients
           /\ todo[r] \ {First(todo[r])} = Coming(r)
           /\ r \in open => last[r] \in 1..LastEvent[r]
           /\ r \notin cancelled => r \in open
           /\ place \in [Clients -> Nat]
  BY FanoutAssumption DEF IInv, RunInv, Types, Coming

\* Those whose drain raised are gone.
Raised(r) == IF Gone(First(todo[r])) THEN dead[r] \cup {First(todo[r])} ELSE dead[r]

LEMMA RaisedGone ==
    ASSUME IInv, NEW r \in Runs, pc[r] = "draining"
    PROVE  Raised(r) \in SUBSET Clients /\ \A c \in Raised(r) : Gone(c)
<1>1. First(todo[r]) \in Clients
  <2>1. todo[r] \in SUBSET Clients /\ todo[r] # {} /\ place \in [Clients -> Nat]
    BY DEF IInv, RunInv, Types
  <2> QED
    BY <2>1, FirstIsIn
<1>2. dead[r] \in SUBSET Clients /\ \A c \in dead[r] : Gone(c)
  BY DEF IInv, Types, ClientInv
<1> QED
  BY <1>1, <1>2 DEF Raised

LEMMA DrainedLast ==
    ASSUME IInv, NEW r \in Runs, Drained(r), Coming(r) = {}
    PROVE  /\ RunMoves(r, last[r], {}, open)
           /\ todo'[r] = {}
           /\ pc'[r] = IF last[r] >= LastEvent[r] THEN "over" ELSE "between"
           /\ open' = IF last[r] >= LastEvent[r] THEN open \ {r} ELSE open
           /\ UNCHANGED cancelled
<1>1. Types /\ Logs /\ pc[r] = "draining"
  BY DEF IInv, Drained
<1>2. /\ todo' = [todo EXCEPT ![r] = {}] /\ dead' = [dead EXCEPT ![r] = {}]
      /\ Unsubscribe(Raised(r)) /\ Record(r, last[r], open)
      /\ UNCHANGED <<stream, clients, last, cancelled>>
  BY <1>1, DrainedFacts DEF Drained, Raised
<1>3. last[r] \in Nat /\ open \in SUBSET Runs
  BY <1>1 DEF Types
<1>4. Filed(r, last[r], open) /\ Wrote(r, last[r], {})
  BY <1>1, <1>2, <1>3, RecordFiled, NothingWrote
<1>5. /\ pc' = [pc EXCEPT ![r] = IF last[r] >= LastEvent[r] THEN "over" ELSE "between"]
      /\ open' = IF last[r] >= LastEvent[r] THEN open \ {r} ELSE open
  BY <1>2 DEF Record
<1>6. \E D \in SUBSET Clients : dead' = [dead EXCEPT ![r] = D] /\ \A c \in D : Gone(c)
  BY <1>2
<1>7. \E T \in SUBSET Clients : todo' = [todo EXCEPT ![r] = T] /\ \A c \in T : phase[c] = "done"
  BY <1>2
<1>8. \E p \in {"idle", "between", "draining", "over"} : pc' = [pc EXCEPT ![r] = p]
  BY <1>5
<1>9. last' = [last EXCEPT ![r] = last[r]]
  BY <1>1, <1>2 DEF Types
<1>10. subs' \subseteq subs /\ \A c \in subs \ subs' : Gone(c)
  BY <1>1, <1>2, RaisedGone DEF Unsubscribe
<1>11. cancelled \subseteq Runs
  BY <1>1 DEF Types
<1>12. RunMoves(r, last[r], {}, open)
  BY <1>2, <1>3, <1>4, <1>5, <1>6, <1>7, <1>8, <1>9, <1>10, <1>11 DEF RunMoves
<1> QED
  BY <1>1, <1>2, <1>5, <1>12 DEF Types

LEMMA DrainedNext ==
    ASSUME IInv, NEW r \in Runs, Drained(r), Coming(r) # {}
    PROVE  /\ First(Coming(r)) \in Coming(r)
           /\ RunMoves(r, last[r], {First(Coming(r))}, {})
           /\ todo'[r] = Coming(r)
           /\ Coming(r)' = Coming(r) \ {First(Coming(r))}
           /\ pc'[r] = "draining"
           /\ UNCHANGED <<open, cancelled>>
<1> DEFINE L == Coming(r)
<1>1. Types /\ Logs /\ pc[r] = "draining"
  BY DEF IInv, Drained
<1>2. L \in SUBSET Clients /\ First(L) \in L
  BY <1>1, DrainedFacts, FirstIsIn
<1>3. /\ todo' = [todo EXCEPT ![r] = L] /\ dead' = [dead EXCEPT ![r] = Raised(r)]
      /\ WriteTo(First(L), r, last[r])
      /\ UNCHANGED <<subs, pc, open, file, clients, last, cancelled>>
  BY <1>1, DrainedFacts DEF Drained, Raised
<1>4. \A c \in L : phase[c] = "done" /\ c \in Clients
  BY <1>1, DrainedFacts DEF Coming, IInv, ClientInv
<1> HIDE DEF L
<1>5. Wrote(r, last[r], {First(L)}) /\ Filed(r, last[r], {})
  <2>1. last[r] \in Nat /\ First(L) \in Clients
    BY <1>1, <1>2 DEF Types
  <2> QED
    BY <1>1, <1>3, <2>1, WriteToWrote, NothingFiled
<1>6. \E D \in SUBSET Clients : dead' = [dead EXCEPT ![r] = D] /\ \A c \in D : Gone(c)
  <2>1. Raised(r) \in SUBSET Clients /\ \A c \in Raised(r) : Gone(c)
    BY <1>1, RaisedGone
  <2>2. dead' = [dead EXCEPT ![r] = Raised(r)]
    BY <1>3
  <2> QED
    BY <2>1, <2>2
<1>7. \E T \in SUBSET Clients : todo' = [todo EXCEPT ![r] = T] /\ \A c \in T : phase[c] = "done"
  BY <1>2, <1>3, <1>4
<1>8. /\ \E p \in {"idle", "between", "draining", "over"} : pc' = [pc EXCEPT ![r] = p]
      /\ last' = [last EXCEPT ![r] = last[r]] /\ last[r] \in Nat
      /\ open \subseteq Runs /\ cancelled \subseteq Runs
  BY <1>1, <1>3 DEF Types
<1>9. RunMoves(r, last[r], {First(L)}, {})
  BY <1>2, <1>3, <1>4, <1>5, <1>6, <1>7, <1>8 DEF RunMoves
<1>10. todo'[r] = L /\ pc'[r] = "draining"
  BY <1>1, <1>3 DEF Types
<1>11. Coming(r)' = L \ {First(L)}
  <2>1. place' = place
    BY <1>3 DEF clients
  <2>2. Earliest(todo[r])' = Earliest(L)
    BY <1>10, <2>1 DEF Earliest
  <2>3. First(todo[r])' = First(L)
    BY <2>2 DEF First
  <2> QED
    BY <1>10, <2>3 DEF Coming
<1> QED
  BY <1>2, <1>3, <1>9, <1>10, <1>11 DEF L

LEMMA DrainedRun ==
    ASSUME IInv, NEW r \in Runs, Drained(r) PROVE RunInv(r)'
<1>1. pc[r] = "draining" /\ last'[r] = last[r]
  BY DEF Drained
<1>2. /\ last[r] \in Nat \ {0} /\ last[r] <= LastEvent[r] + 1 /\ LastEvent[r] \in Nat
      /\ r \in open => last[r] \in 1..LastEvent[r]
      /\ r \notin cancelled => r \in open
  BY <1>1, DrainedFacts
<1>3. CASE Coming(r) = {}
  <2>1. /\ todo'[r] = {} /\ cancelled' = cancelled
        /\ pc'[r] = IF last[r] >= LastEvent[r] THEN "over" ELSE "between"
        /\ open' = IF last[r] >= LastEvent[r] THEN open \ {r} ELSE open
    BY <1>3, DrainedLast
  <2>2. CASE last[r] >= LastEvent[r]
    BY <1>1, <1>2, <2>1, <2>2 DEF RunInv
  <2>3. CASE ~(last[r] >= LastEvent[r])
    BY <1>1, <1>2, <2>1, <2>3 DEF RunInv
  <2> QED
    BY <2>2, <2>3
<1>4. CASE Coming(r) # {}
  <2>1. /\ todo'[r] = Coming(r) /\ pc'[r] = "draining"
        /\ open' = open /\ cancelled' = cancelled
    BY <1>4, DrainedNext
  <2> QED
    BY <1>1, <1>2, <1>4, <2>1 DEF RunInv
<1> QED
  BY <1>3, <1>4

LEMMA DrainedLogs ==
    ASSUME IInv, NEW r \in Runs, Drained(r)
    PROVE  /\ \A c \in Clients : StreamInv(c, r)'
           /\ \A q \in Runs : FileInv(q, r)'
<1>1. pc[r] = "draining" /\ last'[r] = last[r]
  BY DEF Drained
<1>2. /\ stream \in [Clients -> [Runs -> Seq(Nat)]] /\ file \in [Runs -> [Runs -> Seq(Nat)]]
      /\ last[r] \in Nat \ {0} /\ last[r] - 1 \in Int /\ last[r] - 1 < last[r]
  BY <1>1, DrainedFacts DEF IInv, Logs
<1>3. \A q \in Runs : Rising(file[q][r], last[r] - 1)
  BY <1>1 DEF IInv, FileInv
<1>4. \A c \in Clients : Rising(stream[c][r], IF c \in Coming(r) THEN last[r] - 1 ELSE last[r])
  BY DEF IInv, StreamInv
<1>5. ASSUME NEW s \in Seq(Nat), Rising(s, last[r] - 1)
      PROVE  Rising(s, last[r]) /\ Rising(Append(s, last[r]), last[r])
  BY <1>2, <1>5, RisingUp, RisingAppend
<1>6. CASE Coming(r) = {}
  <2>1. Wrote(r, last[r], {}) /\ Filed(r, last[r], open) /\ todo'[r] = {} /\ pc'[r] # "draining"
    BY <1>6, DrainedLast DEF RunMoves
  <2>2. \A c \in Clients : stream'[c][r] = stream[c][r] /\ c \notin Coming(r)'
    BY <2>1 DEF Wrote, Coming
  <2>3. \A q \in Runs : file'[q][r] \in {file[q][r], Append(file[q][r], last[r])}
    BY <2>1 DEF Filed
  <2>4. \A c \in Clients : StreamInv(c, r)'
    BY <1>1, <1>4, <1>6, <2>2 DEF StreamInv
  <2>5. \A q \in Runs : FileInv(q, r)'
    BY <1>1, <1>2, <1>3, <1>5, <2>1, <2>3 DEF FileInv
  <2> QED
    BY <2>4, <2>5
<1>7. CASE Coming(r) # {}
  <2> DEFINE f == First(Coming(r))
  <2>1. /\ Wrote(r, last[r], {f}) /\ Filed(r, last[r], {}) /\ pc'[r] = "draining"
        /\ f \in Coming(r) /\ Coming(r)' = Coming(r) \ {f}
    BY <1>7, DrainedNext DEF RunMoves
  <2> HIDE DEF f
  <2>2. \A c \in Clients : /\ stream'[c][r] \in {stream[c][r], Append(stream[c][r], last[r])}
                           /\ c # f => stream'[c][r] = stream[c][r]
    BY <2>1 DEF Wrote
  <2>3. \A q \in Runs : file'[q][r] = file[q][r]
    BY <2>1 DEF Filed
  <2>4. ASSUME NEW c \in Clients PROVE StreamInv(c, r)'
    <3>1. CASE c = f
      <4>1. Rising(stream[c][r], last[r] - 1)
        BY <1>4, <2>1, <3>1
      <4>2. Rising(stream'[c][r], last[r])
        BY <1>2, <1>5, <2>2, <4>1
      <4> QED
        BY <1>1, <2>1, <3>1, <4>2 DEF StreamInv
    <3>2. CASE c # f
      BY <1>1, <1>4, <2>1, <2>2, <3>2 DEF StreamInv
    <3> QED
      BY <3>1, <3>2
  <2>5. \A q \in Runs : FileInv(q, r)'
    BY <1>1, <1>3, <2>1, <2>3 DEF FileInv
  <2> QED
    BY <2>4, <2>5
<1> QED
  BY <1>6, <1>7

\* The clients are told as they were, or of the event.
LEMMA DrainedTold ==
    ASSUME IInv, NEW r \in Runs, Drained(r), NEW c \in Clients, ~Gone(c)
    PROVE  /\ \A m : Told(c, r, m) => Told(c, r, m)'
           /\ Seen(c, r)' \subseteq Seen(c, r) \cup {last[r]}
           /\ pc'[r] # "draining" => Seen(c, r)' = Seen(c, r)
           /\ pc'[r] # "draining" /\ r \in open => InFile(r)' = InFile(r) \cup {last[r]}
           /\ InFile(r) \subseteq InFile(r)'
<1>1. pc[r] = "draining" /\ last'[r] = last[r]
  BY DEF Drained
<1>2. stream[c][r] \in Seq(Nat) /\ file[r][r] \in Seq(Nat) /\ last[r] \in Nat
  BY DEF IInv, Logs, Types
<1>3. CASE Coming(r) = {}
  <2>1. Wrote(r, last[r], {}) /\ Filed(r, last[r], open) /\ pc'[r] # "draining"
    BY <1>3, DrainedLast DEF RunMoves
  <2>2. Seen(c, r)' = Seen(c, r)
    BY <2>1 DEF Wrote, Seen
  <2>3. InFile(r)' = IF r \in open THEN InFile(r) \cup {last[r]} ELSE InFile(r)
    BY <1>2, <2>1, SetAppend DEF Filed, InFile
  <2> QED
    BY <1>1, <1>3, <2>1, <2>2, <2>3 DEF Told
<1>4. CASE Coming(r) # {}
  <2> DEFINE f == First(Coming(r))
  <2>1. /\ Wrote(r, last[r], {f}) /\ Filed(r, last[r], {}) /\ pc'[r] = "draining"
        /\ f \in Coming(r) /\ Coming(r)' = Coming(r) \ {f}
    BY <1>4, DrainedNext DEF RunMoves
  <2> HIDE DEF f
  <2>2. InFile(r)' = InFile(r)
    BY <2>1 DEF Filed, InFile
  <2>3. c = f => Seen(c, r)' = Seen(c, r) \cup {last[r]}
    BY <1>2, <2>1, SetAppend DEF Wrote, Seen
  <2>4. c # f => Seen(c, r)' = Seen(c, r)
    BY <2>1 DEF Wrote, Seen
  <2> QED
    BY <1>1, <2>1, <2>2, <2>3, <2>4 DEF Told
<1> QED
  BY <1>3, <1>4

LEMMA DrainedFollow ==
    ASSUME IInv, NEW r \in Runs, Drained(r), NEW c \in Clients
    PROVE  FollowInv(c, r)'
<1>1. /\ pc[r] = "draining" /\ last'[r] = last[r] /\ cancelled' = cancelled
      /\ UNCHANGED <<ask, conn, phase, place, early, waited>>
  BY DEF Drained, clients
<1>2. Follows(c, r)' <=> Follows(c, r)
  BY <1>1 DEF Follows, Gone, Matches
<1>3. CASE Follows(c, r)
  <2>1. ~Gone(c) /\ (r \notin cancelled => r \in open)
    BY <1>1, <1>3, DrainedFacts DEF Follows
  <2>2. /\ Told(c, r, 0)
        /\ r \notin cancelled => Seen(c, r) \subseteq InFile(r) \cup {last[r]}
    BY <1>1, <1>3 DEF IInv, FollowInv
  <2>3. Told(c, r, 0)'
    BY <2>1, <2>2, DrainedTold
  <2>4. r \notin cancelled =>
          Seen(c, r)' \subseteq InFile(r)' \cup (IF pc'[r] = "draining" THEN {last[r]} ELSE {})
    BY <2>1, <2>2, DrainedTold
  <2> QED
    BY <1>1, <2>3, <2>4 DEF FollowInv
<1> QED
  BY <1>2, <1>3 DEF FollowInv

LEMMA DrainedInv == ASSUME IInv, NEW r \in Runs, Drained(r) PROVE IInv'
<1>1. PICK S, V : RunMoves(r, last[r], S, V)
  BY DrainedLast, DrainedNext
<1>2. ASSUME NEW c \in Clients PROVE KeepsTold(c, r)
  BY DrainedTold DEF KeepsTold
<1> QED
  BY <1>1, <1>2, DrainedRun, DrainedLogs, DrainedFollow, RunStepInv

-----------------------------------------------------------------------------
(***************************************************************************)
(* The steps of the runs.                                                  *)
(***************************************************************************)
LEMMA StartRunInv == ASSUME IInv, NEW r \in Runs, StartRun(r) PROVE IInv'
<1>1. /\ pc[r] = "idle" /\ last[r] = 0 /\ LastEvent[r] \in Nat /\ LastEvent[r] >= 2
      /\ open \subseteq Runs /\ cancelled \subseteq Runs
  BY FanoutAssumption DEF StartRun, IInv, RunInv, Types
<1>2. Publishes(r, 1, open \cup {r})
  BY <1>1 DEF StartRun, Publishes, clients
<1> QED
  BY <1>1, <1>2, PublishInv

LEMMA NextEventInv == ASSUME IInv, NEW r \in Runs, NextEvent(r) PROVE IInv'
<1>1. /\ pc[r] = "between" /\ last[r] \in Nat /\ last[r] < LastEvent[r] /\ LastEvent[r] \in Nat
      /\ open \subseteq Runs /\ cancelled \subseteq Runs /\ cancelled' = cancelled
      /\ r \notin cancelled => r \in open
  BY FanoutAssumption DEF NextEvent, IInv, RunInv, Types
<1>2. PICK n \in {last[r] + 1, LastEvent[r]} : Publish(r, n, open)
  BY DEF NextEvent
<1>3. n \in Nat /\ last[r] < n /\ n <= LastEvent[r]
  BY <1>1, <1>2
<1>4. Publishes(r, n, open)
  BY <1>1, <1>2, <1>3 DEF NextEvent, Publishes
<1> QED
  BY <1>1, <1>4, PublishInv

LEMMA ReportInv == ASSUME IInv, NEW r \in Runs, Report(r) PROVE IInv'
<1>1. /\ pc[r] = "over" /\ last[r] \in Nat /\ last[r] <= LastEvent[r] /\ LastEvent[r] \in Nat
      /\ open \subseteq Runs /\ cancelled \subseteq Runs /\ cancelled' = cancelled
      /\ r \notin open /\ r \in cancelled
  BY FanoutAssumption DEF Report, IInv, RunInv, Types
<1>2. Publishes(r, LastEvent[r] + 1, open)
  BY <1>1 DEF Report, Publishes
<1> QED
  BY <1>1, <1>2, PublishInv

\* The run is left amid a publication: the event goes to no file.
LeavesRun(r) ==
    /\ pc[r] = "draining" /\ cancelled' = cancelled \cup {r}
    /\ pc' = [pc EXCEPT ![r] = "over"]
    /\ todo' = [todo EXCEPT ![r] = {}]
    /\ dead' = [dead EXCEPT ![r] = {}]
    /\ open' = open \ {r}
    /\ UNCHANGED <<stream, last, file>> /\ UNCHANGED <<clients, subs>>

LEMMA LeaveRunInv == ASSUME IInv, NEW r \in Runs, LeavesRun(r) PROVE IInv'
<1>1. Types /\ Logs
  BY DEF IInv
<1>0. /\ pc[r] = "draining" /\ cancelled' = cancelled \cup {r}
      /\ pc' = [pc EXCEPT ![r] = "over"] /\ todo' = [todo EXCEPT ![r] = {}]
      /\ dead' = [dead EXCEPT ![r] = {}] /\ open' = open \ {r}
      /\ UNCHANGED <<stream, last, file, clients, subs>>
  BY DEF LeavesRun
<1>2. /\ last[r] \in Nat \ {0} /\ last[r] <= LastEvent[r] + 1
      /\ pc'[r] = "over" /\ todo'[r] = {} /\ r \notin open' /\ r \in cancelled'
      /\ last' = [last EXCEPT ![r] = last[r]]
  BY <1>0, <1>1, DrainedFacts DEF Types
<1>3. RunMoves(r, last[r], {}, {})
  <2>1. Wrote(r, last[r], {}) /\ Filed(r, last[r], {})
    BY <1>0, <1>1, NothingWrote, NothingFiled
  <2>2. \E D \in SUBSET Clients : dead' = [dead EXCEPT ![r] = D] /\ \A c \in D : Gone(c)
    <3> WITNESS {} \in SUBSET Clients
    <3> QED
      BY <1>0
  <2>3. \E T \in SUBSET Clients : todo' = [todo EXCEPT ![r] = T] /\ \A c \in T : phase[c] = "done"
    <3> WITNESS {} \in SUBSET Clients
    <3> QED
      BY <1>0
  <2>4. open' \subseteq Runs /\ cancelled' \subseteq Runs
    BY <1>0, <1>1 DEF Types
  <2> QED
    BY <1>0, <1>2, <2>1, <2>2, <2>3, <2>4 DEF RunMoves
<1>4. RunInv(r)'
  BY <1>0, <1>2 DEF RunInv
<1>5. \A s \in Seq(Nat) : Rising(s, last[r] - 1) => Rising(s, last[r])
  BY <1>2, RisingUp
<1>6. \A q \in Runs : FileInv(q, r)'
  BY <1>0, <1>1, <1>2, <1>5 DEF IInv, FileInv, Logs
<1>7. ASSUME NEW c \in Clients PROVE StreamInv(c, r)' /\ FollowInv(c, r)' /\ KeepsTold(c, r)
  <2>1. c \notin Coming(r)'
    BY <1>2 DEF Coming
  <2>2. StreamInv(c, r)'
    <3>1. Rising(stream[c][r], last[r] - 1) \/ Rising(stream[c][r], last[r])
      BY DEF IInv, StreamInv
    <3>2. Rising(stream[c][r], last[r])
      BY <1>1, <1>5, <3>1 DEF Logs
    <3> QED
      BY <1>0, <2>1, <3>2 DEF StreamInv
  <2>3. \A m : Told(c, r, m) => Told(c, r, m)'
    BY <1>0, <1>2 DEF Told, InFile, Seen
  <2>4. Follows(c, r)' <=> Follows(c, r)
    BY <1>0 DEF Follows, Gone, Matches, clients
  <2>5. FollowInv(c, r)'
    BY <1>0, <1>2, <2>3, <2>4 DEF IInv, FollowInv
  <2> QED
    BY <2>2, <2>3, <2>5 DEF KeepsTold
<1> QED
  BY <1>3, <1>4, <1>6, <1>7, RunStepInv

EndsRun(r) ==
    /\ \/ pc[r] = "between"
       \/ pc[r] = "draining" /\ last[r] \in 2..(LastEvent[r] - 1)
    /\ Publish(r, LastEvent[r], open)
    /\ cancelled' = cancelled \cup {r} /\ UNCHANGED <<clients, subs>>

LEMMA CancelRunInv == ASSUME IInv, NEW r \in Runs, CancelRun(r) PROVE IInv'
<1>1. EndsRun(r) \/ LeavesRun(r)
  BY DEF CancelRun, EndsRun, LeavesRun
<1>2. CASE EndsRun(r)
  <2>1. /\ last[r] \in Nat /\ last[r] < LastEvent[r] /\ LastEvent[r] \in Nat
        /\ LastEvent[r] >= 2
        /\ open \subseteq Runs /\ cancelled \subseteq Runs /\ cancelled' = cancelled \cup {r}
    BY <1>2, FanoutAssumption DEF EndsRun, IInv, RunInv, Types
  <2>2. r \in open => LastEvent[r] \in 1..LastEvent[r]
    BY <2>1
  <2>3. Publishes(r, LastEvent[r], open)
    BY <1>2, <2>1, <2>2 DEF EndsRun, Publishes
  <2> QED
    BY <2>1, <2>3, PublishInv
<1>3. CASE LeavesRun(r)
  BY <1>3, LeaveRunInv
<1> QED
  BY <1>1, <1>2, <1>3

-----------------------------------------------------------------------------
(***************************************************************************)
(* The steps of the clients.                                               *)
(***************************************************************************)
ClientMoves(c) ==
    /\ UNCHANGED <<ask, pc, last, todo, dead, open, file, cancelled>>
    /\ Types' /\ Logs'
    /\ phase[c] = "done" => place' = place
    /\ \A d \in Clients \ {c} :
          /\ conn'[d] = conn[d] /\ phase'[d] = phase[d] /\ place'[d] = place[d]
          /\ early'[d] = early[d] /\ stream'[d] = stream[d]
          /\ (d \in subs' <=> d \in subs) /\ (d \in waited' <=> d \in waited)

LEMMA ClientComing ==
    ASSUME IInv, NEW c \in Clients, ClientMoves(c), NEW q \in Runs
    PROVE  /\ Coming(q)' = Coming(q)
           /\ phase[c] # "done" => c \notin Coming(q) /\ c \notin todo[q]
<1>1. todo[q] \subseteq Clients /\ todo' = todo
  BY DEF ClientMoves, IInv, Types
<1>2. phase[c] # "done" => c \notin todo[q]
  BY DEF IInv, ClientInv
<1>3. \A d \in todo[q] : place'[d] = place[d]
  BY <1>1, <1>2 DEF ClientMoves
<1> QED
  BY <1>1, <1>2, <1>3, ComingSame DEF Coming

LEMMA ClientOthers ==
    ASSUME IInv, NEW c \in Clients, ClientMoves(c), NEW d \in Clients, d # c
    PROVE  /\ ClientInv(d)' /\ ReplayInv(d)'
           /\ \A r \in Runs : StreamInv(d, r)' /\ FollowInv(d, r)'
<1>1. /\ UNCHANGED <<ask, pc, last, todo, dead, open, file, cancelled>>
      /\ conn'[d] = conn[d] /\ phase'[d] = phase[d]
      /\ early'[d] = early[d] /\ stream'[d] = stream[d]
      /\ (d \in subs' <=> d \in subs) /\ (d \in waited' <=> d \in waited)
  BY DEF ClientMoves
<1>2. /\ Gone(d)' <=> Gone(d)
      /\ \A r : Matches(d, r)' <=> Matches(d, r)
      /\ Caught(d)' <=> Caught(d)
  BY <1>1 DEF Gone, Matches, Caught
<1>3. ClientInv(d)'
  <2>1. ClientInv(d)
    BY DEF IInv
  <2> QED
    BY <1>1, <1>2, <2>1 DEF ClientInv
<1>4. ASSUME NEW r \in Runs
      PROVE  StreamInv(d, r)' /\ FollowInv(d, r)' /\ \A m : Told(d, r, m)' <=> Told(d, r, m)
  <2>1. Coming(r)' = Coming(r)
    BY ClientComing
  <2>2. /\ Seen(d, r)' = Seen(d, r) /\ InFile(r)' = InFile(r)
        /\ \A m : Told(d, r, m)' <=> Told(d, r, m)
    BY <1>1, <2>1, SameTold
  <2>3. StreamInv(d, r)'
    <3>1. StreamInv(d, r)
      BY DEF IInv
    <3> QED
      BY <1>1, <2>1, <3>1 DEF StreamInv, Rising
  <2>4. Follows(d, r)' <=> Follows(d, r)
    BY <1>1, <1>2 DEF Follows
  <2>5. FollowInv(d, r)'
    BY <1>1, <2>2, <2>4 DEF IInv, FollowInv
  <2> QED
    BY <2>2, <2>3, <2>5
<1>5. ReplayInv(d)'
  <2>1. Caught(d) => ask[d].replay \in Runs
    BY FanoutAssumption DEF Caught, IInv, Types
  <2> QED
    BY <1>1, <1>2, <1>4, <2>1 DEF IInv, ReplayInv
<1> QED
  BY <1>3, <1>4, <1>5

LEMMA ClientStepInv ==
    ASSUME IInv, NEW c \in Clients, ClientMoves(c), ClientInv(c)', ReplayInv(c)',
           \A r \in Runs : StreamInv(c, r)' /\ FollowInv(c, r)'
    PROVE  IInv'
<1>1. UNCHANGED <<pc, last, todo, open, file, cancelled>> /\ Types' /\ Logs'
  BY DEF ClientMoves
<1>2. \A r \in Runs : RunInv(r)'
  BY <1>1 DEF IInv, RunInv
<1>3. \A q, r \in Runs : FileInv(q, r)'
  BY <1>1 DEF IInv, FileInv, Rising
<1>4. \A d \in Clients : ClientInv(d)' /\ ReplayInv(d)'
                         /\ \A r \in Runs : StreamInv(d, r)' /\ FollowInv(d, r)'
  BY ClientOthers
<1> QED
  BY <1>1, <1>2, <1>3, <1>4 DEF IInv

\* A client whose own view of the runs stays as it was.
LEMMA SameView ==
    ASSUME IInv, NEW c \in Clients, ClientMoves(c), stream'[c] = stream[c],
           phase'[c] = phase[c], early'[c] = early[c],
           Gone(c) => Gone(c)', c \in waited' <=> c \in waited
    PROVE  /\ \A r \in Runs : StreamInv(c, r)' /\ FollowInv(c, r)'
           /\ ReplayInv(c)'
<1>1. /\ UNCHANGED <<ask, pc, last, todo, file, cancelled>>
      /\ \A r \in Runs : Coming(r)' = Coming(r)
  BY ClientComing DEF ClientMoves
<1>2. ASSUME NEW r \in Runs
      PROVE  StreamInv(c, r)' /\ FollowInv(c, r)' /\ \A m : Told(c, r, m)' <=> Told(c, r, m)
  <2>1. /\ Seen(c, r)' = Seen(c, r) /\ InFile(r)' = InFile(r)
        /\ \A m : Told(c, r, m)' <=> Told(c, r, m)
    BY <1>1, SameTold
  <2>2. StreamInv(c, r)'
    BY <1>1 DEF IInv, StreamInv, Rising
  <2>3. Follows(c, r)' => Follows(c, r)
    BY <1>1 DEF Follows, Matches
  <2>4. FollowInv(c, r)'
    BY <1>1, <2>1, <2>3 DEF IInv, FollowInv
  <2> QED
    BY <2>1, <2>2, <2>4
<1>3. Caught(c)' => Caught(c) /\ ask[c].replay \in Runs
  BY <1>1, FanoutAssumption DEF Caught, Matches, IInv, Types
<1>4. ReplayInv(c)'
  BY <1>1, <1>2, <1>3 DEF IInv, ReplayInv
<1> QED
  BY <1>2, <1>4

LEMMA StallInv == ASSUME IInv, NEW c \in Clients, Stall(c) PROVE IInv'
<1>1. /\ conn' = [conn EXCEPT ![c] = "stalled"] /\ conn[c] = "open"
      /\ UNCHANGED <<ask, phase, place, early, waited, stream, subs, pc, last, todo, dead,
                     open, file, cancelled>>
  BY DEF Stall
<1>2. Types /\ Logs
  BY DEF IInv
<1>3. Types' /\ Logs'
  BY <1>1, <1>2 DEF Types, Logs
<1>4. ClientMoves(c)
  BY <1>1, <1>2, <1>3 DEF ClientMoves, Types
<1>5. ~Gone(c) /\ ~Gone(c)'
  BY <1>1, <1>2 DEF Gone, Types
<1>6. ClientInv(c)'
  BY <1>1, <1>5 DEF IInv, ClientInv, EmptyLog
<1> QED
  BY <1>1, <1>4, <1>5, <1>6, SameView, ClientStepInv

LEMMA CloseInv == ASSUME IInv, NEW c \in Clients, Close(c) PROVE IInv'
<1>1. /\ conn' = [conn EXCEPT ![c] = "closed"] /\ conn[c] = "lost" /\ subs' = subs \ {c}
      /\ UNCHANGED <<ask, phase, place, early, waited, stream, pc, last, todo, dead,
                     open, file, cancelled>>
  BY DEF Close, Unsubscribe
<1>2. Types /\ Logs
  BY DEF IInv
<1>3. Types' /\ Logs'
  BY <1>1, <1>2 DEF Types, Logs
<1>4. ClientMoves(c)
  BY <1>1, <1>2, <1>3 DEF ClientMoves, Types
<1>5. Gone(c) /\ Gone(c)'
  BY <1>1, <1>2 DEF Gone, Types
<1>6. ClientInv(c)'
  BY <1>1, <1>5 DEF IInv, ClientInv, EmptyLog
<1> QED
  BY <1>1, <1>4, <1>5, <1>6, SameView, ClientStepInv

LEMMA EmptyIsLog == EmptyLog \in [Runs -> Seq(Nat)] /\ \A r \in Runs : EmptyLog[r] = <<>>
  BY DEF EmptyLog

LEMMA LoseInv == ASSUME IInv, NEW c \in Clients, Lose(c) PROVE IInv'
<1>1. /\ conn' = [conn EXCEPT ![c] = "lost"]
      /\ stream' = [stream EXCEPT ![c] = EmptyLog]
      /\ early' = [early EXCEPT ![c] = {}] /\ waited' = waited \ {c}
      /\ UNCHANGED <<ask, phase, subs, place, pc, last, todo, dead, open, file, cancelled>>
  BY DEF Lose
<1>2. Types /\ Logs
  BY DEF IInv
<1>3. Types'
  BY <1>1, <1>2 DEF Types
<1>4. Logs'
  BY <1>1, <1>2, EmptyIsLog DEF Logs
<1>5. /\ stream'[c] = EmptyLog /\ early'[c] = {} /\ conn'[c] = "lost"
      /\ \A d \in Clients \ {c} : stream'[d] = stream[d]
  BY <1>1, <1>2 DEF Types, Logs
<1>6. ClientMoves(c)
  BY <1>1, <1>2, <1>3, <1>4, <1>5 DEF ClientMoves, Types
<1>7. Gone(c)'
  BY <1>5 DEF Gone
<1>8. ClientInv(c)'
  BY <1>1, <1>5, <1>7 DEF IInv, ClientInv, EmptyLog
<1>9. \A r \in Runs : StreamInv(c, r)'
  <2>1. \A n : Rising(<<>>, n)
    BY DEF Rising
  <2> QED
    BY <1>5, <2>1, EmptyIsLog DEF StreamInv
<1>10. ReplayInv(c)' /\ \A r \in Runs : FollowInv(c, r)'
  BY <1>7 DEF ReplayInv, Caught, FollowInv, Follows
<1> QED
  BY <1>6, <1>8, <1>9, <1>10, ClientStepInv

-----------------------------------------------------------------------------
(***************************************************************************)
(* event.subscribe.                                                        *)
(***************************************************************************)
LEMMA PlaceNat == Cardinality({d \in Clients : phase[d] = "done"}) \in Nat
<1>1. IsFiniteSet({d \in Clients : phase[d] = "done"})
  BY ClientsFinite, FS_Subset
<1> QED
  BY <1>1, FS_CardinalityType

\* What the client and the daemon hold once it is registered.
LEMMA RegisterTypes ==
    ASSUME IInv, NEW c \in Clients, phase[c] # "done", Register(c), Logs',
           UNCHANGED <<ask, conn, waited, pc, last, todo, dead, open, file, cancelled>>,
           \A d \in Clients \ {c} : stream'[d] = stream[d]
    PROVE  /\ ClientMoves(c) /\ ClientInv(c)'
           /\ \A q \in early'[c] : pc[q] = "idle"
<1>1. Types
  BY DEF IInv
<1>2. /\ subs' = subs \cup {c}
      /\ phase' = [phase EXCEPT ![c] = "done"]
      /\ place' = [place EXCEPT ![c] = Cardinality({d \in Clients : phase[d] = "done"})]
      /\ early' = [early EXCEPT ![c] = IF Gone(c) THEN {} ELSE {r \in Runs : pc[r] = "idle"}]
  BY DEF Register
<1>3. Types'
  BY <1>1, <1>2, PlaceNat DEF Types
<1>4. ClientMoves(c)
  BY <1>1, <1>2, <1>3 DEF ClientMoves, Types
<1>5. /\ phase'[c] = "done" /\ c \in subs'
      /\ early'[c] = IF Gone(c) THEN {} ELSE {r \in Runs : pc[r] = "idle"}
  BY <1>1, <1>2 DEF Types
<1>6. ClientInv(c)'
  <2>1. ClientInv(c) /\ (Gone(c)' <=> Gone(c))
    BY DEF IInv, Gone
  <2> QED
    BY <1>5, <2>1 DEF ClientInv
<1> QED
  BY <1>4, <1>5, <1>6

\* A follower of a run was there before it began.
LEMMA NoFollow ==
    ASSUME NEW c \in Clients, NEW q \in Runs, pc' = pc, q \in early'[c] => pc[q] = "idle"
    PROVE  FollowInv(c, q)'
  BY DEF FollowInv, Follows

\* The history is the file of the run that is replayed, or nothing.
LEMMA HistoryIs ==
    ASSUME IInv, NEW c \in Clients, NEW q \in Runs
    PROVE  /\ History(c) \in [Runs -> Seq(Nat)]
           /\ Rising(History(c)[q], last[q])
           /\ ask[c].replay # NoRun =>
                 ask[c].replay \in Runs /\ History(c)[q] = file[ask[c].replay][q]
<1>1. ask[c].replay \in Runs \cup {NoRun}
  BY FanoutAssumption DEF IInv, Types
<1>2. file \in [Runs -> [Runs -> Seq(Nat)]] /\ last[q] \in Nat
  BY DEF IInv, Logs, Types
<1>3. CASE ask[c].replay = NoRun
  <2>1. Rising(<<>>, last[q])
    BY DEF Rising
  <2> QED
    BY <1>3, <2>1, EmptyIsLog DEF History
<1>4. CASE ask[c].replay # NoRun
  <2>1. ask[c].replay \in Runs /\ History(c) = file[ask[c].replay]
    BY <1>1, <1>4 DEF History
  <2>2. Rising(file[ask[c].replay][q], IF pc[q] = "draining" THEN last[q] - 1 ELSE last[q])
    BY <2>1 DEF IInv, FileInv
  <2>3. Rising(file[ask[c].replay][q], last[q])
    <3>1. \E m \in Int : m <= last[q] /\ Rising(file[ask[c].replay][q], m)
      BY <1>2, <2>2
    <3>2. file[ask[c].replay][q] \in Seq(Nat) /\ last[q] \in Int
      BY <1>2, <2>1
    <3> QED
      BY <3>1, <3>2, RisingUp
  <2> QED
    BY <1>2, <2>1, <2>3
<1> QED
  BY <1>3, <1>4

\* A client that is new holds what was replayed, if it is still there.
LEMMA ReplayIs ==
    ASSUME IInv, NEW c \in Clients, phase[c] = "new", Replay(c), UNCHANGED file
    PROVE  /\ Logs'
           /\ \A d \in Clients \ {c} : stream'[d] = stream[d]
           /\ \A q \in Runs : stream'[c][q] = IF Gone(c) THEN <<>> ELSE History(c)[q]
<1>1. stream \in [Clients -> [Runs -> Seq(Nat)]] /\ file \in [Runs -> [Runs -> Seq(Nat)]]
  BY DEF IInv, Logs
<1>2. stream[c] = EmptyLog
  BY DEF IInv, ClientInv
<1>3. CASE Gone(c)
  BY <1>1, <1>2, <1>3, EmptyIsLog DEF Replay, Logs
<1>4. CASE ~Gone(c)
  <2> DEFINE log == [q \in Runs |-> stream[c][q] \o History(c)[q]]
  <2>1. \A q \in Runs : History(c) \in [Runs -> Seq(Nat)]
    BY HistoryIs
  <2>2. ASSUME NEW q \in Runs PROVE log[q] = History(c)[q] /\ log[q] \in Seq(Nat)
    <3>1. stream[c][q] = <<>> /\ History(c)[q] \in Seq(Nat)
      BY <1>2, <2>1, EmptyIsLog
    <3>2. <<>> \o History(c)[q] = History(c)[q]
      BY <3>1
    <3> QED
      BY <3>1, <3>2
  <2>3. log \in [Runs -> Seq(Nat)]
    BY <2>2
  <2>4. stream' = [stream EXCEPT ![c] = log]
    BY <1>4 DEF Replay
  <2> HIDE DEF log
  <2> QED
    BY <1>1, <1>4, <2>2, <2>3, <2>4 DEF Logs
<1> QED
  BY <1>3, <1>4

LEMMA SubscribeInv == ASSUME IInv, NEW c \in Clients, Subscribe(c) PROVE IInv'
<1>1. /\ phase[c] = "new" /\ Replay(c)
      /\ UNCHANGED <<ask, conn, pc, last, todo, dead, open, file, cancelled>>
  BY DEF Subscribe
<1>2. /\ Types /\ Logs /\ early[c] = {} /\ ClientInv(c)
      /\ (Gone(c)' <=> Gone(c))
  BY <1>1 DEF IInv, ClientInv, Gone
<1>3. /\ Logs'
      /\ \A d \in Clients \ {c} : stream'[d] = stream[d]
      /\ \A q \in Runs : stream'[c][q] = IF Gone(c) THEN <<>> ELSE History(c)[q]
  BY <1>1, ReplayIs
<1>4. ASSUME ClientMoves(c), NEW q \in Runs PROVE StreamInv(c, q)'
  <2>1. c \notin Coming(q)' /\ last' = last
    BY <1>1, <1>4, ClientComing
  <2>2. Rising(<<>>, last[q]) /\ Rising(History(c)[q], last[q])
    BY HistoryIs DEF Rising
  <2> QED
    BY <1>3, <2>1, <2>2 DEF StreamInv
<1>5. CASE Register(c) /\ UNCHANGED waited
  <2>1. /\ ClientMoves(c) /\ ClientInv(c)'
        /\ \A q \in early'[c] : pc[q] = "idle"
    BY <1>1, <1>3, <1>5, RegisterTypes
  <2>2. \A q \in Runs : StreamInv(c, q)' /\ FollowInv(c, q)'
    BY <1>1, <1>4, <2>1, NoFollow
  <2>3. ReplayInv(c)'
    <3> SUFFICES ASSUME ask[c].replay # NoRun, ~Gone(c) PROVE ReplayInv(c)'
      BY <1>1, <1>2 DEF ReplayInv, Caught
    <3>1. PICK r \in Runs : r = ask[c].replay
      BY FanoutAssumption, <1>2 DEF Types
    <3>2. stream'[c][r] = file[r][r]
      BY <1>3, <3>1, HistoryIs
    <3>3. Seen(c, r)' = InFile(r)'
      BY <1>1, <3>2 DEF Seen, InFile
    <3>4. PICK m \in 0..(LastEvent[r] + 1) : m = last[r]
      BY <1>2, FanoutAssumption DEF IInv, RunInv, Types
    <3>5. Told(c, r, m)'
      BY <1>1, <3>3, <3>4 DEF Told
    <3> QED
      BY <1>1, <3>1, <3>5 DEF ReplayInv
  <2> QED
    BY <2>1, <2>2, <2>3, ClientStepInv
<1>6. CASE /\ phase' = [phase EXCEPT ![c] = "replaying"]
           /\ waited' = IF Gone(c) THEN waited ELSE waited \cup {c}
           /\ UNCHANGED <<subs, place, early>>
  <2>1. Types'
    BY <1>1, <1>2, <1>6 DEF Types
  <2>2. ClientMoves(c)
    BY <1>1, <1>2, <1>3, <1>6, <2>1 DEF ClientMoves, Types
  <2>3. phase'[c] = "replaying" /\ (~Gone(c) => c \in waited')
    BY <1>2, <1>6 DEF Types
  <2>4. ClientInv(c)'
    BY <1>1, <1>2, <1>6, <2>3 DEF ClientInv
  <2>5. ReplayInv(c)'
    BY <2>3 DEF ReplayInv, Caught
  <2>6. \A q \in Runs : StreamInv(c, q)' /\ FollowInv(c, q)'
    BY <1>1, <1>2, <1>4, <1>6, <2>2, NoFollow
  <2> QED
    BY <2>2, <2>4, <2>5, <2>6, ClientStepInv
<1> QED
  BY <1>5, <1>6 DEF Subscribe

LEMMA ReplayedInv == ASSUME IInv, NEW c \in Clients, Replayed(c) PROVE IInv'
<1>1. /\ phase[c] = "replaying"
      /\ UNCHANGED <<ask, conn, stream, waited, pc, last, todo, dead, open, file, cancelled>>
  BY DEF Replayed
<1>2. /\ Types /\ Logs /\ Logs' /\ early[c] = {} /\ ClientInv(c)
      /\ (Gone(c)' <=> Gone(c))
  BY <1>1 DEF IInv, ClientInv, Gone, Logs
<1>3. ASSUME ClientMoves(c), NEW q \in Runs PROVE StreamInv(c, q)'
  <2>1. c \notin Coming(q)' /\ c \notin Coming(q)
    BY <1>1, <1>3, ClientComing
  <2>2. StreamInv(c, q)
    BY DEF IInv
  <2> QED
    BY <1>1, <2>1, <2>2 DEF StreamInv
<1>4. ReplayInv(c)'
  BY <1>1, <1>2 DEF ReplayInv, Caught, ClientInv
<1>5. CASE Register(c)
  <2>1. /\ ClientMoves(c) /\ ClientInv(c)'
        /\ \A q \in early'[c] : pc[q] = "idle"
    BY <1>1, <1>2, <1>5, RegisterTypes
  <2>2. \A q \in Runs : StreamInv(c, q)' /\ FollowInv(c, q)'
    BY <1>1, <1>3, <2>1, NoFollow
  <2> QED
    BY <1>4, <2>1, <2>2, ClientStepInv
<1>6. CASE /\ Gone(c) /\ phase' = [phase EXCEPT ![c] = "done"]
           /\ UNCHANGED <<subs, place, early>>
  <2>1. Types'
    BY <1>1, <1>2, <1>6 DEF Types
  <2>2. ClientMoves(c)
    BY <1>1, <1>2, <1>6, <2>1 DEF ClientMoves, Types
  <2>3. phase'[c] = "done"
    BY <1>2, <1>6 DEF Types
  <2>4. ClientInv(c)'
    BY <1>1, <1>2, <1>6, <2>3 DEF ClientInv
  <2>5. \A q \in Runs : StreamInv(c, q)' /\ FollowInv(c, q)'
    BY <1>1, <1>2, <1>3, <1>6, <2>2, NoFollow
  <2> QED
    BY <1>4, <2>2, <2>4, <2>5, ClientStepInv
<1> QED
  BY <1>5, <1>6 DEF Replayed

-----------------------------------------------------------------------------
(***************************************************************************)
(* The theorems.                                                           *)
(***************************************************************************)
LEMMA InitIInv == ASSUME Init PROVE IInv
<1>1. Types
  BY DEF Init, Types
<1>2. Logs
  BY EmptyIsLog DEF Init, Logs
<1>3. \A r \in Runs : RunInv(r)
  BY FanoutAssumption DEF Init, RunInv
<1>4. \A c \in Clients : ClientInv(c) /\ ReplayInv(c)
  BY DEF Init, ClientInv, ReplayInv, Caught
<1>5. \A n : Rising(<<>>, n)
  BY DEF Rising
<1>6. \A c \in Clients, r \in Runs : StreamInv(c, r) /\ FollowInv(c, r)
  BY <1>5, EmptyIsLog DEF Init, StreamInv, FollowInv
<1>7. \A q, r \in Runs : FileInv(q, r)
  BY <1>5, EmptyIsLog DEF Init, FileInv
<1> QED
  BY <1>1, <1>2, <1>3, <1>4, <1>6, <1>7 DEF IInv

LEMMA StutterInv == ASSUME IInv, UNCHANGED vars PROVE IInv'
<1>1. UNCHANGED <<ask, conn, phase, place, early, waited, stream, subs, pc, last, todo,
                  dead, open, file, cancelled>>
  BY DEF vars, clients
<1>2. Types' /\ Logs'
  BY <1>1 DEF IInv, Types, Logs
<1>3. \A c \in Clients : c \in Clients /\ (Gone(c)' <=> Gone(c))
  BY <1>1 DEF Gone
<1>4. ASSUME NEW c \in Clients
      PROVE  /\ ClientMoves(c) /\ ClientInv(c)' /\ ReplayInv(c)'
             /\ \A r \in Runs : StreamInv(c, r)' /\ FollowInv(c, r)'
  <2>1. ClientMoves(c)
    BY <1>1, <1>2 DEF ClientMoves
  <2>2. ClientInv(c)'
    BY <1>1, <1>3 DEF IInv, ClientInv
  <2> QED
    BY <1>1, <1>3, <2>1, <2>2, SameView
<1>5. \A r \in Runs : RunInv(r)'
  BY <1>1 DEF IInv, RunInv
<1>6. \A q, r \in Runs : FileInv(q, r)'
  BY <1>1 DEF IInv, FileInv, Rising
<1> QED
  BY <1>2, <1>4, <1>5, <1>6 DEF IInv

LEMMA NextIInv == ASSUME IInv, [Next]_vars PROVE IInv'
<1>1. ASSUME NEW r \in Runs, RunStep(r) PROVE IInv'
  BY <1>1, StartRunInv, NextEventInv, DrainedInv, CancelRunInv, ReportInv DEF RunStep
<1>2. ASSUME NEW c \in Clients, ClientStep(c) PROVE IInv'
  BY <1>2, SubscribeInv, ReplayedInv, StallInv, LoseInv, CloseInv DEF ClientStep
<1>3. CASE UNCHANGED vars
  BY <1>3, StutterInv
<1> QED
  BY <1>1, <1>2, <1>3 DEF Next

\* The invariant of IpcEventBroadcaster.handle amid the runs it serves.
THEOREM FanoutInvariant == Spec => []IInv
<1>1. Init => IInv
  BY InitIInv
<1>2. IInv /\ [Next]_vars => IInv'
  BY NextIInv
<1> QED
  BY <1>1, <1>2, PTL DEF Spec

\* Every variable keeps to its values: a run is in a broadcast exactly while
\* there are clients it awaits, and no file is open behind the run's end.
THEOREM TypeCorrect == Spec => []TypeOK
<1>1. ASSUME IInv PROVE TypeOK
  <2>1. \A r \in Runs : last[r] \in 0..(LastEvent[r] + 1)
    BY <1>1, FanoutAssumption DEF IInv, Types, RunInv
  <2>2. \A r \in Runs : pc[r] = "draining" <=> todo[r] # {}
    BY <1>1 DEF IInv, RunInv
  <2>3. \A r \in open : pc[r] # "over" /\ last[r] \in 1..LastEvent[r]
    BY <1>1 DEF IInv, Types, RunInv
  <2> QED
    BY <1>1, <2>1, <2>2, <2>3 DEF IInv, Types, Logs, TypeOK
<1> QED
  BY <1>1, FanoutInvariant, PTL

\* Every client and every file gets the events of each run in order and none
\* twice (IpcEventBroadcaster.handle, EventWriter.handle, _replay_events).
THEOREM OrderedAndOnceHolds == Spec => []OrderedAndOnce
<1>1. ASSUME IInv PROVE OrderedAndOnce
  <2>1. \A c \in Clients : InOrder(stream[c])
    BY <1>1 DEF IInv, StreamInv, Rising, InOrder
  <2>2. \A r \in Runs : InOrder(file[r])
    BY <1>1 DEF IInv, FileInv, Rising, InOrder
  <2> QED
    BY <2>1, <2>2 DEF OrderedAndOnce
<1> QED
  BY <1>1, FanoutInvariant, PTL

\* What the file of a run tells, every client that follows the run was told;
\* of a run that was not cancelled they tell the same (EventBus.publish).
THEOREM FileTellsWhatClientsSawHolds == Spec => []FileTellsWhatClientsSaw
<1>1. ASSUME IInv, NEW r \in Runs, NEW c \in Clients, Follows(c, r)
      PROVE  /\ InFile(r) \subseteq Seen(c, r)
             /\ pc[r] = "over" /\ r \notin cancelled => InFile(r) = Seen(c, r)
  <2>1. ~(0 \in InFile(r))
    <3>1. file[r][r] \in Seq(Nat) /\ last[r] \in Nat
      BY <1>1 DEF IInv, Logs, Types
    <3>2. FileInv(r, r)
      BY <1>1 DEF IInv
    <3> DEFINE n == IF pc[r] = "draining" THEN last[r] - 1 ELSE last[r]
    <3>3. n \in Int /\ Rising(file[r][r], n)
      BY <3>1, <3>2 DEF FileInv
    <3> HIDE DEF n
    <3> QED
      BY <3>1, <3>3, RisingSet DEF InFile
  <2>2. Told(c, r, 0)
    BY <1>1, IdleTold DEF IInv, FollowInv
  <2>3. InFile(r) \subseteq Seen(c, r)
    BY <2>1, <2>2 DEF Told
  <2>4. pc[r] = "over" /\ r \notin cancelled => Seen(c, r) \subseteq InFile(r)
    BY <1>1 DEF IInv, FollowInv
  <2> QED
    BY <2>3, <2>4
<1>2. IInv => FileTellsWhatClientsSaw
  BY <1>1 DEF FileTellsWhatClientsSaw
<1> QED
  BY <1>2, FanoutInvariant, PTL

\* A replay that was not suspended misses the event that was in the air at the
\* registration, and nothing else (CoreApp._subscribe_handler).
THEOREM ReplayMissesOneAtMostHolds == Spec => []ReplayMissesOneAtMost
<1>1. ASSUME IInv, NEW c \in Clients, Caught(c),
             NEW m \in InFile(ask[c].replay) \ Seen(c, ask[c].replay),
             NEW n \in InFile(ask[c].replay) \ Seen(c, ask[c].replay)
      PROVE  m = n
  BY <1>1 DEF IInv, ReplayInv, Told
<1>2. IInv => ReplayMissesOneAtMost
  BY <1>1 DEF ReplayMissesOneAtMost, Caught
<1> QED
  BY <1>2, FanoutInvariant, PTL
=============================================================================
