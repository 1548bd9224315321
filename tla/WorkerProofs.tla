---------------------------- MODULE WorkerProofs ----------------------------
(***************************************************************************)
(* Proofs about the two background loops.  EmbeddingQueue: for every       *)
(* number of jobs, of processes, of reindex calls and of faults, in both   *)
(* modes.  FollowupScheduler: for every number of schedulers and of        *)
(* follow-ups, every order, every LIMIT and every number of faults.        *)
(***************************************************************************)
EXTENDS EmbeddingQueue, FollowupScheduler,
        FiniteSetTheorems, FunctionTheorems, SequenceTheorems, TLAPS

USE DEF FaultKinds, FailureKinds

Store == [state : {"down", "listed", "ready"}, kind : Kinds]

(* A worker has an event in hand only while its process is up, a reindex   *)
(* call rows to push only while the API is; embedded, the API is all.      *)
HomeInv ==
  /\ mode = "embedded" => /\ \A w \in Workers : ~Idle(w) => w = Bundled
                          /\ \A p \in Processes : store[p].state # "down" => p = Api
  /\ \A w \in Workers : ~Idle(w) => Ready(Home(w))
  /\ \A r \in Reindexers : snapshot[r] # <<>> => Ready(Api)

(* No event is owed twice: what waits and what is in hand is owed.         *)
OwedInv == IsFiniteSet(Busy) /\ Len(queue) + Cardinality(Busy) <= owed

TypeInv == TypeOK /\ HomeInv /\ OwedInv /\ \A j \in Jobs : version[j] <= edits + 1

LEMMA EventFacts ==
  /\ NoEvent \notin Event
  /\ \A e \in Event : e.job \in Jobs /\ e.version \in 1..MaxEdits + 1
BY BoundsAssumption DEF NoEvent, Event

LEMMA FaultEffect ==
  ASSUME TypeOK, NEW k \in FaultKinds, Fault(k)
  PROVE  /\ faults' \in [FaultKinds -> Nat]
         /\ faults'[k] = faults[k] + 1
         /\ \A x \in FaultKinds \ {k} : faults'[x] = faults[x]
BY DEF Fault, TypeOK

(* What reading the live rows returns: each of them once.                  *)
LEMMA RowsAreAll ==
  ASSUME TypeOK
  PROVE  /\ Rows \in Seq(Event)
         /\ \A i \in 1..Len(Rows) : Rows[i].version = version[Rows[i].job]
         /\ \A j \in Jobs : \E i \in 1..Len(Rows) : Rows[i].job = j
<1> DEFINE row == [j \in Jobs |-> [job |-> j, version |-> version[j]]]
           S == {[job |-> j, version |-> version[j]] : j \in Jobs}
           n == Cardinality(S)
<1>1. IsFiniteSet(S)
  <2>1. row \in [Jobs -> S] /\ \A t \in S : \E j \in Jobs : row[j] = t
    OBVIOUS
  <2>2. row \in Surjection(Jobs, S)
    BY <2>1, Fun_IsSurj
  <2>3. QED
    BY <2>2, JobsAssumption, FS_Surjection
<1>2. n \in Nat /\ ExistsBijection(1..n, S)
  BY <1>1, FS_CardinalityType
<1>3. \A e \in S : e \in Event /\ e.version = version[e.job]
  BY DEF TypeOK, Event
<1>4. \A j \in Jobs : \E e \in S : e.job = j
  <2>1. ASSUME NEW j \in Jobs PROVE [job |-> j, version |-> version[j]] \in S
    OBVIOUS
  <2>2. QED
    BY <2>1
<1>5. Rows = SetToSeq(S)
  BY DEF Rows
<1> HIDE DEF S, row
<1>6. Rows \in [1..n -> S] /\ IsInjective(Rows)
  <2>1. PICK f \in Bijection(1..n, S) : TRUE
    BY <1>2 DEF ExistsBijection
  <2>2. f \in [1..n -> S] /\ \A a, b \in 1..n : f[a] = f[b] => a = b
    BY <2>1, Fun_BijectionProperties
  <2>3. f \in [1..n -> S] /\ IsInjective(f)
    BY <2>2 DEF IsInjective
  <2>4. QED
    BY <1>5, <2>3 DEF SetToSeq
<1>7. \A t \in S : \E i \in 1..n : Rows[i] = t
  <2>1. \A a, b \in 1..n : Rows[a] = Rows[b] => a = b
    BY <1>6 DEF IsInjective
  <2>2. Rows \in Injection(1..n, S)
    BY <1>6, <2>1, Fun_IsInj
  <2>3. Cardinality(1..n) = n
    BY <1>2, FS_Interval
  <2>4. Rows \in Surjection(1..n, S)
    BY <1>1, <2>2, <2>3, FS_Injection
  <2>5. QED
    BY <2>4 DEF Surjection
<1>8. Rows \in Seq(Event) /\ Len(Rows) = n /\ \A i \in 1..n : Rows[i] \in S
  BY <1>2, <1>3, <1>6
<1>9. QED
  BY <1>3, <1>4, <1>7, <1>8

LEMMA TypeInit == Init => TypeInv
<1> SUFFICES ASSUME Init PROVE TypeInv
  OBVIOUS
<1>1. /\ version \in [Jobs -> 1..MaxEdits + 1] /\ index \in [Jobs -> 0..MaxEdits + 1]
      /\ edits \in 0..MaxEdits /\ runs \in 0..MaxRuns
      /\ \A j \in Jobs : version[j] <= edits + 1
  BY BoundsAssumption DEF Init
<1>2. snapshot \in [Reindexers -> Seq(Event)] /\ queue \in Seq(Event)
  BY DEF Init
<1>3. store \in [Processes -> Store] /\ work \in [Workers -> Event \cup {NoEvent}]
  BY DEF Init, Store, Down, Kinds
<1>4. TypeOK
  BY <1>1, <1>2, <1>3, BoundsAssumption DEF Init, TypeOK, Store, Kinds
<1>5. HomeInv
  BY DEF Init, HomeInv, Idle, Down
<1>6. OwedInv
  <2>1. Busy = {} /\ queue = <<>> /\ owed = 0
    BY DEF Init, Busy, Idle
  <2>2. QED
    BY <2>1, FS_EmptySet DEF OwedInv
<1>7. QED
  BY <1>1, <1>4, <1>5, <1>6 DEF TypeInv

LEMMA SubSeqFacts ==
  ASSUME NEW s \in Seq(Event), s # <<>>
  PROVE  /\ Head(s) \in Event /\ Tail(s) \in Seq(Event) /\ Len(s) \in Nat \ {0}
         /\ Head(s) = s[1] /\ Len(Tail(s)) = Len(s) - 1
         /\ \A i \in 1..Len(s) - 1 : Tail(s)[i] = s[i + 1]
OBVIOUS

(* Who becomes busy and who stops being it.                                *)
LEMMA BusyTakes ==
  ASSUME TypeOK, IsFiniteSet(Busy), NEW w \in Workers, Idle(w), NEW e \in Event,
         work' = [work EXCEPT ![w] = e]
  PROVE  /\ IsFiniteSet(Busy') /\ Cardinality(Busy') = Cardinality(Busy) + 1
         /\ work' \in [Workers -> Event \cup {NoEvent}]
<1>1. Busy' = Busy \cup {w} /\ w \notin Busy
  BY EventFacts DEF Busy, Idle, TypeOK
<1>2. QED
  BY <1>1, FS_AddElement DEF TypeOK

LEMMA BusyPuts ==
  ASSUME TypeOK, IsFiniteSet(Busy), NEW w \in Workers, ~Idle(w), work' = [work EXCEPT ![w] = NoEvent]
  PROVE  /\ IsFiniteSet(Busy') /\ Cardinality(Busy') = Cardinality(Busy) - 1
         /\ Cardinality(Busy) \in Nat \ {0} /\ Cardinality(Busy') \in Nat
         /\ work' \in [Workers -> Event \cup {NoEvent}]
<1>1. Busy' = Busy \ {w} /\ w \in Busy
  BY DEF Busy, Idle, TypeOK
<1>2. Cardinality(Busy) \in Nat /\ Cardinality(Busy) # 0
  BY <1>1, FS_CardinalityType, FS_EmptySet
<1>3. QED
  BY <1>1, <1>2, FS_RemoveElement, FS_CardinalityType DEF TypeOK

(* A crash takes one event at most: only one worker shares the process.    *)
LEMMA BusyCrash ==
  ASSUME TypeOK, HomeInv, IsFiniteSet(Busy), NEW p \in Processes, Crash(p)
  PROVE  /\ IsFiniteSet(Busy') /\ Cardinality(Busy') \in Nat /\ Cardinality(Busy) \in Nat
         /\ Cardinality(Busy) - 1 <= Cardinality(Busy') /\ Cardinality(Busy') <= Cardinality(Busy)
         /\ work' \in [Workers -> Event \cup {NoEvent}]
<1>1. work' = [w \in Workers |-> IF Home(w) = p THEN NoEvent ELSE work[w]]
  BY DEF Crash
<1>2. \E v \in Workers : \A w \in Busy : Home(w) = p => w = v
  <2>1. CASE mode = "embedded"
    BY <2>1, ProcessAssumption DEF HomeInv, Busy
  <2>2. CASE mode # "embedded"
    BY <2>2, ProcessAssumption DEF Home, TypeOK, Busy
  <2>3. QED
    BY <2>1, <2>2
<1>3. PICK v \in Workers : \A w \in Busy : Home(w) = p => w = v
  BY <1>2
<1>4. Busy' = Busy \/ Busy' = Busy \ {v}
  <2>1. \A w \in Workers : w \in Busy' <=> w \in Busy /\ Home(w) # p
    BY <1>1 DEF Busy, Idle
  <2>2. Busy \subseteq Workers /\ Busy' \subseteq Workers
    BY DEF Busy
  <2>3. QED
    BY <1>3, <2>1, <2>2
<1>5. Cardinality(Busy) \in Nat
  BY FS_CardinalityType
<1>6. work' \in [Workers -> Event \cup {NoEvent}]
  BY <1>1 DEF TypeOK
<1>7. IsFiniteSet(Busy \ {v}) /\ Cardinality(Busy \ {v}) = IF v \in Busy THEN Cardinality(Busy) - 1 ELSE Cardinality(Busy)
  BY FS_RemoveElement
<1>8. CASE Busy' = Busy
  BY <1>5, <1>6, <1>8
<1>9. CASE Busy' = Busy \ {v}
  BY <1>5, <1>6, <1>7, <1>9, FS_CardinalityType
<1>10. QED
  BY <1>4, <1>8, <1>9

LEMMA TypeStep ==
  ASSUME TypeInv, [Next]_vars
  PROVE  TypeOK' /\ \A j \in Jobs : version'[j] <= edits' + 1
<1>0. /\ TypeOK /\ HomeInv /\ OwedInv /\ \A j \in Jobs : version[j] <= edits + 1
      /\ store \in [Processes -> Store] /\ queue \in Seq(Event) /\ snapshot \in [Reindexers -> Seq(Event)]
  BY DEF TypeInv, TypeOK, Store
<1>1. ASSUME NEW j \in Jobs, Edit(j) PROVE TypeOK' /\ \A k \in Jobs : version'[k] <= edits' + 1
  <2>1. /\ edits \in Nat /\ MaxEdits \in Nat /\ edits < MaxEdits /\ edits' = edits + 1
        /\ version' = [version EXCEPT ![j] = version[j] + 1]
        /\ version \in [Jobs -> 1..MaxEdits + 1]
        /\ UNCHANGED <<snapshot, runs, queue, work, index, qdrant, faults, history>>
    BY <1>0, <1>1, BoundsAssumption DEF Edit, TypeOK
  <2>2. version' \in [Jobs -> 1..MaxEdits + 1] /\ edits' \in 0..MaxEdits
    BY <1>0, <2>1
  <2>3. \A k \in Jobs : version'[k] <= edits' + 1
    BY <1>0, <2>1
  <2>4. QED
    BY <1>0, <2>1, <2>2, <2>3 DEF TypeOK, qdrant, history
<1>2. ASSUME NEW p \in Processes, List(p) PROVE TypeOK' /\ UNCHANGED table
  <2>1. store' \in [Processes -> Store]
    BY <1>0, <1>2 DEF List, Store, TypeOK
  <2>2. collection' \in Kinds \cup {"none"} /\ index' \in [Jobs -> 0..MaxEdits + 1]
    BY SMTT(30), <1>0, <1>2, BoundsAssumption DEF List, TypeOK
  <2>3. QED
    BY <1>0, <1>2, <2>1, <2>2 DEF List, TypeOK, Store, history, table
<1>3. ASSUME NEW p \in Processes, Create(p) PROVE TypeOK' /\ UNCHANGED table
  <2>1. store[p] \in Store /\ store[p].kind \in Kinds
    BY <1>0 DEF Store
  <2>2. [store[p] EXCEPT !.state = "ready"] \in Store /\ Down \in Store
    BY <2>1 DEF Store, Down, Kinds
  <2>3. store' = [store EXCEPT ![p] = [store[p] EXCEPT !.state = "ready"]] \/ store' = [store EXCEPT ![p] = Down]
    BY <1>0, <1>3 DEF Create
  <2>4. store' \in [Processes -> Store]
    BY <1>0, <2>2, <2>3
  <2>5. collection' \in Kinds \cup {"none"}
    BY <1>0, <1>3, <2>1 DEF Create, TypeOK
  <2>6. QED
    BY <1>0, <1>3, <2>4, <2>5 DEF Create, TypeOK, Store, history, table
<1>4. ASSUME NEW p \in Processes, Stop(p) PROVE TypeOK' /\ UNCHANGED table
  <2>1. store' \in [Processes -> Store]
    BY <1>0, <1>4 DEF Stop, Store, Down, Kinds
  <2>2. QED
    BY <1>0, <1>4, <2>1 DEF Stop, TypeOK, Store, history, table
<1>5. ASSUME NEW p \in Processes, Crash(p) PROVE TypeOK' /\ UNCHANGED table
  <2>1. store' \in [Processes -> Store]
    BY <1>0, <1>5 DEF Crash, Store, Down, Kinds
  <2>2. snapshot' \in [Reindexers -> Seq(Event)]
    BY <1>0, <1>5 DEF Crash
  <2>3. work' \in [Workers -> Event \cup {NoEvent}]
    BY <1>0, <1>5, BusyCrash DEF OwedInv
  <2>4. faults' \in [FaultKinds -> Nat]
    BY <1>0, <1>5, FaultEffect DEF Crash
  <2>5. QED
    BY <1>0, <1>5, <2>1, <2>2, <2>3, <2>4 DEF Crash, TypeOK, Store, history, table
<1>6. ASSUME NEW r \in Reindexers, Reindex(r) PROVE TypeOK' /\ UNCHANGED table
  <2>1. snapshot' \in [Reindexers -> Seq(Event)]
    BY <1>0, <1>6, RowsAreAll DEF Reindex
  <2>2. runs' \in 0..MaxRuns /\ read' \in [Jobs -> 0..MaxEdits + 1]
    <3>1. runs < MaxRuns /\ runs' = runs + 1 /\ read' = version
      BY <1>6 DEF Reindex
    <3>2. runs \in 0..MaxRuns /\ version \in [Jobs -> 1..MaxEdits + 1]
      BY <1>0 DEF TypeOK
    <3>3. \A v \in 1..MaxEdits + 1 : v \in 0..MaxEdits + 1
      BY BoundsAssumption
    <3>4. QED
      BY <3>1, <3>2, <3>3, BoundsAssumption
  <2>3. raced' \subseteq {"reindex", "workers", "operator"}
    BY <1>0, <1>6 DEF Reindex, TypeOK
  <2>4. QED
    BY <1>0, <1>6, <2>1, <2>2, <2>3 DEF Reindex, TypeOK, qdrant, table
<1>7. ASSUME NEW r \in Reindexers, Enqueue(r) PROVE TypeOK' /\ UNCHANGED table
  <2>1. snapshot[r] \in Seq(Event) /\ snapshot[r] # <<>>
    BY <1>0, <1>7 DEF Enqueue
  <2>2. Head(snapshot[r]) \in Event /\ Tail(snapshot[r]) \in Seq(Event)
    BY <2>1, SubSeqFacts
  <2>3. queue' \in Seq(Event) /\ snapshot' \in [Reindexers -> Seq(Event)]
    BY <1>0, <1>7, <2>2 DEF Enqueue
  <2>4. Head(snapshot[r]).version \in 0..MaxEdits + 1
    BY <2>2, EventFacts, BoundsAssumption
  <2>5. pushed' = [pushed EXCEPT ![Head(snapshot[r]).job] = Head(snapshot[r]).version]
    BY <1>7 DEF Enqueue
  <2>6. pushed' \in [Jobs -> 0..MaxEdits + 1]
    BY <1>0, <2>4, <2>5 DEF TypeOK
  <2>7. owed' \in Nat
    BY <1>0, <1>7 DEF Enqueue, TypeOK
  <2>8. /\ UNCHANGED <<table, version, edits, runs, work, index, mode, setting, collection, store, faults>>
        /\ UNCHANGED <<read, refused, raced>>
    BY <1>7 DEF Enqueue, table, qdrant
  <2>9. QED
    BY <1>0, <2>3, <2>6, <2>7, <2>8 DEF TypeOK
<1>8. ASSUME NEW r \in Reindexers, ReindexFails(r) PROVE TypeOK' /\ UNCHANGED table
  <2>1. snapshot' \in [Reindexers -> Seq(Event)] /\ faults' \in [FaultKinds -> Nat]
    BY <1>0, <1>8, FaultEffect DEF ReindexFails
  <2>2. QED
    BY <1>0, <1>8, <2>1 DEF ReindexFails, TypeOK, qdrant, history, table
<1>9. ASSUME NEW w \in Workers, Dequeue(w) PROVE TypeOK' /\ UNCHANGED table
  <2>1. Head(queue) \in Event /\ Tail(queue) \in Seq(Event)
    BY <1>0, <1>9, SubSeqFacts DEF Dequeue
  <2>2. work' \in [Workers -> Event \cup {NoEvent}] /\ raced' \subseteq {"reindex", "workers", "operator"}
    BY <1>0, <1>9, <2>1 DEF Dequeue, TypeOK
  <2>3. QED
    BY <1>0, <1>9, <2>1, <2>2 DEF Dequeue, TypeOK, qdrant, table
<1>10. ASSUME NEW w \in Workers, Upsert(w) PROVE TypeOK' /\ UNCHANGED table
  <2>1. work[w] \in Event
    BY <1>0, <1>10 DEF Upsert, Idle, TypeOK
  <2>2. index' \in [Jobs -> 0..MaxEdits + 1]
    BY SMTT(30), <1>0, <1>10, <2>1, EventFacts, BoundsAssumption DEF Upsert, TypeOK
  <2>3. owed' \in Nat /\ work' \in [Workers -> Event \cup {NoEvent}]
    <3>1. Cardinality(Busy) \in Nat \ {0} /\ work' \in [Workers -> Event \cup {NoEvent}]
      BY <1>0, <1>10, BusyPuts DEF Upsert, OwedInv
    <3>2. owed' = owed - 1 /\ owed \in Nat /\ Len(queue) \in Nat /\ Len(queue) + Cardinality(Busy) <= owed
      BY <1>0, <1>10 DEF Upsert, TypeOK, OwedInv
    <3>3. QED
      BY <3>1, <3>2
  <2>4. QED
    BY <1>0, <1>10, <2>2, <2>3 DEF Upsert, TypeOK, qdrant, table
<1>11. ASSUME NEW w \in Workers, UpsertRefused(w) PROVE TypeOK' /\ UNCHANGED table
  BY <1>0, <1>11 DEF UpsertRefused, TypeOK, qdrant, table
<1>12. ASSUME NEW w \in Workers, ProcessFails(w) PROVE TypeOK' /\ UNCHANGED table
  <2>1. faults' \in [FaultKinds -> Nat]
    BY <1>0, <1>12, FaultEffect DEF ProcessFails
  <2>2. QED
    BY <1>0, <1>12, <2>1 DEF ProcessFails, TypeOK, qdrant, history, table
<1>13. CASE Switch
  <2>1. faults' \in [FaultKinds -> Nat] /\ setting' \in Kinds
    BY <1>0, <1>13, FaultEffect DEF Switch
  <2>2. QED
    BY <1>0, <1>13, <2>1 DEF Switch, TypeOK, Store, history, table
<1>14. CASE DeleteCollection
  <2>1. index' \in [Jobs -> 0..MaxEdits + 1] /\ collection' \in Kinds \cup {"none"}
    BY <1>14, BoundsAssumption DEF DeleteCollection
  <2>2. raced' \subseteq {"reindex", "workers", "operator"}
    BY <1>0, <1>14 DEF DeleteCollection, TypeOK
  <2>3. QED
    BY <1>0, <1>14, <2>1, <2>2 DEF DeleteCollection, TypeOK, table
<1>15. CASE RedisRestart
  <2>1. faults' \in [FaultKinds -> Nat]
    BY <1>0, <1>15, FaultEffect DEF RedisRestart
  <2>2. QED
    BY SMTT(30), <1>0, <1>15, <2>1 DEF RedisRestart, TypeOK, qdrant, history, table
<1>16. CASE UNCHANGED vars
  BY <1>0, <1>16 DEF vars, TypeOK, qdrant, history, table
<1>17. QED
  BY <1>0, <1>1, <1>2, <1>3, <1>4, <1>5, <1>6, <1>7, <1>8, <1>9, <1>10, <1>11, <1>12, <1>13, <1>14,
     <1>15, <1>16 DEF Next, Connect, Consume, table

LEMMA HomeStep ==
  ASSUME TypeInv, [Next]_vars
  PROVE  HomeInv'
<1>0. TypeOK /\ HomeInv /\ store \in [Processes -> Store]
  BY DEF TypeInv, TypeOK, Store
<1>a. \A w \in Workers : Home(w) \in Processes /\ (mode' = mode => Home(w)' = Home(w))
  BY DEF Home, Processes
<1>b. Api \in Processes
  BY DEF Processes
<1>1. ASSUME UNCHANGED <<mode, store>>, \A w \in Workers : Idle(w) => Idle(w)',
             \A r \in Reindexers : snapshot[r] = <<>> => snapshot'[r] = <<>>
      PROVE  HomeInv'
  BY <1>0, <1>1, <1>a DEF HomeInv, Ready
<1>2. ASSUME NEW p \in Processes, UNCHANGED <<mode, work, snapshot>>, store[p].state # "ready",
             \A q \in Processes \ {p} : store'[q] = store[q],
             store'[p].state # "down" => store[p].state # "down" \/ Runs(p)
      PROVE  HomeInv'
  <2>1. \A w \in Workers : ~Idle(w)' => ~Idle(w) /\ Home(w) # p
    BY <1>0, <1>2 DEF HomeInv, Ready, Idle
  <2>2. \A w \in Workers : ~Idle(w)' => Ready(Home(w))'
    BY <1>0, <1>2, <1>a, <2>1 DEF HomeInv, Ready
  <2>3. \A r \in Reindexers : snapshot'[r] # <<>> => Ready(Api)'
    BY <1>0, <1>2, <1>b DEF HomeInv, Ready
  <2>4. mode' = "embedded" => \A q \in Processes : store'[q].state # "down" => q = Api
    BY <1>0, <1>2 DEF HomeInv, Runs, TypeOK
  <2>5. mode' = "embedded" => \A w \in Workers : ~Idle(w)' => w = Bundled
    BY <1>0, <1>2, <2>1 DEF HomeInv
  <2>6. QED
    BY <2>2, <2>3, <2>4, <2>5 DEF HomeInv
<1>3. ASSUME NEW p \in Processes, mode' = mode, store' = [store EXCEPT ![p] = Down],
             \A w \in Workers : ~Idle(w)' => ~Idle(w) /\ Home(w) # p,
             \A r \in Reindexers : snapshot'[r] # <<>> => snapshot[r] # <<>> /\ p # Api
      PROVE  HomeInv'
  <2>1. \A q \in Processes : store'[q] = IF q = p THEN Down ELSE store[q]
    BY <1>0, <1>3
  <2>2. \A w \in Workers : ~Idle(w)' => Ready(Home(w))'
    BY <1>0, <1>3, <1>a, <2>1 DEF HomeInv, Ready
  <2>3. \A r \in Reindexers : snapshot'[r] # <<>> => Ready(Api)'
    BY <1>0, <1>3, <1>b, <2>1 DEF HomeInv, Ready
  <2>4. mode' = "embedded" => \A q \in Processes : store'[q].state # "down" => q = Api
    BY <1>0, <1>3, <2>1 DEF HomeInv, Down
  <2>5. mode' = "embedded" => \A w \in Workers : ~Idle(w)' => w = Bundled
    BY <1>0, <1>3 DEF HomeInv
  <2>6. QED
    BY <2>2, <2>3, <2>4, <2>5 DEF HomeInv
<1>4. ASSUME NEW j \in Jobs, Edit(j) PROVE HomeInv'
  BY <1>1, <1>4 DEF Edit, qdrant, Idle
<1>5. ASSUME NEW p \in Processes, List(p) PROVE HomeInv'
  <2>1. store[p].state # "ready" /\ Runs(p) /\ \A q \in Processes \ {p} : store'[q] = store[q]
    BY <1>0, <1>5 DEF List
  <2>2. QED
    BY <1>2, <1>5, <2>1 DEF List
<1>6. ASSUME NEW p \in Processes, Create(p) PROVE HomeInv'
  <2>1. store[p].state = "listed" /\ \A q \in Processes \ {p} : store'[q] = store[q]
    BY <1>0, <1>6 DEF Create
  <2>2. QED
    BY <1>2, <1>6, <2>1 DEF Create
<1>7. ASSUME NEW p \in Processes, Stop(p) PROVE HomeInv'
  BY <1>3, <1>7 DEF Stop, Idle
<1>8. ASSUME NEW p \in Processes, Crash(p) PROVE HomeInv'
  <2>1. \A w \in Workers : ~Idle(w)' => ~Idle(w) /\ Home(w) # p
    BY <1>8 DEF Crash, Idle
  <2>2. \A r \in Reindexers : snapshot'[r] # <<>> => snapshot[r] # <<>> /\ p # Api
    BY <1>8 DEF Crash
  <2>3. QED
    BY <1>3, <1>8, <2>1, <2>2 DEF Crash
<1>9. ASSUME NEW r \in Reindexers, Reindex(r) PROVE HomeInv'
  BY <1>0, <1>9, <1>a DEF Reindex, HomeInv, Ready, qdrant, Idle
<1>10. ASSUME NEW r \in Reindexers, Enqueue(r) PROVE HomeInv'
  BY <1>0, <1>1, <1>10 DEF Enqueue, qdrant, Idle, TypeOK
<1>11. ASSUME NEW r \in Reindexers, ReindexFails(r) PROVE HomeInv'
  BY <1>0, <1>1, <1>11 DEF ReindexFails, qdrant, Idle, TypeOK
<1>12. ASSUME NEW w \in Workers, Dequeue(w) PROVE HomeInv'
  <2>1. /\ Ready(Home(w)) /\ (mode = "embedded" => w = Bundled) /\ UNCHANGED <<mode, store, snapshot>>
        /\ \A v \in Workers \ {w} : work'[v] = work[v]
    BY <1>0, <1>12 DEF Dequeue, qdrant, TypeOK
  <2>2. \A v \in Workers : ~Idle(v)' => v = w \/ ~Idle(v)
    BY <2>1 DEF Idle
  <2>3. QED
    BY <1>0, <1>a, <2>1, <2>2 DEF HomeInv, Ready
<1>13. ASSUME NEW w \in Workers, Upsert(w) \/ UpsertRefused(w) \/ ProcessFails(w) PROVE HomeInv'
  <2>1. work' = [work EXCEPT ![w] = NoEvent] /\ UNCHANGED <<mode, store, snapshot>>
    BY <1>13 DEF Upsert, UpsertRefused, ProcessFails, qdrant
  <2>2. \A v \in Workers : Idle(v) => Idle(v)'
    BY <1>0, <2>1 DEF Idle, TypeOK
  <2>3. QED
    BY <1>1, <2>1, <2>2
<1>14. CASE Switch \/ DeleteCollection \/ RedisRestart \/ UNCHANGED vars
  <2>1. UNCHANGED <<mode, store, snapshot, work>>
    BY <1>14 DEF Switch, DeleteCollection, RedisRestart, vars, qdrant
  <2>2. QED
    BY <1>1, <2>1 DEF Idle
<1>15. QED
  BY <1>4, <1>5, <1>6, <1>7, <1>8, <1>9, <1>10, <1>11, <1>12, <1>13, <1>14 DEF Next, Connect, Consume

-----------------------------------------------------------------------------
(* The account of the events *)

Lost    == faults["crash"] + faults["failure"] + refused
LossInv == faults["redis"] = 0 => owed - Len(queue) - Cardinality(Busy) <= Lost

(* What was lost only grows, by one with each fault that takes an event.  *)
LEMMA LostMoves ==
  ASSUME TypeOK, refused' \in Nat, refused' >= refused, NEW k \in FaultKinds \cup {"none"},
         IF k = "none" THEN UNCHANGED faults ELSE Fault(k)
  PROVE  /\ Lost \in Nat /\ Lost' \in Nat /\ Lost' >= Lost
         /\ faults["redis"] \in Nat /\ faults'["redis"] \in Nat
         /\ faults'["redis"] = IF k = "redis" THEN faults["redis"] + 1 ELSE faults["redis"]
         /\ refused' = refused /\ k \in {"crash", "failure"} => Lost' = Lost + 1
         /\ refused' = refused + 1 /\ k = "none" => Lost' = Lost + 1
<1> DEFINE c == faults["crash"]
           f == faults["failure"]
           c1 == faults'["crash"]
           f1 == faults'["failure"]
<1>1. c \in Nat /\ f \in Nat /\ faults["redis"] \in Nat /\ refused \in Nat
  BY DEF TypeOK
<1>2. \A x \in FaultKinds : faults'[x] = IF x = k THEN faults[x] + 1 ELSE faults[x]
  BY FaultEffect
<1>3. c1 = (IF k = "crash" THEN c + 1 ELSE c) /\ f1 = (IF k = "failure" THEN f + 1 ELSE f)
  BY <1>2
<1>4. faults'["redis"] = IF k = "redis" THEN faults["redis"] + 1 ELSE faults["redis"]
  BY <1>2
<1>5. Lost = c + f + refused /\ Lost' = c1 + f1 + refused'
  BY DEF Lost
<1> HIDE DEF c, f, c1, f1
<1>6. c1 \in Nat /\ f1 \in Nat /\ c1 >= c /\ f1 >= f
  BY <1>1, <1>3
<1>7. \A x, y, z \in Nat : x + y + z \in Nat
  OBVIOUS
<1>8. \A x, y, z, u, v, w \in Nat : u >= x /\ v >= y /\ w >= z => u + v + w >= x + y + z
  OBVIOUS
<1>9. Lost \in Nat /\ Lost' \in Nat
  BY <1>1, <1>5, <1>6, <1>7, Zenon
<1>10. Lost' >= Lost
  BY <1>1, <1>5, <1>6, <1>8, Zenon
<1>11. ASSUME refused' = refused, k \in {"crash", "failure"} PROVE Lost' = Lost + 1
  <2>1. CASE k = "crash"
    <3>1. c1 = c + 1 /\ f1 = f
      BY <1>3, <2>1
    <3>2. QED
      BY <1>1, <1>5, <1>11, <3>1
  <2>2. CASE k = "failure"
    <3>1. c1 = c /\ f1 = f + 1
      BY <1>3, <2>2
    <3>2. QED
      BY <1>1, <1>5, <1>11, <3>1
  <2>3. QED
    BY <1>11, <2>1, <2>2
<1>12. ASSUME refused' = refused + 1, k = "none" PROVE Lost' = Lost + 1
  <2>1. c1 = c /\ f1 = f
    BY <1>3, <1>12
  <2>2. QED
    BY <1>1, <1>5, <1>12, <2>1
<1>13. QED
  BY <1>1, <1>4, <1>11, <1>12, <1>9, <1>10

LEMMA CountStep ==
  ASSUME TypeInv, LossInv, [Next]_vars
  PROVE  OwedInv' /\ LossInv'
<1> DEFINE Kept == UNCHANGED <<queue, work, owed, refused>>
<1>0. /\ TypeOK /\ HomeInv /\ OwedInv /\ queue \in Seq(Event) /\ Len(queue) \in Nat
      /\ owed \in Nat /\ refused \in Nat /\ Cardinality(Busy) \in Nat /\ IsFiniteSet(Busy)
      /\ \A k \in FaultKinds : faults[k] \in Nat
  BY SMTT(30), FS_CardinalityType DEF TypeInv, TypeOK, OwedInv
<1>a. UNCHANGED work => Busy' = Busy
  BY DEF Busy, Idle
<1>b. /\ owed \in Nat /\ refused \in Nat /\ Len(queue) \in Nat /\ Cardinality(Busy) \in Nat
      /\ Len(queue) + Cardinality(Busy) <= owed
      /\ faults["redis"] = 0 => owed - Len(queue) - Cardinality(Busy) <= Lost
  BY <1>0 DEF OwedInv, LossInv
<1>1. ASSUME Kept, UNCHANGED faults \/ \E k \in FaultKinds : Fault(k)
      PROVE  OwedInv' /\ LossInv'
  <2>1. Busy' = Busy
    BY <1>1, <1>a
  <2>2. \E k \in FaultKinds \cup {"none"} : IF k = "none" THEN UNCHANGED faults ELSE Fault(k)
    BY <1>1
  <2>3. Lost \in Nat /\ Lost' \in Nat /\ Lost' >= Lost /\ (faults'["redis"] = 0 => faults["redis"] = 0)
    BY <1>0, <1>1, <2>2, LostMoves
  <2>4. QED
    BY <1>1, <1>b, <1>0, <2>1, <2>3 DEF OwedInv, LossInv
<1>2. ASSUME NEW p \in Processes, Crash(p) PROVE OwedInv' /\ LossInv'
  <2>1. UNCHANGED <<queue, owed, refused>> /\ Fault("crash")
    BY <1>2 DEF Crash, history
  <2>2. Lost \in Nat /\ Lost' = Lost + 1 /\ faults'["redis"] = faults["redis"]
    BY <1>0, <2>1, LostMoves
  <2>3. /\ IsFiniteSet(Busy') /\ Cardinality(Busy') \in Nat
        /\ Cardinality(Busy) - 1 <= Cardinality(Busy') /\ Cardinality(Busy') <= Cardinality(Busy)
    BY <1>0, <1>2, BusyCrash
  <2>4. QED
    BY <1>b, <2>1, <2>2, <2>3 DEF OwedInv, LossInv
<1>3. ASSUME NEW r \in Reindexers, Enqueue(r) PROVE OwedInv' /\ LossInv'
  <2>1. UNCHANGED <<work, refused, faults>> /\ owed' = owed + 1 /\ queue' = Append(queue, Head(snapshot[r]))
    BY <1>3 DEF Enqueue
  <2>2. Len(queue') = Len(queue) + 1 /\ Busy' = Busy
    BY <1>0, <1>a, <2>1
  <2>3. QED
    BY <1>0, <2>1, <2>2 DEF OwedInv, LossInv, Lost
<1>4. ASSUME NEW w \in Workers, Dequeue(w) PROVE OwedInv' /\ LossInv'
  <2>1. /\ UNCHANGED <<owed, refused, faults>> /\ queue' = Tail(queue) /\ queue # <<>>
        /\ Idle(w) /\ work' = [work EXCEPT ![w] = Head(queue)]
    BY <1>4 DEF Dequeue
  <2>2. Len(queue') = Len(queue) - 1 /\ Head(queue) \in Event
    BY <1>0, <2>1, SubSeqFacts
  <2>3. IsFiniteSet(Busy') /\ Cardinality(Busy') = Cardinality(Busy) + 1
    BY <1>0, <2>1, <2>2, BusyTakes
  <2>4. QED
    BY <1>0, <2>1, <2>2, <2>3 DEF OwedInv, LossInv, Lost
<1>5. ASSUME NEW w \in Workers, ~Idle(w), work' = [work EXCEPT ![w] = NoEvent], queue' = queue,
             \/ owed' = owed - 1 /\ UNCHANGED <<refused, faults>>
             \/ refused' = refused + 1 /\ UNCHANGED <<owed, faults>>
             \/ Fault("failure") /\ UNCHANGED <<owed, refused>>
      PROVE  OwedInv' /\ LossInv'
  <2>1. IsFiniteSet(Busy') /\ Cardinality(Busy') = Cardinality(Busy) - 1 /\ Cardinality(Busy') \in Nat
    BY <1>0, <1>5, BusyPuts
  <2>2. CASE Fault("failure") /\ UNCHANGED <<owed, refused>>
    <3>1. Lost \in Nat /\ Lost' = Lost + 1 /\ faults'["redis"] = faults["redis"]
      BY <1>0, <2>2, LostMoves
    <3>2. QED
      BY <1>5, <1>b, <2>1, <2>2, <3>1 DEF OwedInv, LossInv
  <2>3. CASE owed' = owed - 1 /\ UNCHANGED <<refused, faults>>
    BY <1>0, <1>5, <2>1, <2>3 DEF OwedInv, LossInv, Lost
  <2>4. CASE refused' = refused + 1 /\ UNCHANGED <<owed, faults>>
    <3>1. Lost \in Nat /\ Lost' = Lost + 1 /\ faults'["redis"] = faults["redis"]
      BY <1>0, <2>4, LostMoves
    <3>2. QED
      BY <1>5, <1>b, <2>1, <2>4, <3>1 DEF OwedInv, LossInv
  <2>5. QED
    BY <1>5, <2>2, <2>3, <2>4
<1>6. CASE RedisRestart
  <2>1. UNCHANGED <<work, owed, refused>> /\ queue' = <<>> /\ Fault("redis")
    BY <1>6 DEF RedisRestart, history
  <2>2. faults'["redis"] = faults["redis"] + 1 /\ Busy' = Busy /\ Len(queue') = 0
    BY <1>0, <1>a, <2>1, FaultEffect
  <2>3. QED
    BY <1>0, <2>1, <2>2 DEF OwedInv, LossInv
<1>7. ASSUME NEW w \in Workers, Upsert(w) \/ UpsertRefused(w) \/ ProcessFails(w) PROVE OwedInv' /\ LossInv'
  <2>1. CASE Upsert(w)
    BY <1>5, <2>1 DEF Upsert
  <2>2. CASE UpsertRefused(w)
    BY <1>5, <2>2 DEF UpsertRefused
  <2>3. CASE ProcessFails(w)
    BY <1>5, <2>3 DEF ProcessFails, history
  <2>4. QED
    BY <1>7, <2>1, <2>2, <2>3
<1>8. ASSUME NEW j \in Jobs, Edit(j) PROVE OwedInv' /\ LossInv'
  BY <1>1, <1>8 DEF Edit, history
<1>9. ASSUME NEW p \in Processes, List(p) \/ Create(p) \/ Stop(p) PROVE OwedInv' /\ LossInv'
  BY <1>1, <1>9 DEF List, Create, Stop, history
<1>10. ASSUME NEW r \in Reindexers, Reindex(r) \/ ReindexFails(r) PROVE OwedInv' /\ LossInv'
  BY <1>1, <1>10 DEF Reindex, ReindexFails, history
<1>11. CASE Switch \/ DeleteCollection \/ UNCHANGED vars
  BY <1>1, <1>11 DEF Switch, DeleteCollection, vars, history
<1>12. QED
  BY <1>2, <1>3, <1>4, <1>6, <1>7, <1>8, <1>9, <1>10, <1>11 DEF Next, Connect, Consume
-----------------------------------------------------------------------------
(* The collection and the processes that use it *)

(* A process that is up makes the vectors the collection has.              *)
VouchInv ==
  "operator" \notin raced =>
    /\ refused = 0
    /\ \A p \in Processes : Ready(p) => store[p].kind = collection

(* Without a change of the setting there is but one kind of vectors.       *)
SettingInv ==
  faults["switch"] = 0 =>
    /\ setting = "hybrid" /\ collection \in {"none", "hybrid"}
    /\ \A p \in Processes : store[p].state # "down" => store[p].kind = "hybrid"

(* Without a collection nothing is indexed.                                *)
EmptyInv == collection = "none" => \A j \in Jobs : index[j] = 0

StoreInv == VouchInv /\ SettingInv /\ EmptyInv

(* A worker with an event in hand writes to what its process vouched for.  *)
LEMMA TakesUnlessDeleted ==
  ASSUME TypeInv, StoreInv, NEW w \in Workers, ~Idle(w), "operator" \notin raced
  PROVE  Takes(w)
<1>1. Ready(Home(w)) /\ Home(w) \in Processes
  BY DEF TypeInv, HomeInv, Home, Processes
<1>2. QED
  BY <1>1 DEF StoreInv, VouchInv, Takes

LEMMA StoreStep ==
  ASSUME TypeInv, StoreInv, [Next]_vars
  PROVE  StoreInv'
<1>0. /\ TypeOK /\ HomeInv /\ store \in [Processes -> Store] /\ setting \in Kinds
      /\ collection \in Kinds \cup {"none"} /\ "none" \notin Kinds
      /\ VouchInv /\ SettingInv /\ EmptyInv
  BY DEF TypeInv, TypeOK, Store, StoreInv, Kinds
<1>a. UNCHANGED faults \/ (\E k \in FaultKinds \ {"switch"} : Fault(k)) => faults'["switch"] = faults["switch"]
  BY <1>0, FaultEffect
<1>1. ASSUME UNCHANGED <<setting, collection, store, index, refused>>, raced \subseteq raced',
             UNCHANGED faults \/ \E k \in FaultKinds \ {"switch"} : Fault(k)
      PROVE  StoreInv'
  BY <1>0, <1>1, <1>a DEF StoreInv, VouchInv, SettingInv, EmptyInv, Ready
<1>2. ASSUME NEW p \in Processes, List(p) PROVE StoreInv'
  <2>1. /\ store[p].state = "down" /\ Runs(p) /\ UNCHANGED <<setting, refused, raced, faults, mode>>
        /\ \A q \in Processes \ {p} : store'[q] = store[q]
    BY <1>0, <1>2 DEF List, history
  <2>2. CASE collection = setting
    <3>1. store'[p] = [state |-> "ready", kind |-> setting] /\ UNCHANGED <<collection, index>>
      BY <1>0, <1>2, <2>2 DEF List
    <3>2. VouchInv'
      BY <1>0, <2>1, <2>2, <3>1 DEF VouchInv, Ready
    <3>3. SettingInv' /\ EmptyInv'
      BY <1>0, <2>1, <2>2, <3>1 DEF SettingInv, EmptyInv
    <3>4. QED
      BY <3>2, <3>3 DEF StoreInv
  <2>3. CASE collection # setting
    <3>1. /\ store'[p] = [state |-> "listed", kind |-> setting]
          /\ collection' = "none" /\ index' = [j \in Jobs |-> 0]
          /\ collection = "none" \/ mode = "embedded"
      BY <1>0, <1>2, <2>3 DEF List
    <3>2. "operator" \notin raced => \A q \in Processes : ~Ready(q)'
      BY <1>0, <2>1, <3>1 DEF VouchInv, HomeInv, Ready, Runs, Store
    <3>3. VouchInv'
      BY <1>0, <2>1, <3>2 DEF VouchInv
    <3>4. SettingInv' /\ EmptyInv'
      BY <1>0, <2>1, <3>1 DEF SettingInv, EmptyInv
    <3>5. QED
      BY <3>3, <3>4 DEF StoreInv
  <2>4. QED
    BY <2>2, <2>3
<1>3. ASSUME NEW p \in Processes, Create(p) PROVE StoreInv'
  <2>1. /\ store[p].state = "listed" /\ UNCHANGED <<setting, refused, raced, faults, index>>
        /\ \A q \in Processes \ {p} : store'[q] = store[q]
    BY <1>0, <1>3 DEF Create, history
  <2>2. CASE collection = "none" /\ collection' = store[p].kind /\ store' = [store EXCEPT ![p].state = "ready"]
    <3>1. store'[p].kind = store[p].kind /\ store[p].kind \in Kinds /\ collection' # "none"
      BY <1>0, <2>2 DEF Store
    <3>2. "operator" \notin raced => \A q \in Processes : ~Ready(q)
      BY <1>0, <2>2 DEF VouchInv, Ready, Store
    <3>3. VouchInv'
      BY <1>0, <2>1, <2>2, <3>1, <3>2 DEF VouchInv, Ready
    <3>4. SettingInv' /\ EmptyInv'
      BY <1>0, <2>1, <2>2, <3>1 DEF SettingInv, EmptyInv
    <3>5. QED
      BY <3>3, <3>4 DEF StoreInv
  <2>3. CASE UNCHANGED collection /\ store' = [store EXCEPT ![p] = Down]
    <3>1. store'[p] = Down
      BY <1>0, <2>3
    <3>2. VouchInv' /\ SettingInv' /\ EmptyInv'
      BY <1>0, <2>1, <2>3, <3>1 DEF VouchInv, SettingInv, EmptyInv, Ready, Down
    <3>3. QED
      BY <3>2 DEF StoreInv
  <2>4. QED
    BY <1>3, <2>2, <2>3 DEF Create
<1>4. ASSUME NEW p \in Processes, Stop(p) \/ Crash(p) PROVE StoreInv'
  <2>1. /\ UNCHANGED <<setting, refused, raced, index, collection>>
        /\ \A q \in Processes : store'[q] = IF q = p THEN Down ELSE store[q]
        /\ faults'["switch"] = faults["switch"]
    BY <1>0, <1>4, <1>a DEF Stop, Crash, history
  <2>2. VouchInv' /\ SettingInv' /\ EmptyInv'
    BY <1>0, <2>1 DEF VouchInv, SettingInv, EmptyInv, Ready, Down
  <2>3. QED
    BY <2>2 DEF StoreInv
<1>5. CASE Switch
  <2>1. faults'["switch"] = faults["switch"] + 1 /\ faults["switch"] \in Nat /\ UNCHANGED <<store, collection, index, raced, refused>>
    BY <1>0, <1>5, FaultEffect DEF Switch, history, TypeOK
  <2>2. QED
    BY <1>0, <2>1 DEF StoreInv, VouchInv, SettingInv, EmptyInv, Ready
<1>6. CASE DeleteCollection
  <2>1. /\ collection' = "none" /\ index' = [j \in Jobs |-> 0] /\ UNCHANGED <<store, setting, faults, refused>>
        /\ raced \subseteq raced'
        /\ "operator" \notin raced' => \A q \in Processes : store[q].state = "down"
    BY <1>6 DEF DeleteCollection
  <2>2. VouchInv' /\ SettingInv' /\ EmptyInv'
    BY <1>0, <2>1 DEF VouchInv, SettingInv, EmptyInv, Ready
  <2>3. QED
    BY <2>2 DEF StoreInv
<1>7. ASSUME NEW w \in Workers, Upsert(w) PROVE StoreInv'
  <2>1. /\ UNCHANGED <<store, setting, collection, faults, refused, raced>>
        /\ collection = store[Home(w)].kind /\ Home(w) \in Processes
    BY <1>7 DEF Upsert, Takes, qdrant, Home, Processes
  <2>2. collection # "none"
    BY <1>0, <2>1 DEF Store
  <2>3. QED
    BY <1>0, <2>1, <2>2 DEF StoreInv, VouchInv, SettingInv, EmptyInv, Ready
<1>8. ASSUME NEW w \in Workers, UpsertRefused(w) PROVE StoreInv'
  <2>1. UNCHANGED <<store, setting, collection, faults, index, raced>> /\ ~Idle(w) /\ ~Takes(w)
    BY <1>8 DEF UpsertRefused, qdrant
  <2>2. "operator" \in raced
    BY <2>1, TakesUnlessDeleted
  <2>3. QED
    BY <1>0, <2>1, <2>2 DEF StoreInv, VouchInv, SettingInv, EmptyInv
<1>9. ASSUME NEW j \in Jobs, Edit(j) PROVE StoreInv'
  BY <1>1, <1>9 DEF Edit, qdrant, history
<1>10. ASSUME NEW r \in Reindexers, Reindex(r) \/ Enqueue(r) \/ ReindexFails(r) PROVE StoreInv'
  BY <1>1, <1>10 DEF Reindex, Enqueue, ReindexFails, qdrant, history
<1>11. ASSUME NEW w \in Workers, Dequeue(w) \/ ProcessFails(w) PROVE StoreInv'
  BY <1>1, <1>11 DEF Dequeue, ProcessFails, qdrant, history
<1>12. CASE RedisRestart \/ UNCHANGED vars
  BY <1>1, <1>12 DEF RedisRestart, vars, qdrant, history
<1>13. QED
  BY <1>2, <1>3, <1>4, <1>5, <1>6, <1>7, <1>8, <1>9, <1>10, <1>11, <1>12 DEF Next, Connect, Consume
-----------------------------------------------------------------------------
(* The order of the versions                                               *)

(* Nothing failed, nobody met.                                             *)
Calm == raced = {} /\ \A k \in FaultKinds : faults[k] = 0

(* Where an event of a job may be.                                         *)
Unpushed(j) == \E r \in Reindexers : \E i \in 1..Len(snapshot[r]) : snapshot[r][i].job = j
Queued(j)   == \E i \in 1..Len(queue) : queue[i].job = j
Held(j)     == \E w \in Workers : ~Idle(w) /\ work[w].job = j

(* The rows a call has yet to push are the newest read; so is the last of  *)
(* a job's events wherever it is: unless one is behind it, each of what    *)
(* waits, what is in hand and what is indexed.                             *)
OneCall    == \A r, s \in Reindexers : snapshot[r] # <<>> /\ snapshot[s] # <<>> => r = s
CallFresh  == \A r \in Reindexers, j \in Jobs : \A i \in 1..Len(snapshot[r]) :
                snapshot[r][i].job = j => snapshot[r][i].version = read[j]
QueueFresh == \A j \in Jobs : \A i \in 1..Len(queue) :
                queue[i].job = j =>
                  \/ Unpushed(j) \/ queue[i].version = read[j]
                  \/ \E k \in i + 1..Len(queue) : queue[k].job = j
HeldFresh  == \A j \in Jobs, w \in Workers :
                ~Idle(w) /\ work[w].job = j => Unpushed(j) \/ Queued(j) \/ work[w].version = read[j]
IndexFresh == \A j \in Jobs : Unpushed(j) \/ Queued(j) \/ Held(j) \/ index[j] = read[j]

NewestLast  == OneCall /\ CallFresh /\ QueueFresh /\ HeldFresh /\ IndexFresh
OrderInv == Calm => NewestLast

(* A fault and a meeting are for good.                                     *)
LEMMA CalmBefore ==
  ASSUME TypeOK, [Next]_vars, Calm'
  PROVE  Calm /\ UNCHANGED <<raced, faults>>
<1>1. ASSUME NEW k \in FaultKinds PROVE ~Fault(k)
  <2>1. faults[k] \in Nat /\ faults'[k] = 0
    BY DEF Calm, TypeOK
  <2>2. QED
    BY <2>1, FaultEffect
<1>2. UNCHANGED faults
  BY <1>1 DEF Next, Edit, Connect, List, Create, Stop, Crash, Reindex, Enqueue, ReindexFails, Consume, Dequeue,
     Upsert, UpsertRefused, ProcessFails, Switch, DeleteCollection, RedisRestart, vars
<1>3. raced \subseteq raced'
  BY DEF Next, Edit, Connect, List, Create, Stop, Crash, Reindex, Enqueue, ReindexFails, Consume, Dequeue,
     Upsert, UpsertRefused, ProcessFails, Switch, DeleteCollection, RedisRestart, vars, history
<1>4. QED
  BY <1>2, <1>3 DEF Calm

LEMMA ReindexOrder ==
  ASSUME TypeOK, NewestLast, NEW r \in Reindexers, Reindex(r), UNCHANGED raced, raced = {}
  PROVE  NewestLast'
<1>1. /\ snapshot \in [Reindexers -> Seq(Event)] /\ snapshot' = [snapshot EXCEPT ![r] = Rows] /\ read' = version
      /\ UNCHANGED <<queue, work, index>>
  BY DEF Reindex, TypeOK
<1>2. \A s \in Reindexers : snapshot[s] = <<>>
  BY DEF Reindex
<1>3. snapshot'[r] = Rows /\ \A s \in Reindexers \ {r} : snapshot'[s] = <<>>
  BY <1>1, <1>2
<1>4. \A j \in Jobs : Unpushed(j)'
  BY <1>3, RowsAreAll DEF Unpushed
<1>5. OneCall'
  BY <1>3 DEF OneCall
<1>6. CallFresh'
  <2>1. SUFFICES ASSUME NEW s \in Reindexers, NEW j \in Jobs, NEW i \in 1..Len(snapshot'[s]), snapshot'[s][i].job = j
                 PROVE  snapshot'[s][i].version = read'[j]
    BY DEF CallFresh
  <2>2. s = r
    BY <1>3, <2>1
  <2>3. snapshot'[s] = Rows /\ i \in 1..Len(Rows) /\ Rows[i].job = j
    BY <1>3, <2>1, <2>2
  <2>4. QED
    BY <1>1, <2>3, RowsAreAll
<1>7. QED
  BY <1>4, <1>5, <1>6 DEF NewestLast, QueueFresh, HeldFresh, IndexFresh

LEMMA EnqueueOrder ==
  ASSUME TypeOK, NewestLast, NEW r \in Reindexers, Enqueue(r)
  PROVE  NewestLast'
<1> DEFINE e == Head(snapshot[r])
           n == Len(queue)
<1>1. /\ snapshot[r] \in Seq(Event) /\ snapshot[r] # <<>> /\ queue \in Seq(Event) /\ n \in Nat
      /\ snapshot' = [snapshot EXCEPT ![r] = Tail(snapshot[r])] /\ queue' = Append(queue, e)
      /\ UNCHANGED <<work, index, read>>
  BY DEF Enqueue, TypeOK
<1>2. /\ e = snapshot[r][1] /\ e \in Event /\ Len(snapshot[r]) \in Nat \ {0}
      /\ Len(Tail(snapshot[r])) = Len(snapshot[r]) - 1
      /\ \A i \in 1..Len(snapshot[r]) - 1 : Tail(snapshot[r])[i] = snapshot[r][i + 1]
  BY <1>1, SubSeqFacts
<1>3. /\ \A s \in Reindexers \ {r} : snapshot[s] = <<>> /\ snapshot'[s] = <<>>
      /\ snapshot'[r] = Tail(snapshot[r])
  BY <1>1 DEF NewestLast, OneCall, TypeOK
<1>4. /\ Len(queue') = n + 1 /\ queue'[n + 1] = e
      /\ \A i \in 1..n : queue'[i] = queue[i]
  BY <1>1, <1>2
<1>5. \A j \in Jobs : e.job = j => e.version = read[j]
  BY <1>2 DEF NewestLast, CallFresh
<1>6. \A j \in Jobs : e.job = j => Queued(j)'
  BY <1>1, <1>4 DEF Queued
<1>7. \A j \in Jobs : Queued(j) => Queued(j)'
  BY <1>1, <1>4 DEF Queued
<1>8. ASSUME NEW j \in Jobs, e.job # j, Unpushed(j) PROVE Unpushed(j)'
  <2>1. PICK s \in Reindexers : \E x \in 1..Len(snapshot[s]) : snapshot[s][x].job = j
    BY <1>8 DEF Unpushed
  <2>2. s = r
    BY <1>3, <2>1
  <2>3. PICK i \in 1..Len(snapshot[r]) : snapshot[r][i].job = j
    BY <2>1, <2>2
  <2>4. i # 1 /\ i - 1 \in 1..Len(snapshot[r]) - 1 /\ Tail(snapshot[r])[i - 1] = snapshot[r][i]
    BY <1>2, <1>8, <2>3
  <2>5. i - 1 \in 1..Len(snapshot'[r]) /\ snapshot'[r][i - 1].job = j
    BY <1>2, <1>3, <2>3, <2>4
  <2>6. QED
    BY <2>5 DEF Unpushed
<1>9. \A j \in Jobs : Held(j)' <=> Held(j)
  BY <1>1 DEF Held, Idle
<1> HIDE DEF e, n
<1>10. OneCall'
  BY <1>3 DEF OneCall
<1>11. CallFresh'
  <2>1. SUFFICES ASSUME NEW s \in Reindexers, NEW j \in Jobs, NEW i \in 1..Len(snapshot'[s]), snapshot'[s][i].job = j
                 PROVE  snapshot'[s][i].version = read'[j]
    BY DEF CallFresh
  <2>2. s = r
    BY <1>3, <2>1
  <2>3. snapshot'[s] = Tail(snapshot[r]) /\ i \in 1..Len(snapshot[r]) - 1
    BY <1>2, <1>3, <2>1, <2>2
  <2>4. i + 1 \in 1..Len(snapshot[r]) /\ snapshot'[s][i] = snapshot[r][i + 1]
    BY <1>2, <2>3
  <2>5. QED
    BY <1>1, <2>1, <2>4 DEF NewestLast, CallFresh
<1>12. QueueFresh'
  <2>1. SUFFICES ASSUME NEW j \in Jobs, NEW i \in 1..Len(queue'), queue'[i].job = j
                 PROVE  \/ Unpushed(j)' \/ queue'[i].version = read'[j]
                        \/ \E k \in i + 1..Len(queue') : queue'[k].job = j
    BY DEF QueueFresh
  <2>2. CASE i = n + 1
    BY <1>1, <1>4, <1>5, <2>1, <2>2
  <2>3. CASE i # n + 1 /\ e.job = j
    <3>1. n + 1 \in i + 1..Len(queue')
      BY <1>1, <1>4, <2>1, <2>3 DEF n
    <3>2. QED
      BY <1>4, <2>3, <3>1
  <2>4. CASE i # n + 1 /\ e.job # j
    <3>1. i \in 1..n /\ queue[i].job = j
      BY <1>1, <1>4, <2>1, <2>4 DEF n
    <3>2. Unpushed(j) \/ queue[i].version = read[j] \/ \E k \in i + 1..n : queue[k].job = j
      BY <3>1 DEF NewestLast, QueueFresh, n
    <3>3. ASSUME NEW k \in i + 1..n, queue[k].job = j PROVE k \in i + 1..Len(queue') /\ queue'[k].job = j
      BY <1>1, <1>4, <3>1, <3>3 DEF n
    <3>4. QED
      BY <1>1, <1>4, <1>8, <2>4, <3>1, <3>2, <3>3
  <2>5. QED
    BY <2>2, <2>3, <2>4
<1>13. HeldFresh'
  BY <1>1, <1>6, <1>7, <1>8 DEF NewestLast, HeldFresh, Idle
<1>14. IndexFresh'
  BY <1>1, <1>6, <1>7, <1>8, <1>9 DEF NewestLast, IndexFresh
<1>15. QED
  BY <1>10, <1>11, <1>12, <1>13, <1>14 DEF NewestLast

LEMMA DequeueOrder ==
  ASSUME TypeOK, NewestLast, NEW w \in Workers, Dequeue(w), UNCHANGED raced, raced = {}
  PROVE  NewestLast'
<1> DEFINE e == Head(queue)
           n == Len(queue)
<1>1. /\ queue \in Seq(Event) /\ queue # <<>> /\ queue' = Tail(queue) /\ Idle(w)
      /\ work' = [work EXCEPT ![w] = e] /\ work \in [Workers -> Event \cup {NoEvent}]
      /\ UNCHANGED <<snapshot, index, read>>
      /\ \A v \in Workers : work[v].job # e.job
  BY DEF Dequeue, TypeOK
<1>2. /\ e = queue[1] /\ e \in Event /\ n \in Nat \ {0} /\ Len(queue') = n - 1
      /\ \A i \in 1..n - 1 : queue'[i] = queue[i + 1]
  BY <1>1, SubSeqFacts
<1>3. work'[w] = e /\ ~Idle(w)' /\ \A v \in Workers \ {w} : work'[v] = work[v] /\ Idle(v)' = Idle(v)
  BY <1>1, <1>2, EventFacts DEF Idle
<1>4. \A j \in Jobs : Unpushed(j)' <=> Unpushed(j)
  BY <1>1 DEF Unpushed
<1> HIDE DEF e, n
<1>5. ASSUME NEW j \in Jobs, NEW i \in 2..n, queue[i].job = j
      PROVE  i - 1 \in 1..Len(queue') /\ queue'[i - 1].job = j /\ Queued(j)'
  <2>1. i - 1 \in 1..n - 1 /\ i - 1 + 1 = i
    BY <1>2
  <2>2. i - 1 \in 1..Len(queue') /\ queue'[i - 1].job = j
    BY <1>2, <1>5, <2>1
  <2>3. QED
    BY <2>2 DEF Queued
<1>6. ASSUME NEW j \in Jobs, Queued(j) PROVE e.job = j \/ Queued(j)'
  <2>1. PICK i \in 1..n : queue[i].job = j
    BY <1>6 DEF Queued, n
  <2>2. i = 1 \/ i \in 2..n
    BY <1>2, <2>1
  <2>3. QED
    BY <1>2, <1>5, <2>1, <2>2
<1>7. OneCall' /\ CallFresh'
  BY <1>1 DEF NewestLast, OneCall, CallFresh
<1>8. QueueFresh'
  <2>1. SUFFICES ASSUME NEW j \in Jobs, NEW i \in 1..Len(queue'), queue'[i].job = j
                 PROVE  \/ Unpushed(j)' \/ queue'[i].version = read'[j]
                        \/ \E k \in i + 1..Len(queue') : queue'[k].job = j
    BY DEF QueueFresh
  <2>2. i + 1 \in 1..n /\ queue'[i] = queue[i + 1]
    BY <1>2, <2>1
  <2>3. Unpushed(j) \/ queue[i + 1].version = read[j] \/ \E k \in i + 1 + 1..n : queue[k].job = j
    BY <2>1, <2>2 DEF NewestLast, QueueFresh, n
  <2>4. ASSUME NEW k \in i + 1 + 1..n, queue[k].job = j PROVE k - 1 \in i + 1..Len(queue') /\ queue'[k - 1].job = j
    <3>1. k \in 2..n /\ k - 1 >= i + 1 /\ k - 1 \in Nat
      BY <1>2, <2>1, <2>2
    <3>2. QED
      BY <1>5, <2>4, <3>1, <2>2
  <2>5. QED
    BY <1>1, <1>4, <2>2, <2>3, <2>4
<1>9. HeldFresh'
  <2>1. SUFFICES ASSUME NEW j \in Jobs, NEW v \in Workers, ~Idle(v)', work'[v].job = j
                 PROVE  Unpushed(j)' \/ Queued(j)' \/ work'[v].version = read'[j]
    BY DEF HeldFresh
  <2>2. CASE v = w
    <3>1. 1 \in 1..n /\ queue[1].job = j
      BY <1>2, <1>3, <2>1, <2>2
    <3>2. Unpushed(j) \/ queue[1].version = read[j] \/ \E k \in 1 + 1..n : queue[k].job = j
      BY <3>1 DEF NewestLast, QueueFresh, n
    <3>3. QED
      BY <1>1, <1>2, <1>3, <1>4, <1>5, <2>2, <3>2
  <2>3. CASE v # w
    <3>1. ~Idle(v) /\ work[v].job = j /\ work'[v] = work[v] /\ e.job # j
      BY <1>1, <1>3, <2>1, <2>3
    <3>2. QED
      BY <1>1, <1>4, <1>6, <3>1 DEF NewestLast, HeldFresh
  <2>4. QED
    BY <2>2, <2>3
<1>10. IndexFresh'
  <2>1. SUFFICES ASSUME NEW j \in Jobs PROVE Unpushed(j)' \/ Queued(j)' \/ Held(j)' \/ index'[j] = read'[j]
    BY DEF IndexFresh
  <2>2. e.job = j => Held(j)'
    BY <1>3 DEF Held
  <2>3. Held(j) => Held(j)'
    BY <1>1, <1>3 DEF Held
  <2>4. QED
    BY <1>1, <1>4, <1>6, <2>2, <2>3 DEF NewestLast, IndexFresh
<1>11. QED
  BY <1>7, <1>8, <1>9, <1>10 DEF NewestLast

LEMMA UpsertOrder ==
  ASSUME TypeOK, NewestLast, NEW w \in Workers, Upsert(w)
  PROVE  NewestLast'
<1> DEFINE e == work[w]
<1>1. /\ ~Idle(w) /\ e \in Event /\ e.job \in Jobs /\ UNCHANGED <<snapshot, queue, read>>
      /\ work' = [work EXCEPT ![w] = NoEvent] /\ index' = [index EXCEPT ![e.job] = e.version]
      /\ index \in [Jobs -> 0..MaxEdits + 1] /\ work \in [Workers -> Event \cup {NoEvent}]
  BY EventFacts DEF Upsert, TypeOK, Idle
<1>2. Idle(w)' /\ \A v \in Workers \ {w} : work'[v] = work[v] /\ Idle(v)' = Idle(v)
  BY <1>1 DEF Idle
<1>3. \A j \in Jobs : (Unpushed(j)' <=> Unpushed(j)) /\ (Queued(j)' <=> Queued(j))
  BY <1>1 DEF Unpushed, Queued
<1>4. index'[e.job] = e.version /\ \A j \in Jobs : j # e.job => index'[j] = index[j]
  BY <1>1
<1> HIDE DEF e
<1>5. OneCall' /\ CallFresh'
  BY <1>1 DEF NewestLast, OneCall, CallFresh
<1>6. QueueFresh'
  BY <1>1, <1>3 DEF NewestLast, QueueFresh
<1>7. HeldFresh'
  BY <1>1, <1>2, <1>3 DEF NewestLast, HeldFresh
<1>8. IndexFresh'
  <2>1. SUFFICES ASSUME NEW j \in Jobs PROVE Unpushed(j)' \/ Queued(j)' \/ Held(j)' \/ index'[j] = read'[j]
    BY DEF IndexFresh
  <2>2. CASE e.job = j
    <3>1. Unpushed(j) \/ Queued(j) \/ e.version = read[j]
      BY <1>1, <2>2 DEF NewestLast, HeldFresh, e
    <3>2. QED
      BY <1>1, <1>3, <1>4, <2>2, <3>1
  <2>3. CASE e.job # j
    <3>1. Held(j) => Held(j)'
      BY <1>2, <2>3 DEF Held, e
    <3>2. QED
      BY <1>1, <1>3, <1>4, <2>3, <3>1 DEF NewestLast, IndexFresh
  <2>4. QED
    BY <2>2, <2>3
<1>9. QED
  BY <1>5, <1>6, <1>7, <1>8 DEF NewestLast
LEMMA OrderStep ==
  ASSUME TypeInv, StoreInv, OrderInv, [Next]_vars
  PROVE  OrderInv'
<1> SUFFICES ASSUME Calm' PROVE NewestLast'
  BY DEF OrderInv
<1>1. /\ TypeOK /\ NewestLast /\ UNCHANGED <<raced, faults>> /\ raced = {} /\ faults["switch"] = 0
      /\ \A k \in FaultKinds : ~Fault(k)
  <2>1. TypeOK /\ Calm /\ UNCHANGED <<raced, faults>>
    BY CalmBefore DEF TypeInv
  <2>2. ASSUME NEW k \in FaultKinds PROVE ~Fault(k)
    BY SMTT(30), <2>1, FaultEffect DEF TypeOK
  <2>3. QED
    BY <2>1, <2>2 DEF OrderInv, Calm
<1>2. ASSUME UNCHANGED <<snapshot, queue, work, index, read>> PROVE NewestLast'
  BY <1>1, <1>2 DEF NewestLast, OneCall, CallFresh, QueueFresh, HeldFresh, IndexFresh, Unpushed, Queued, Held, Idle
<1>3. ASSUME NEW p \in Processes, List(p) PROVE NewestLast'
  <2>1. setting = "hybrid" /\ collection \in {"none", "hybrid"} /\ EmptyInv /\ index \in [Jobs -> 0..MaxEdits + 1]
    BY <1>1 DEF StoreInv, SettingInv, TypeOK
  <2>2. UNCHANGED index
    <3>1. CASE collection = setting
      BY <1>3, <3>1 DEF List
    <3>2. CASE collection # setting
      <4>1. index' = [j \in Jobs |-> 0] /\ \A j \in Jobs : index[j] = 0
        BY <1>3, <2>1, <3>2 DEF List, EmptyInv
      <4>2. QED
        BY <2>1, <4>1
    <3>3. QED
      BY <3>1, <3>2
  <2>3. QED
    BY <1>2, <1>3, <2>2 DEF List, history
<1>4. ~DeleteCollection
  BY <1>1 DEF DeleteCollection, StoreInv, SettingInv
<1>5. ASSUME NEW w \in Workers, UpsertRefused(w) PROVE NewestLast'
  BY <1>1, <1>5, TakesUnlessDeleted DEF UpsertRefused
<1>6. ASSUME NEW p \in Processes, Create(p) \/ Stop(p) PROVE NewestLast'
  BY <1>2, <1>6 DEF Create, Stop, history
<1>7. ASSUME NEW j \in Jobs, Edit(j) PROVE NewestLast'
  BY <1>2, <1>7 DEF Edit, history
<1>8. CASE UNCHANGED vars
  BY <1>2, <1>8 DEF vars, history
<1>9. ~Switch /\ ~RedisRestart /\ (\A p \in Processes : ~Crash(p))
      /\ (\A r \in Reindexers : ~ReindexFails(r)) /\ (\A w \in Workers : ~ProcessFails(w))
  BY <1>1 DEF Switch, RedisRestart, Crash, ReindexFails, ProcessFails
<1>10. QED
  BY <1>1, <1>3, <1>4, <1>5, <1>6, <1>7, <1>8, <1>9, ReindexOrder, EnqueueOrder, DequeueOrder, UpsertOrder
     DEF Next, Connect, Consume

-----------------------------------------------------------------------------
(* Nothing newer is overwritten, whatever fails: the index, what is in     *)
(* hand, the list and the rows a call has yet to push are in the order of  *)
(* the versions of each job, unless two calls or two workers met.          *)

AtLeast(j, v, s) == \A i \in 1..Len(s) : s[i].job = j => v <= s[i].version
AtMost(row, s)   == \A i \in 1..Len(s) : s[i].version <= row[s[i].job]
Rising(s)        == \A i, k \in 1..Len(s) : i < k /\ s[i].job = s[k].job => s[i].version <= s[k].version

(* What has yet to come of a job is no older than v.                       *)
Behind(j, v) == AtLeast(j, v, queue) /\ \A r \in Reindexers : AtLeast(j, v, snapshot[r])

(* The same of the next state.                                             *)
BehindNext(j, v) == AtLeast(j, v, queue') /\ \A r \in Reindexers : AtLeast(j, v, snapshot'[r])

CallOrder  == \A r \in Reindexers : Rising(snapshot[r]) /\ AtMost(version, snapshot[r])
QueueOrder == /\ Rising(queue) /\ AtMost(version, queue)
              /\ \A r \in Reindexers, i \in 1..Len(queue) :
                   AtLeast(queue[i].job, queue[i].version, snapshot[r])
HeldOrder  == \A w \in Workers : ~Idle(w) =>
                /\ work[w].version <= version[work[w].job]
                /\ Behind(work[w].job, work[w].version)
                /\ \A v \in Workers : ~Idle(v) /\ work[v].job = work[w].job => v = w
IndexOrder == \A j \in Jobs :
                /\ index[j] <= version[j] /\ Behind(j, index[j])
                /\ \A w \in Workers : ~Idle(w) /\ work[w].job = j => index[j] <= work[w].version

InOrder  == OneCall /\ CallOrder /\ QueueOrder /\ HeldOrder /\ IndexOrder
ApartInv == Apart => InOrder

(* The order of a list survives a pop from its head ...                    *)
LEMMA RestOrder ==
  ASSUME NEW s \in Seq(Event), s # <<>>
  PROVE  /\ Rising(s) => Rising(Tail(s)) /\ AtLeast(Head(s).job, Head(s).version, Tail(s))
         /\ \A row : AtMost(row, s) => AtMost(row, Tail(s)) /\ Head(s).version <= row[Head(s).job]
         /\ \A j, v : AtLeast(j, v, s) => /\ AtLeast(j, v, Tail(s))
                                          /\ Head(s).job = j => v <= Head(s).version
<1> DEFINE n == Len(s)
           t == Tail(s)
<1>1. /\ n \in Nat \ {0} /\ Head(s) = s[1] /\ Len(t) = n - 1
      /\ \A i \in 1..n - 1 : t[i] = s[i + 1]
  BY SubSeqFacts
<1> HIDE DEF n, t
<1>2. 1 \in 1..n /\ \A i \in 1..Len(t) : i + 1 \in 2..n /\ i + 1 \in 1..n /\ 1 < i + 1 /\ t[i] = s[i + 1]
  BY <1>1
<1>3. ASSUME Rising(s) PROVE Rising(t) /\ AtLeast(s[1].job, s[1].version, t)
  <2>1. ASSUME NEW i \in 1..Len(t), NEW k \in 1..Len(t), i < k, t[i].job = t[k].job
        PROVE  t[i].version <= t[k].version
    <3>1. i + 1 < k + 1
      BY <2>1
    <3>2. QED
      BY <1>2, <1>3, <2>1, <3>1 DEF Rising, n
  <2>2. ASSUME NEW i \in 1..Len(t), t[i].job = s[1].job PROVE s[1].version <= t[i].version
    BY <1>2, <1>3, <2>2 DEF Rising, n
  <2>3. QED
    BY <2>1, <2>2 DEF Rising, AtLeast
<1>4. ASSUME NEW row, AtMost(row, s) PROVE AtMost(row, t) /\ s[1].version <= row[s[1].job]
  BY <1>2, <1>4 DEF AtMost, n
<1>5. ASSUME NEW j, NEW v, AtLeast(j, v, s) PROVE AtLeast(j, v, t) /\ (s[1].job = j => v <= s[1].version)
  BY <1>2, <1>5 DEF AtLeast, n
<1>6. QED
  BY <1>1, <1>3, <1>4, <1>5 DEF t

(* ... and a push of something that is no older than the rest.             *)
LEMMA PushOrder ==
  ASSUME NEW s \in Seq(Event), NEW e \in Event
  PROVE  /\ Rising(s) /\ (\A i \in 1..Len(s) : s[i].job = e.job => s[i].version <= e.version)
              => Rising(Append(s, e))
         /\ \A row : AtMost(row, s) /\ e.version <= row[e.job] => AtMost(row, Append(s, e))
         /\ \A j, v : AtLeast(j, v, s) /\ (e.job = j => v <= e.version) => AtLeast(j, v, Append(s, e))
<1> DEFINE n == Len(s)
           t == Append(s, e)
<1>1. n \in Nat /\ Len(t) = n + 1 /\ t[n + 1] = e /\ \A i \in 1..n : t[i] = s[i]
  OBVIOUS
<1> HIDE DEF n, t
<1>2. \A i \in 1..Len(t) : (i = n + 1 /\ t[i] = e) \/ (i \in 1..n /\ t[i] = s[i])
  BY <1>1
<1>3. ASSUME Rising(s), \A i \in 1..n : s[i].job = e.job => s[i].version <= e.version
      PROVE  Rising(t)
  <2>1. SUFFICES ASSUME NEW i \in 1..Len(t), NEW k \in 1..Len(t), i < k, t[i].job = t[k].job
                 PROVE  t[i].version <= t[k].version
    BY DEF Rising
  <2>2. i \in 1..n /\ t[i] = s[i]
    BY <1>1, <2>1
  <2>3. CASE k = n + 1
    BY <1>1, <1>3, <2>1, <2>2, <2>3
  <2>4. CASE k \in 1..n /\ t[k] = s[k]
    BY <1>3, <2>1, <2>2, <2>4 DEF Rising, n
  <2>5. QED
    BY <1>2, <2>3, <2>4
<1>4. ASSUME NEW row, AtMost(row, s), e.version <= row[e.job] PROVE AtMost(row, t)
  BY <1>2, <1>4 DEF AtMost, n
<1>5. ASSUME NEW j, NEW v, AtLeast(j, v, s), e.job = j => v <= e.version PROVE AtLeast(j, v, t)
  BY <1>2, <1>5 DEF AtLeast, n
<1>6. QED
  BY <1>3, <1>4, <1>5 DEF n, t

(* Nothing comes before an empty list, or behind it.                       *)
LEMMA EmptyOrder ==
  /\ Rising(<<>>)
  /\ \A row : AtMost(row, <<>>)
  /\ \A j, v : AtLeast(j, v, <<>>)
BY DEF Rising, AtMost, AtLeast

(* An edit, and whatever only takes things away, keeps the order: a        *)
(* failure, a crash, a Redis restart, the end of a request, the            *)
(* collection dropped.                                                     *)
LEMMA LessKeepsOrder ==
  ASSUME TypeOK, TypeOK', InOrder,
         \A r \in Reindexers : snapshot'[r] \in {snapshot[r], <<>>},
         queue' \in {queue, <<>>},
         \A w \in Workers : work'[w] \in {work[w], NoEvent},
         \A j \in Jobs : index'[j] \in {index[j], 0} /\ version[j] <= version'[j]
  PROVE  InOrder'
<1>1. ASSUME NEW w \in Workers, ~Idle(w)'
      PROVE  /\ ~Idle(w) /\ work'[w] = work[w]
             /\ work[w].job \in Jobs /\ work[w].version \in Nat
  <2>1. ~Idle(w) /\ work'[w] = work[w] /\ work[w] \in Event \cup {NoEvent}
    BY <1>1 DEF Idle, TypeOK
  <2>2. work[w] \in Event
    BY <2>1 DEF Idle
  <2>3. QED
    BY <2>1, <2>2, EventFacts, BoundsAssumption
<1>2. /\ \A j \in Jobs : version[j] \in Nat /\ version'[j] \in Nat /\ index[j] \in Nat
      /\ queue \in Seq(Event) /\ \A r \in Reindexers : snapshot[r] \in Seq(Event)
  <2>1. /\ version \in [Jobs -> 1..MaxEdits + 1] /\ version' \in [Jobs -> 1..MaxEdits + 1]
        /\ index \in [Jobs -> 0..MaxEdits + 1]
    BY DEF TypeOK
  <2>2. \A j \in Jobs : version[j] \in Nat /\ version'[j] \in Nat /\ index[j] \in Nat
    BY <2>1, BoundsAssumption
  <2>3. QED
    BY <2>2 DEF TypeOK
<1>3. ASSUME NEW s \in Seq(Event) PROVE /\ AtMost(version, s) => AtMost(version', s)
                                        /\ \A j : AtLeast(j, 0, s)
  <2>1. ASSUME NEW i \in 1..Len(s) PROVE s[i].job \in Jobs /\ s[i].version \in Nat
    BY EventFacts, BoundsAssumption
  <2>2. ASSUME AtMost(version, s), NEW i \in 1..Len(s) PROVE s[i].version <= version'[s[i].job]
    <3> DEFINE j == s[i].job
               v == s[i].version
    <3>1. j \in Jobs /\ v \in Nat /\ v <= version[j]
      BY <2>1, <2>2 DEF AtMost
    <3>2. version[j] \in Nat /\ version'[j] \in Nat /\ version[j] <= version'[j]
      BY <1>2, <3>1
    <3> HIDE DEF j, v
    <3>3. v <= version'[j]
      BY <3>1, <3>2
    <3>4. QED
      BY <3>3 DEF j, v
  <2>3. \A j : AtLeast(j, 0, s)
    BY <2>1 DEF AtLeast
  <2>4. QED
    BY <2>2, <2>3 DEF AtMost
<1>4. ASSUME NEW j, NEW v, Behind(j, v) PROVE BehindNext(j, v)
  BY <1>4, EmptyOrder DEF Behind, BehindNext
<1>5. \A j \in Jobs : Behind(j, 0)
  BY <1>2, <1>3 DEF Behind
<1>6. OneCall'
  BY DEF InOrder, OneCall
<1>7. CallOrder'
  BY <1>2, <1>3, EmptyOrder DEF InOrder, CallOrder
<1>8. QueueOrder'
  <2>1. Rising(queue') /\ AtMost(version', queue')
    BY <1>2, <1>3, EmptyOrder DEF InOrder, QueueOrder
  <2>2. ASSUME NEW r \in Reindexers, NEW i \in 1..Len(queue')
        PROVE  AtLeast(queue'[i].job, queue'[i].version, snapshot'[r])
    <3>1. queue' = queue
      BY <2>2
    <3>2. QED
      BY <2>2, <3>1, EmptyOrder DEF InOrder, QueueOrder
  <2>3. QED
    BY <2>1, <2>2 DEF QueueOrder
<1>9. HeldOrder'
  <2>1. SUFFICES ASSUME NEW w \in Workers, ~Idle(w)'
                 PROVE  /\ work'[w].version <= version'[work'[w].job]
                        /\ BehindNext(work'[w].job, work'[w].version)
                        /\ \A v \in Workers : ~Idle(v)' /\ work'[v].job = work'[w].job => v = w
    BY DEF HeldOrder, Behind, BehindNext
  <2>2. /\ work[w].version <= version[work[w].job] /\ Behind(work[w].job, work[w].version)
        /\ \A v \in Workers : ~Idle(v) /\ work[v].job = work[w].job => v = w
    BY <1>1, <2>1 DEF InOrder, HeldOrder
  <2>3. work'[w].version <= version'[work'[w].job]
    <3>1. version[work[w].job] <= version'[work[w].job]
      BY <1>1, <2>1
    <3>2. QED
      BY <1>1, <1>2, <2>1, <2>2, <3>1
  <2>4. BehindNext(work'[w].job, work'[w].version)
    BY <1>1, <1>4, <2>1, <2>2
  <2>5. QED
    BY <1>1, <2>1, <2>2, <2>3, <2>4
<1>10. IndexOrder'
  <2>1. SUFFICES ASSUME NEW j \in Jobs
                 PROVE  /\ index'[j] <= version'[j] /\ BehindNext(j, index'[j])
                        /\ \A w \in Workers : ~Idle(w)' /\ work'[w].job = j => index'[j] <= work'[w].version
    BY DEF IndexOrder, Behind, BehindNext
  <2>2. index[j] <= version[j] /\ Behind(j, index[j])
        /\ \A w \in Workers : ~Idle(w) /\ work[w].job = j => index[j] <= work[w].version
    BY DEF InOrder, IndexOrder
  <2>3. CASE index'[j] = index[j]
    <3>1. index'[j] <= version'[j]
      BY <1>2, <2>2, <2>3
    <3>2. BehindNext(j, index'[j])
      BY <1>4, <2>2, <2>3
    <3>3. QED
      BY <1>1, <2>2, <2>3, <3>1, <3>2
  <2>4. CASE index'[j] = 0
    BY <1>1, <1>2, <1>4, <1>5, <2>4
  <2>5. QED
    BY <2>3, <2>4
<1>11. QED
  BY <1>6, <1>7, <1>8, <1>9, <1>10 DEF InOrder

(* A call reads what no list and no index is ahead of.                     *)
LEMMA ReindexInOrder ==
  ASSUME TypeOK, InOrder, NEW r \in Reindexers, Reindex(r),
         \A s \in Reindexers : snapshot[s] = <<>>
  PROVE  InOrder'
<1>1. /\ snapshot' = [snapshot EXCEPT ![r] = Rows] /\ snapshot \in [Reindexers -> Seq(Event)]
      /\ UNCHANGED <<version, queue, work, index>>
  BY DEF Reindex, TypeOK, table
<1>2. snapshot'[r] = Rows /\ \A s \in Reindexers \ {r} : snapshot'[s] = <<>>
  BY <1>1
<1>3. /\ queue \in Seq(Event) /\ Rows \in Seq(Event)
      /\ \A j \in Jobs : version[j] \in Nat
      /\ \A i \in 1..Len(Rows) : Rows[i].job \in Jobs /\ Rows[i].version = version[Rows[i].job]
  <2>1. /\ Rows \in Seq(Event)
        /\ \A i \in 1..Len(Rows) : Rows[i].version = version[Rows[i].job]
    BY RowsAreAll
  <2>2. \A i \in 1..Len(Rows) : Rows[i].job \in Jobs
    <3> HIDE DEF Rows
    <3>1. \A i \in 1..Len(Rows) : Rows[i] \in Event
      BY <2>1
    <3>2. QED
      BY <3>1, EventFacts
  <2>3. queue \in Seq(Event) /\ \A j \in Jobs : version[j] \in Nat
    <3>1. queue \in Seq(Event) /\ version \in [Jobs -> 1..MaxEdits + 1]
      BY DEF TypeOK
    <3>2. QED
      BY <3>1, BoundsAssumption
  <2>4. QED
    BY <2>1, <2>2, <2>3
<1>4. Rising(Rows) /\ AtMost(version, Rows)
  BY <1>3 DEF Rising, AtMost
<1>5. \A j \in Jobs : \A v : v <= version[j] => AtLeast(j, v, Rows)
  BY <1>3 DEF AtLeast
<1> HIDE DEF Rows
<1>6. ASSUME NEW j \in Jobs, NEW v, v <= version[j], Behind(j, v) PROVE Behind(j, v)'
  <2>1. ASSUME NEW s \in Reindexers PROVE AtLeast(j, v, snapshot'[s])
    <3>1. CASE s = r
      BY <1>2, <1>5, <1>6, <3>1
    <3>2. CASE s # r
      BY <1>2, <3>2, EmptyOrder
    <3>3. QED
      BY <3>1, <3>2
  <2>2. QED
    BY <1>1, <1>6, <2>1 DEF Behind
<1>7. OneCall'
  BY <1>2 DEF OneCall
<1>8. CallOrder'
  <2>1. ASSUME NEW s \in Reindexers PROVE Rising(snapshot'[s]) /\ AtMost(version', snapshot'[s])
    <3>1. CASE s = r
      BY <1>1, <1>2, <1>4, <3>1
    <3>2. CASE s # r
      BY <1>2, <3>2, EmptyOrder
    <3>3. QED
      BY <3>1, <3>2
  <2>2. QED
    BY <2>1 DEF CallOrder
<1>9. QueueOrder'
  <2>1. ASSUME NEW i \in 1..Len(queue) PROVE queue[i].job \in Jobs /\ queue[i].version <= version[queue[i].job]
    BY <1>3, EventFacts DEF InOrder, QueueOrder, AtMost
  <2>2. ASSUME NEW s \in Reindexers, NEW i \in 1..Len(queue)
        PROVE  AtLeast(queue[i].job, queue[i].version, snapshot'[s])
    <3>1. CASE s = r
      BY <1>2, <1>5, <2>1, <3>1
    <3>2. CASE s # r
      BY <1>2, <3>2, EmptyOrder
    <3>3. QED
      BY <3>1, <3>2
  <2>3. QED
    BY <1>1, <2>2 DEF InOrder, QueueOrder
<1>10. HeldOrder'
  <2>1. ASSUME NEW w \in Workers, ~Idle(w) PROVE work[w].job \in Jobs
    BY <2>1, EventFacts DEF Idle, TypeOK
  <2>2. ASSUME NEW w \in Workers, ~Idle(w)
        PROVE  \A s \in Reindexers : AtLeast(work[w].job, work[w].version, snapshot'[s])
    <3>1. /\ work[w].job \in Jobs /\ work[w].version <= version[work[w].job]
          /\ Behind(work[w].job, work[w].version)
      BY <2>1, <2>2 DEF InOrder, HeldOrder
    <3>2. QED
      BY <1>6, <3>1 DEF Behind
  <2>3. QED
    BY <1>1, <2>2 DEF InOrder, HeldOrder, Behind, Idle
<1>11. IndexOrder'
  <2>1. ASSUME NEW j \in Jobs PROVE \A s \in Reindexers : AtLeast(j, index[j], snapshot'[s])
    BY <1>6 DEF InOrder, IndexOrder, Behind
  <2>2. QED
    BY <1>1, <2>1 DEF InOrder, IndexOrder, Behind, Idle
<1>12. QED
  BY <1>7, <1>8, <1>9, <1>10, <1>11 DEF InOrder

(* What a call pushes next is behind the list, and before the rest.        *)
LEMMA EnqueueInOrder ==
  ASSUME TypeOK, InOrder, NEW r \in Reindexers, Enqueue(r)
  PROVE  InOrder'
<1> DEFINE e == Head(snapshot[r])
           t == Tail(snapshot[r])
<1>1. /\ snapshot \in [Reindexers -> Seq(Event)] /\ snapshot[r] \in Seq(Event) /\ snapshot[r] # <<>>
      /\ queue \in Seq(Event) /\ queue' = Append(queue, e) /\ snapshot' = [snapshot EXCEPT ![r] = t]
      /\ UNCHANGED <<version, work, index>>
  BY DEF Enqueue, TypeOK, table
<1>2. e \in Event /\ e.job \in Jobs /\ t \in Seq(Event)
  BY <1>1, SubSeqFacts, EventFacts
<1>3. /\ Rising(t) /\ AtMost(version, t) /\ AtLeast(e.job, e.version, t)
      /\ e.version <= version[e.job]
      /\ \A j, v : AtLeast(j, v, snapshot[r]) => AtLeast(j, v, t) /\ (e.job = j => v <= e.version)
  <2>1. Rising(snapshot[r]) /\ AtMost(version, snapshot[r])
    BY DEF InOrder, CallOrder
  <2>2. QED
    BY <1>1, <2>1, RestOrder
<1> HIDE DEF e, t
<1>4. snapshot'[r] = t /\ \A s \in Reindexers \ {r} : snapshot[s] = <<>> /\ snapshot'[s] = <<>>
  BY <1>1 DEF InOrder, OneCall
<1>5. \A j, v : AtLeast(j, v, queue) /\ (e.job = j => v <= e.version) => AtLeast(j, v, queue')
  BY <1>1, <1>2, PushOrder
<1>6. ASSUME NEW j, NEW v, Behind(j, v) PROVE BehindNext(j, v)
  <2>1. AtLeast(j, v, t) /\ (e.job = j => v <= e.version) /\ AtLeast(j, v, queue)
    BY <1>3, <1>6 DEF Behind
  <2>2. ASSUME NEW s \in Reindexers PROVE AtLeast(j, v, snapshot'[s])
    <3>1. CASE s = r
      BY <1>4, <2>1, <3>1
    <3>2. CASE s # r
      BY <1>4, <3>2, EmptyOrder
    <3>3. QED
      BY <3>1, <3>2
  <2>3. QED
    BY <1>5, <2>1, <2>2 DEF BehindNext
<1>7. OneCall'
  BY <1>4 DEF OneCall
<1>8. CallOrder'
  <2>1. ASSUME NEW s \in Reindexers PROVE Rising(snapshot'[s]) /\ AtMost(version', snapshot'[s])
    <3>1. CASE s = r
      BY <1>1, <1>3, <1>4, <3>1
    <3>2. CASE s # r
      BY <1>4, <3>2, EmptyOrder
    <3>3. QED
      BY <3>1, <3>2
  <2>2. QED
    BY <2>1 DEF CallOrder
<1>9. QueueOrder'
  <2>1. ASSUME NEW i \in 1..Len(queue)
        PROVE  AtLeast(queue[i].job, queue[i].version, t) /\ (e.job = queue[i].job => queue[i].version <= e.version)
    BY <1>3 DEF InOrder, QueueOrder
  <2>2. Rising(queue') /\ AtMost(version', queue')
    <3>1. Rising(queue) /\ AtMost(version, queue)
      BY DEF InOrder, QueueOrder
    <3>2. QED
      BY <1>1, <1>2, <1>3, <2>1, <3>1, PushOrder
  <2>3. ASSUME NEW s \in Reindexers, NEW i \in 1..Len(queue')
        PROVE  AtLeast(queue'[i].job, queue'[i].version, snapshot'[s])
    <3>1. \/ i \in 1..Len(queue) /\ queue'[i] = queue[i]
          \/ queue'[i] = e
      BY <1>1, <1>2
    <3>2. AtLeast(queue'[i].job, queue'[i].version, t)
      BY <1>3, <2>1, <3>1
    <3>3. CASE s = r
      BY <1>4, <3>2, <3>3
    <3>4. CASE s # r
      BY <1>4, <3>4, EmptyOrder
    <3>5. QED
      BY <3>3, <3>4
  <2>4. QED
    BY <2>2, <2>3 DEF QueueOrder
<1>10. HeldOrder'
  <2>1. \A w \in Workers : ~Idle(w) => BehindNext(work[w].job, work[w].version)
    BY <1>6 DEF InOrder, HeldOrder
  <2>2. QED
    BY <1>1, <2>1 DEF InOrder, HeldOrder, Behind, BehindNext, Idle
<1>11. IndexOrder'
  <2>1. \A j \in Jobs : BehindNext(j, index[j])
    BY <1>6 DEF InOrder, IndexOrder
  <2>2. QED
    BY <1>1, <2>1 DEF InOrder, IndexOrder, Behind, BehindNext, Idle
<1>12. QED
  BY <1>7, <1>8, <1>9, <1>10, <1>11 DEF InOrder

(* What a worker pops is before all that waits, and is its job's only      *)
(* event in hand.                                                          *)
LEMMA DequeueInOrder ==
  ASSUME TypeOK, InOrder, NEW w \in Workers, Dequeue(w), \A v \in Workers : work[v].job # Head(queue).job
  PROVE  InOrder'
<1> DEFINE e == Head(queue)
<1>1. /\ queue \in Seq(Event) /\ queue # <<>> /\ queue' = Tail(queue)
      /\ work' = [work EXCEPT ![w] = e] /\ work \in [Workers -> Event \cup {NoEvent}]
      /\ UNCHANGED <<version, snapshot, index>> /\ \A v \in Workers : work[v].job # e.job
  BY DEF Dequeue, TypeOK, table
<1>2. /\ e \in Event /\ e.job \in Jobs /\ e = queue[1] /\ Len(queue') = Len(queue) - 1
      /\ Len(queue) \in Nat \ {0} /\ \A i \in 1..Len(queue) - 1 : queue'[i] = queue[i + 1]
  BY <1>1, SubSeqFacts, EventFacts
<1>3. /\ Rising(queue') /\ AtMost(version, queue') /\ AtLeast(e.job, e.version, queue')
      /\ e.version <= version[e.job]
      /\ \A j, v : AtLeast(j, v, queue) => AtLeast(j, v, queue') /\ (e.job = j => v <= e.version)
  <2>1. Rising(queue) /\ AtMost(version, queue)
    BY DEF InOrder, QueueOrder
  <2>2. QED
    BY <1>1, <2>1, RestOrder
<1>4. work'[w] = e /\ ~Idle(w)' /\ \A v \in Workers \ {w} : work'[v] = work[v] /\ Idle(v)' = Idle(v)
  BY <1>1, <1>2, EventFacts DEF Idle
<1> HIDE DEF e
<1>5. \A i \in 1..Len(queue), r \in Reindexers : AtLeast(queue[i].job, queue[i].version, snapshot[r])
  BY DEF InOrder, QueueOrder
<1>6. BehindNext(e.job, e.version)
  <2>1. 1 \in 1..Len(queue)
    BY <1>2
  <2>2. \A r \in Reindexers : AtLeast(e.job, e.version, snapshot[r])
    BY <1>2, <1>5, <2>1
  <2>3. QED
    BY <1>1, <1>3, <2>2 DEF BehindNext
<1>7. \A j, v : Behind(j, v) => BehindNext(j, v) /\ (e.job = j => v <= e.version)
  BY <1>1, <1>3 DEF Behind, BehindNext
<1>8. OneCall' /\ CallOrder'
  BY <1>1 DEF InOrder, OneCall, CallOrder
<1>9. QueueOrder'
  <2>1. ASSUME NEW r \in Reindexers, NEW i \in 1..Len(queue')
        PROVE  AtLeast(queue'[i].job, queue'[i].version, snapshot'[r])
    <3>1. i + 1 \in 1..Len(queue) /\ queue'[i] = queue[i + 1]
      BY <1>2, <2>1
    <3>2. QED
      BY <1>1, <1>5, <3>1
  <2>2. QED
    BY <1>1, <1>3, <2>1 DEF QueueOrder
<1>10. HeldOrder'
  <2>1. SUFFICES ASSUME NEW v \in Workers, ~Idle(v)'
                 PROVE  /\ work'[v].version <= version'[work'[v].job]
                        /\ BehindNext(work'[v].job, work'[v].version)
                        /\ \A u \in Workers : ~Idle(u)' /\ work'[u].job = work'[v].job => u = v
    BY DEF HeldOrder, Behind, BehindNext
  <2>2. CASE v = w
    BY <1>1, <1>3, <1>4, <1>6, <2>2
  <2>3. CASE v # w
    <3>1. ~Idle(v) /\ work'[v] = work[v] /\ work[v].job # e.job
      BY <1>1, <1>4, <2>1, <2>3
    <3>2. /\ work[v].version <= version[work[v].job] /\ Behind(work[v].job, work[v].version)
          /\ \A u \in Workers : ~Idle(u) /\ work[u].job = work[v].job => u = v
      BY <3>1 DEF InOrder, HeldOrder
    <3>3. QED
      BY <1>1, <1>4, <1>7, <3>1, <3>2
  <2>4. QED
    BY <2>2, <2>3
<1>11. IndexOrder'
  <2>1. SUFFICES ASSUME NEW j \in Jobs
                 PROVE  /\ index'[j] <= version'[j] /\ BehindNext(j, index'[j])
                        /\ \A v \in Workers : ~Idle(v)' /\ work'[v].job = j => index'[j] <= work'[v].version
    BY DEF IndexOrder, Behind, BehindNext
  <2>2. /\ index[j] <= version[j] /\ Behind(j, index[j])
        /\ \A v \in Workers : ~Idle(v) /\ work[v].job = j => index[j] <= work[v].version
    BY DEF InOrder, IndexOrder
  <2>3. ASSUME NEW v \in Workers, ~Idle(v)', work'[v].job = j PROVE index[j] <= work'[v].version
    <3>1. CASE v = w
      BY <1>4, <1>7, <2>2, <2>3, <3>1
    <3>2. CASE v # w
      BY <1>4, <2>2, <2>3, <3>2
    <3>3. QED
      BY <3>1, <3>2
  <2>4. QED
    BY <1>1, <1>7, <2>2, <2>3
<1>12. QED
  BY <1>8, <1>9, <1>10, <1>11 DEF InOrder

(* What is upserted is no older than what it overwrites, and no newer than *)
(* what waits.                                                             *)
LEMMA UpsertInOrder ==
  ASSUME TypeOK, InOrder, NEW w \in Workers, Upsert(w)
  PROVE  InOrder' /\ \A j \in Jobs : index[j] <= index'[j]
<1> DEFINE e == work[w]
<1>1. /\ ~Idle(w) /\ e \in Event /\ e.job \in Jobs /\ UNCHANGED <<version, snapshot, queue>>
      /\ work' = [work EXCEPT ![w] = NoEvent] /\ index' = [index EXCEPT ![e.job] = e.version]
      /\ index \in [Jobs -> 0..MaxEdits + 1] /\ work \in [Workers -> Event \cup {NoEvent}]
  BY EventFacts DEF Upsert, TypeOK, Idle, table
<1>2. Idle(w)' /\ \A v \in Workers \ {w} : work'[v] = work[v] /\ Idle(v)' = Idle(v)
  BY <1>1 DEF Idle
<1>3. index'[e.job] = e.version /\ \A j \in Jobs : j # e.job => index'[j] = index[j]
  BY <1>1
<1>4. /\ e.version <= version[e.job] /\ Behind(e.job, e.version)
      /\ \A v \in Workers : ~Idle(v) /\ work[v].job = e.job => v = w
  BY <1>1 DEF InOrder, HeldOrder
<1>5. \A j \in Jobs : index[j] \in Nat
  BY <1>1, BoundsAssumption
<1>6. ASSUME NEW j \in Jobs PROVE index[j] <= index'[j]
  <2>1. CASE j = e.job
    BY <1>1, <1>3, <2>1 DEF InOrder, IndexOrder
  <2>2. CASE j # e.job
    BY <1>3, <1>5, <2>2
  <2>3. QED
    BY <2>1, <2>2
<1> HIDE DEF e
<1>7. OneCall' /\ CallOrder' /\ QueueOrder'
  BY <1>1 DEF InOrder, OneCall, CallOrder, QueueOrder
<1>8. HeldOrder'
  BY <1>1, <1>2 DEF InOrder, HeldOrder, Behind
<1>9. IndexOrder'
  <2>1. SUFFICES ASSUME NEW j \in Jobs
                 PROVE  /\ index'[j] <= version[j] /\ Behind(j, index'[j])
                        /\ \A v \in Workers : ~Idle(v)' /\ work'[v].job = j => index'[j] <= work'[v].version
    BY <1>1 DEF IndexOrder, Behind
  <2>2. CASE j = e.job
    BY <1>2, <1>3, <1>4, <2>2
  <2>3. CASE j # e.job
    BY <1>2, <1>3, <2>3 DEF InOrder, IndexOrder
  <2>4. QED
    BY <2>2, <2>3
<1>10. QED
  BY <1>6, <1>7, <1>8, <1>9 DEF InOrder

(* Two calls that overlapped and two workers that met have met for good.   *)
LEMMA ApartBefore ==
  ASSUME [Next]_vars, Apart'
  PROVE  Apart
BY DEF Apart, Next, Edit, Connect, List, Create, Stop, Crash, Reindex, Enqueue, ReindexFails, Consume, Dequeue,
   Upsert, UpsertRefused, ProcessFails, Switch, DeleteCollection, RedisRestart, vars, history

(* The order of versions, and what it means for the index, whatever fails. *)
LEMMA ApartStep ==
  ASSUME TypeOK, TypeOK', ApartInv, [Next]_vars
  PROVE  /\ ApartInv'
         /\ Apart' => \A j \in Jobs : index'[j] >= index[j] \/ collection' = "none"
<1> DEFINE Kept == \A j \in Jobs : index[j] <= index'[j] \/ collection' = "none"
<1>1. SUFFICES ASSUME Apart' PROVE InOrder' /\ Kept
  <2>1. \A j \in Jobs : index[j] \in Nat /\ index'[j] \in Nat
    BY BoundsAssumption DEF TypeOK
  <2>2. QED
    BY <1>1, <2>1 DEF ApartInv
<1>2. InOrder
  BY <1>1, ApartBefore DEF ApartInv
<1>3. \A j \in Jobs : version[j] \in Nat /\ index[j] \in Nat
  <2>1. version \in [Jobs -> 1..MaxEdits + 1] /\ index \in [Jobs -> 0..MaxEdits + 1]
    BY DEF TypeOK
  <2>2. QED
    BY <2>1, BoundsAssumption
<1> DEFINE Less == /\ \A r \in Reindexers : snapshot'[r] \in {snapshot[r], <<>>}
                   /\ queue' \in {queue, <<>>}
                   /\ \A w \in Workers : work'[w] \in {work[w], NoEvent}
                   /\ \A j \in Jobs : index'[j] \in {index[j], 0} /\ version[j] <= version'[j]
                   /\ index' = index \/ collection' = "none"
<1>4. ASSUME Less PROVE InOrder' /\ Kept
  BY <1>2, <1>3, <1>4, LessKeepsOrder
<1>5. ASSUME NEW j \in Jobs, Edit(j) PROVE Less
  <2>1. /\ version' = [version EXCEPT ![j] = @ + 1] /\ version \in [Jobs -> 1..MaxEdits + 1]
        /\ UNCHANGED <<snapshot, queue, work, index>>
    BY <1>5 DEF Edit, TypeOK
  <2>2. ASSUME NEW k \in Jobs PROVE version[k] <= version'[k]
    BY <1>3, <2>1
  <2>3. QED
    BY <2>1, <2>2
<1>6. ASSUME NEW p \in Processes, List(p) PROVE Less
  <2>1. UNCHANGED <<version, snapshot, queue, work>>
    BY <1>6 DEF List, table
  <2>2. index' = index \/ (collection' = "none" /\ index' = [j \in Jobs |-> 0])
    BY <1>6 DEF List
  <2>3. QED
    BY <1>3, <2>1, <2>2
<1>7. ASSUME NEW p \in Processes, Create(p) \/ Stop(p) PROVE Less
  BY <1>3, <1>7 DEF Create, Stop, table
<1>8. ASSUME NEW p \in Processes, Crash(p) PROVE Less
  BY <1>3, <1>8 DEF Crash, table
<1>9. ASSUME NEW r \in Reindexers, ReindexFails(r) PROVE Less
  <2>1. snapshot \in [Reindexers -> Seq(Event)] /\ snapshot' = [snapshot EXCEPT ![r] = <<>>]
        /\ UNCHANGED <<version, queue, work, index>>
    BY <1>9 DEF ReindexFails, TypeOK, table
  <2>2. QED
    BY <1>3, <2>1
<1>10. ASSUME NEW w \in Workers, UpsertRefused(w) \/ ProcessFails(w) PROVE Less
  <2>1. work \in [Workers -> Event \cup {NoEvent}] /\ work' = [work EXCEPT ![w] = NoEvent]
        /\ UNCHANGED <<version, snapshot, queue, index>>
    BY <1>10 DEF UpsertRefused, ProcessFails, TypeOK, table
  <2>2. QED
    BY <1>3, <2>1
<1>11. ASSUME RedisRestart \/ Switch PROVE Less
  BY <1>3, <1>11 DEF RedisRestart, Switch, table
<1>12. ASSUME DeleteCollection PROVE Less
  <2>1. UNCHANGED <<version, snapshot, queue, work>> /\ collection' = "none" /\ index' = [j \in Jobs |-> 0]
    BY <1>12 DEF DeleteCollection, table
  <2>2. QED
    BY <1>3, <2>1
<1>13. ASSUME NEW r \in Reindexers, Reindex(r) PROVE InOrder' /\ Kept
  <2>1. \A s \in Reindexers : snapshot[s] = <<>>
    <3>1. {"reindex" : x \in {y \in Reindexers : snapshot[y] # <<>>}} \subseteq raced'
      BY <1>13 DEF Reindex
    <3>2. "reindex" \notin raced'
      BY <1>1 DEF Apart
    <3>3. QED
      BY <3>1, <3>2
  <2>2. UNCHANGED index
    BY <1>13 DEF Reindex
  <2>3. QED
    BY <1>2, <1>3, <1>13, <2>1, <2>2, ReindexInOrder
<1>14. ASSUME NEW r \in Reindexers, Enqueue(r) PROVE InOrder' /\ Kept
  <2>1. UNCHANGED index
    BY <1>14 DEF Enqueue
  <2>2. QED
    BY <1>2, <1>3, <1>14, <2>1, EnqueueInOrder
<1>15. ASSUME NEW w \in Workers, Dequeue(w) PROVE InOrder' /\ Kept
  <2>1. \A v \in Workers : work[v].job # Head(queue).job
    <3>1. {"workers" : x \in {y \in Workers : work[y].job = Head(queue).job}} \subseteq raced'
      BY <1>15 DEF Dequeue
    <3>2. "workers" \notin raced'
      BY <1>1 DEF Apart
    <3>3. QED
      BY <3>1, <3>2
  <2>2. UNCHANGED index
    BY <1>15 DEF Dequeue
  <2>3. QED
    BY <1>2, <1>3, <1>15, <2>1, <2>2, DequeueInOrder
<1>16. ASSUME NEW w \in Workers, Upsert(w) PROVE InOrder' /\ Kept
  BY <1>2, <1>16, UpsertInOrder
<1>17. CASE UNCHANGED vars
  <2>1. UNCHANGED <<version, snapshot, queue, work, index>>
    BY <1>17 DEF vars, table
  <2>2. QED
    BY <1>3, <1>4, <2>1
<1> HIDE DEF Kept, Less
<1>18. QED
  BY <1>4, <1>5, <1>6, <1>7, <1>8, <1>9, <1>10, <1>11, <1>12, <1>13, <1>14, <1>15, <1>16, <1>17
     DEF Next, Connect, Consume

-----------------------------------------------------------------------------
(* The theorems *)

IndInv == TypeInv /\ LossInv /\ StoreInv /\ OrderInv

LEMMA Inductive == Spec => []IndInv
<1>1. Init => IndInv
  <2> SUFFICES ASSUME Init PROVE IndInv
    OBVIOUS
  <2>1. TypeInv
    BY TypeInit
  <2>2. LossInv
    <3>1. owed = 0 /\ queue = <<>> /\ Busy = {} /\ Lost = 0
      BY DEF Init, Busy, Idle, Lost
    <3>2. QED
      BY <3>1, FS_EmptySet DEF LossInv
  <2>3. StoreInv
    BY DEF Init, StoreInv, VouchInv, SettingInv, EmptyInv, Ready, Down
  <2>4. OrderInv
    BY DEF Init, OrderInv, NewestLast, OneCall, CallFresh, QueueFresh, HeldFresh, IndexFresh, Idle
  <2>5. QED
    BY <2>1, <2>2, <2>3, <2>4 DEF IndInv
<1>2. IndInv /\ [Next]_vars => IndInv'
  <2> SUFFICES ASSUME IndInv, [Next]_vars PROVE IndInv'
    OBVIOUS
  <2>1. TypeInv /\ LossInv /\ StoreInv /\ OrderInv
    BY DEF IndInv
  <2>2. TypeInv'
    BY <2>1, TypeStep, HomeStep, CountStep DEF TypeInv
  <2>3. LossInv' /\ StoreInv' /\ OrderInv'
    BY <2>1, CountStep, StoreStep, OrderStep
  <2>4. QED
    BY <2>2, <2>3 DEF IndInv
<1>3. QED
  BY <1>1, <1>2, PTL DEF Spec

(* The route, the workers and the processes' starts leave every variable   *)
(* of its type: what is popped and indexed is a version a row has had.     *)
THEOREM TypeCorrect == Spec => []TypeOK
<1>1. IndInv => TypeOK
  BY DEF IndInv, TypeInv
<1>2. QED
  BY <1>1, Inductive, PTL

(* The queue's losses are accounted for, connect vouches for the kind of   *)
(* the collection, and a reindex that nothing disturbed leaves the index   *)
(* at the newest rows it read.                                             *)
THEOREM EventsAreAccounted == Spec => []EventsAccounted
<1>1. ASSUME IndInv PROVE EventsAccounted
  <2>1. TypeOK /\ LossInv /\ VouchInv /\ OrderInv /\ refused \in Nat
    BY <1>1 DEF IndInv, TypeInv, StoreInv, TypeOK
  <2>2. LossAccounted
    BY <2>1 DEF LossInv, LossAccounted, Lost
  <2>3. SchemaVouched
    BY <2>1 DEF VouchInv, SchemaVouched
  <2>4. ReindexSafe
    <3>1. SUFFICES ASSUME Quiet, Calm, NEW j \in Jobs PROVE index[j] >= read[j]
      BY DEF ReindexSafe, Calm
    <3>2. ~Unpushed(j) /\ ~Queued(j) /\ ~Held(j)
      BY <3>1 DEF Quiet, Busy, Unpushed, Queued, Held
    <3>3. index[j] = read[j] /\ read[j] \in 0..MaxEdits + 1
      BY <2>1, <3>1, <3>2 DEF OrderInv, NewestLast, IndexFresh, TypeOK
    <3>4. QED
      BY <3>3, BoundsAssumption
  <2>5. QED
    BY <2>2, <2>3, <2>4 DEF EventsAccounted
<1>2. QED
  BY <1>1, Inductive, PTL

(* The index of a job only ever moves to newer versions, with however many *)
(* crashes, failures, restarts and switches, as long as neither reindex    *)
(* calls overlap nor two workers meet on a job.                            *)
THEOREM IndexNeverOlder == Spec => NeverOlder
<1>1. Init => ApartInv
  <2>1. SUFFICES ASSUME Init PROVE InOrder
    BY DEF ApartInv
  <2>2. /\ queue = <<>>
        /\ \A r \in Reindexers : snapshot[r] = <<>>
        /\ \A w \in Workers : Idle(w)
        /\ \A j \in Jobs : index[j] <= version[j]
    BY <2>1 DEF Init, Idle
  <2>3. \A j, v : Behind(j, v)
    BY <2>2, EmptyOrder DEF Behind
  <2>4. OneCall /\ CallOrder /\ HeldOrder /\ IndexOrder
    BY <2>2, <2>3, EmptyOrder DEF OneCall, CallOrder, HeldOrder, IndexOrder
  <2>5. QueueOrder
    BY <2>2, EmptyOrder DEF QueueOrder
  <2>6. QED
    BY <2>4, <2>5 DEF InOrder
<1>2. TypeOK /\ TypeOK' /\ ApartInv /\ [Next]_vars =>
        /\ ApartInv'
        /\ [Apart' => \A j \in Jobs : index'[j] >= index[j] \/ collection' = "none"]_vars
  BY ApartStep
<1>3. QED
  BY <1>1, <1>2, TypeCorrect, PTL DEF Spec, NeverOlder

-----------------------------------------------------------------------------
(* FollowupScheduler *)

(* A batch has distinct rows, none of which is yet to be scheduled.        *)
BatchOK ==
  \A w \in Schedulers :
    /\ \A i, k \in 1..Len(batch[w]) : batch[w][i] = batch[w][k] => i = k
    /\ \A i \in 1..Len(batch[w]) : status[batch[w][i]] # "none"

SchedulerInv == SchedulerTypeOK /\ BatchOK

LEMMA FailsType ==
  ASSUME SchedulerTypeOK, NEW k \in FailureKinds, Fails(k)
  PROVE  /\ failures' \in [FailureKinds -> Nat]
         /\ failures'[k] = failures[k] + 1
         /\ \A x \in FailureKinds \ {k} : failures'[x] = failures[x]
BY DEF Fails, SchedulerTypeOK

(* What a poll reads: distinct pending rows, at least one if there are     *)
(* any, and no more than the LIMIT.                                        *)
LEMMA OldestType ==
  ASSUME SchedulerTypeOK, NEW q \in Oldest, Pending # {}
  PROVE  /\ q \in Seq(FollowUps) /\ q # <<>> /\ Len(q) <= Limit
         /\ \A i, k \in 1..Len(q) : q[i] = q[k] => i = k
         /\ \A i \in 1..Len(q) : status[q[i]] = "pending"
<1> DEFINE c == Cardinality(Pending)
           n == IF c < Limit THEN c ELSE Limit
<1>1. IsFiniteSet(Pending) /\ Pending \subseteq FollowUps
  BY CountAssumption, FS_Subset DEF Pending, SchedulerTypeOK
<1>2. c \in Nat /\ c # 0
  BY <1>1, FS_CardinalityType, FS_EmptySet
<1>3. n \in Nat /\ 1 <= n /\ n <= Limit
  BY <1>2, LimitAssumption
<1>4. q \in [1..n -> Pending] /\ IsInjective(q)
  BY DEF Oldest, InRunAfterOrder
<1>5. q \in Seq(FollowUps) /\ Len(q) = n
  BY <1>1, <1>3, <1>4
<1>6. \A i, k \in 1..n : q[i] = q[k] => i = k
  BY <1>4 DEF IsInjective
<1>7. \A i \in 1..n : status[q[i]] = "pending"
  BY <1>4 DEF Pending
<1>8. QED
  BY <1>3, <1>5, <1>6, <1>7

(* The rest of a batch: what RowDone leaves.                               *)
LEMMA RestOfBatch ==
  ASSUME SchedulerInv, NEW w \in Schedulers, pc[w] # "poll", RowDone(w)
  PROVE  /\ batch' \in [Schedulers -> Seq(FollowUps)]
         /\ pc' \in [Schedulers -> {"poll", "deliver", "mark"}]
         /\ \A v \in Schedulers \ {w} : batch'[v] = batch[v] /\ pc'[v] = pc[v]
         /\ Len(batch[w]) \in Nat \ {0}
         /\ Head(batch[w]) = batch[w][1] /\ batch[w][1] \in FollowUps
         /\ Len(batch'[w]) = Len(batch[w]) - 1
         /\ \A i \in 1..Len(batch'[w]) : batch'[w][i] = batch[w][i + 1]
         /\ pc'[w] = "poll" <=> batch'[w] = <<>>
         /\ pc'[w] # "mark"
<1> DEFINE b == batch[w]
<1>1. b \in Seq(FollowUps) /\ b # <<>>
  BY DEF SchedulerInv, SchedulerTypeOK
<1>2. Len(b) \in Nat \ {0} /\ b[1] \in FollowUps /\ Head(b) = b[1]
  BY <1>1
<1>3. /\ Tail(b) \in Seq(FollowUps) /\ Len(Tail(b)) = Len(b) - 1
      /\ \A i \in 1..Len(Tail(b)) : Tail(b)[i] = b[i + 1]
  BY <1>1, <1>2
<1>4. batch' = [batch EXCEPT ![w] = Tail(b)] /\ batch \in [Schedulers -> Seq(FollowUps)]
  BY DEF RowDone, SchedulerInv, SchedulerTypeOK
<1>5. /\ pc' = [pc EXCEPT ![w] = IF Len(b) > 1 THEN "deliver" ELSE "poll"]
      /\ pc \in [Schedulers -> {"poll", "deliver", "mark"}]
  BY DEF RowDone, SchedulerInv, SchedulerTypeOK
<1>6. batch'[w] = Tail(b) /\ batch' \in [Schedulers -> Seq(FollowUps)]
  BY <1>3, <1>4
<1>7. Tail(b) = <<>> <=> Len(b) = 1
  <2>1. \A q \in Seq(FollowUps) : q = <<>> <=> Len(q) = 0
    BY EmptySeq
  <2>2. Tail(b) = <<>> <=> Len(Tail(b)) = 0
    BY <1>3, <2>1
  <2>3. QED
    BY <1>2, <1>3, <2>2
<1>8. /\ pc'[w] = IF Len(b) > 1 THEN "deliver" ELSE "poll"
      /\ pc' \in [Schedulers -> {"poll", "deliver", "mark"}]
      /\ \A v \in Schedulers \ {w} : batch'[v] = batch[v] /\ pc'[v] = pc[v]
  BY <1>4, <1>5
<1>9. pc'[w] = "poll" <=> batch'[w] = <<>>
  BY SMTT(30), <1>2, <1>6, <1>7, <1>8
<1>10. QED
  BY <1>2, <1>3, <1>6, <1>8, <1>9

LEMMA SchedulerInitType == SchedulerInit => SchedulerInv
<1> SUFFICES ASSUME SchedulerInit PROVE SchedulerInv
  OBVIOUS
<1>1. <<>> \in Seq(FollowUps) /\ Len(<<>>) = 0
  BY EmptySeq
<1>2. SchedulerTypeOK
  BY <1>1, LimitAssumption DEF SchedulerInit, SchedulerTypeOK
<1>3. BatchOK
  BY DEF SchedulerInit, BatchOK
<1>4. QED
  BY <1>2, <1>3 DEF SchedulerInv

LEMMA SchedulerStepType ==
  ASSUME SchedulerInv, [SchedulerNext]_schedulerVars
  PROVE  SchedulerInv'
<1> USE DEF SchedulerInv
<1>1. ASSUME NEW f \in FollowUps, Schedule(f) PROVE SchedulerInv'
  <2>1. SchedulerTypeOK'
    BY <1>1 DEF Schedule, SchedulerTypeOK
  <2>2. \A g \in FollowUps : status'[g] = "none" => status[g] = "none"
    BY <1>1 DEF Schedule, SchedulerTypeOK
  <2>3. ASSUME NEW w \in Schedulers, NEW i \in 1..Len(batch[w]) PROVE batch[w][i] \in FollowUps
    BY ElementOfSeq DEF SchedulerTypeOK
  <2>4. BatchOK'
    BY <1>1, <2>2, <2>3 DEF Schedule, BatchOK
  <2>5. QED
    BY <2>1, <2>4
<1>2. ASSUME NEW f \in FollowUps, FallDue(f) PROVE SchedulerInv'
  BY <1>2 DEF FallDue, SchedulerTypeOK, BatchOK
<1>3. ASSUME NEW w \in Schedulers, Poll(w) PROVE SchedulerInv'
  <2>1. PICK q \in Oldest : batch' = [batch EXCEPT ![w] = q]
    BY <1>3 DEF Poll
  <2>2. /\ q \in Seq(FollowUps) /\ q # <<>> /\ Len(q) <= Limit
        /\ \A i, k \in 1..Len(q) : q[i] = q[k] => i = k
        /\ \A i \in 1..Len(q) : status[q[i]] = "pending"
    BY <1>3, <2>1, OldestType DEF Poll
  <2>3. SchedulerTypeOK'
    BY <1>3, <2>1, <2>2 DEF Poll, SchedulerTypeOK
  <2>4. /\ batch'[w] = q /\ UNCHANGED status
        /\ \A v \in Schedulers \ {w} : batch'[v] = batch[v]
    BY <1>3, <2>1 DEF Poll, SchedulerTypeOK
  <2>5. ASSUME NEW v \in Schedulers
        PROVE  /\ \A i, k \in 1..Len(batch'[v]) : batch'[v][i] = batch'[v][k] => i = k
               /\ \A i \in 1..Len(batch'[v]) : status'[batch'[v][i]] # "none"
    <3>1. CASE v = w
      BY <2>2, <2>4, <3>1
    <3>2. CASE v # w
      BY <2>4, <3>2 DEF BatchOK
    <3>3. QED
      BY <3>1, <3>2
  <2>6. BatchOK'
    BY <2>5 DEF BatchOK
  <2>7. QED
    BY <2>3, <2>6
<1>4. ASSUME NEW w \in Schedulers, Skip(w) PROVE SchedulerInv'
  BY <1>4 DEF Skip, SchedulerTypeOK, BatchOK
<1>5. ASSUME NEW w \in Schedulers, Deliver(w) PROVE SchedulerInv'
  <2>1. Head(batch[w]) \in FollowUps
    BY <1>5, HeadTailProperties DEF Deliver, SchedulerTypeOK
  <2>2. tried' \in [FollowUps -> Nat] /\ sent' \in [FollowUps -> Nat]
    <3>1. /\ tried' = [tried EXCEPT ![Head(batch[w])] = @ + 1]
          /\ \/ sent' = [sent EXCEPT ![Head(batch[w])] = @ + 1]
             \/ sent' = sent
      BY <1>5 DEF Deliver
    <3>2. tried \in [FollowUps -> Nat] /\ sent \in [FollowUps -> Nat]
      BY DEF SchedulerTypeOK
    <3>3. QED
      BY <2>1, <3>1, <3>2
  <2>3. failures' \in [FailureKinds -> Nat]
    BY <1>5, FailsType DEF Deliver, SchedulerTypeOK
  <2>4. QED
    BY <1>5, <2>2, <2>3 DEF Deliver, SchedulerTypeOK, BatchOK
<1>6. ASSUME NEW w \in Schedulers, DeliverRaises(w) \/ Mark(w) \/ MarkFails(w) PROVE SchedulerInv'
  <2>1. pc[w] # "poll" /\ RowDone(w) /\ UNCHANGED <<due, tried, sent>>
    BY <1>6 DEF DeliverRaises, Mark, MarkFails
  <2>2. /\ batch' \in [Schedulers -> Seq(FollowUps)]
        /\ pc' \in [Schedulers -> {"poll", "deliver", "mark"}]
        /\ \A v \in Schedulers \ {w} : batch'[v] = batch[v] /\ pc'[v] = pc[v]
        /\ Len(batch[w]) \in Nat \ {0}
        /\ Len(batch'[w]) = Len(batch[w]) - 1
        /\ \A i \in 1..Len(batch'[w]) : batch'[w][i] = batch[w][i + 1]
        /\ pc'[w] = "poll" <=> batch'[w] = <<>>
        /\ Head(batch[w]) \in FollowUps
    BY <2>1, RestOfBatch
  <2>3. /\ status' \in [FollowUps -> {"none", "pending", "done"}]
        /\ \A g \in FollowUps : status'[g] = "none" => status[g] = "none"
    BY <1>6, <2>2 DEF DeliverRaises, Mark, MarkFails, SchedulerTypeOK
  <2>4. failures' \in [FailureKinds -> Nat]
    BY <1>6, FailsType DEF DeliverRaises, Mark, MarkFails, SchedulerTypeOK
  <2>5. \A v \in Schedulers : Len(batch'[v]) <= Limit /\ (pc'[v] = "poll" <=> batch'[v] = <<>>)
    <3>1. ASSUME NEW v \in Schedulers, v # w
          PROVE  Len(batch'[v]) <= Limit /\ (pc'[v] = "poll" <=> batch'[v] = <<>>)
      BY <2>2, <3>1 DEF SchedulerTypeOK
    <3>2. Len(batch'[w]) <= Limit
      BY <2>2, LimitAssumption DEF SchedulerTypeOK
    <3>3. QED
      BY <2>2, <3>1, <3>2
  <2>6. SchedulerTypeOK'
    BY <2>1, <2>2, <2>3, <2>4, <2>5 DEF SchedulerTypeOK
  <2>7. ASSUME NEW v \in Schedulers, NEW i \in 1..Len(batch'[v]) PROVE batch'[v][i] \in FollowUps
    BY <2>2, ElementOfSeq
  <2>8. BatchOK'
    <3> SUFFICES ASSUME NEW v \in Schedulers
                 PROVE  /\ \A i, k \in 1..Len(batch'[v]) : batch'[v][i] = batch'[v][k] => i = k
                        /\ \A i \in 1..Len(batch'[v]) : status'[batch'[v][i]] # "none"
      BY DEF BatchOK
    <3>1. CASE v = w
      <4>1. \A i \in 1..Len(batch'[w]) : i + 1 \in 1..Len(batch[w])
        BY <2>2
      <4>2. \A i, k \in 1..Len(batch'[w]) : batch'[w][i] = batch'[w][k] => i + 1 = k + 1
        BY <2>2, <4>1 DEF BatchOK
      <4>3. \A i, k \in 1..Len(batch'[w]) : i + 1 = k + 1 => i = k
        BY <2>2
      <4>4. ASSUME NEW i \in 1..Len(batch'[w]) PROVE status[batch'[w][i]] # "none"
        <5>1. status[batch[w][i + 1]] # "none"
          BY <4>1 DEF BatchOK
        <5>2. QED
          BY <2>2, <5>1
      <4>5. \A i \in 1..Len(batch'[w]) : status'[batch'[w][i]] # "none"
        BY <2>3, <2>7, <4>4, <3>1
      <4>6. QED
        BY <3>1, <4>2, <4>3, <4>5
    <3>2. CASE v # w
      <4>1. batch'[v] = batch[v]
        BY <2>2, <3>2
      <4>2. \A i \in 1..Len(batch[v]) : status[batch[v][i]] # "none" /\ batch[v][i] \in FollowUps
        BY <2>7, <4>1 DEF BatchOK
      <4>3. QED
        BY <2>3, <4>1, <4>2 DEF BatchOK
    <3>3. QED
      BY <3>1, <3>2
  <2>9. QED
    BY <2>6, <2>8
<1>7. ASSUME NEW w \in Schedulers, WorkerDies(w) PROVE SchedulerInv'
  <2>1. <<>> \in Seq(FollowUps) /\ Len(<<>>) = 0
    BY EmptySeq
  <2>2. failures' \in [FailureKinds -> Nat]
    BY <1>7, FailsType DEF WorkerDies
  <2>3. SchedulerTypeOK'
    <3>1. /\ batch' = [batch EXCEPT ![w] = <<>>]
          /\ pc' = [pc EXCEPT ![w] = "poll"]
          /\ UNCHANGED <<status, due, tried, sent>>
      BY <1>7 DEF WorkerDies
    <3>2. ASSUME NEW v \in Schedulers
          PROVE  Len(batch'[v]) <= Limit /\ (pc'[v] = "poll" <=> batch'[v] = <<>>)
      BY <2>1, <3>1, LimitAssumption DEF SchedulerTypeOK
    <3>3. batch' \in [Schedulers -> Seq(FollowUps)]
      BY <2>1, <3>1 DEF SchedulerTypeOK
    <3>4. QED
      BY <2>2, <3>1, <3>2, <3>3 DEF SchedulerTypeOK
  <2>4. BatchOK'
    BY SMTT(30), <1>7, <2>1 DEF WorkerDies, SchedulerTypeOK, BatchOK
  <2>5. QED
    BY <2>3, <2>4
<1>8. CASE UNCHANGED schedulerVars
  BY <1>8 DEF schedulerVars, SchedulerTypeOK, BatchOK
<1>9. QED
  BY <1>1, <1>2, <1>3, <1>4, <1>5, <1>6, <1>7, <1>8 DEF SchedulerNext, RunOnce

(* Every reachable state is well typed: a batch never exceeds the LIMIT,   *)
(* and a scheduler has a row in hand whenever it delivers or marks         *)
(* (AgentScheduler.run_once).                                              *)
THEOREM SchedulerTypeCorrect == SchedulerSpec => []SchedulerTypeOK
<1>1. SchedulerInv => SchedulerTypeOK
  BY DEF SchedulerInv
<1>2. QED
  BY <1>1, SchedulerInitType, SchedulerStepType, PTL DEF SchedulerSpec

LEMMA SchedulerInvariant == SchedulerSpec => []SchedulerInv
  BY SchedulerInitType, SchedulerStepType, PTL DEF SchedulerSpec

-----------------------------------------------------------------------------
(* Neither too often nor too seldom *)

Holds(w, f) == \E i \in 1..Len(batch[w]) : batch[w][i] = f

Marking(w, f) == pc[w] = "mark" /\ batch[w][1] = f

(* The schedulers that may still send the follow-up without an accident:   *)
(* all but those about to mark it, and once it is done only those that     *)
(* have read it before.                                                    *)
MaySend(f) == {w \in Schedulers : ~Marking(w, f) /\ (status[f] = "done" => Holds(w, f))}

Accidents == failures["crash"] + failures["db"]

Allowance(f) == tried[f] + Cardinality(MaySend(f)) <= Cardinality(Schedulers) + Accidents

AllowanceInv == \A f \in FollowUps : Allowance(f)

(* A row that is about to be marked was sent, if there was anything to     *)
(* send.                                                                   *)
WasSent(f) == tried[f] > 0 /\ (failures["http"] = 0 => sent[f] > 0)

SentInv ==
  /\ DoneWasSent
  /\ \A w \in Schedulers : pc[w] = "mark" => Head(batch[w]) \in Blank \/ WasSent(Head(batch[w]))

LEMMA MaySendFinite ==
  ASSUME NEW f
  PROVE  /\ IsFiniteSet(MaySend(f)) /\ Cardinality(MaySend(f)) \in Nat
         /\ IsFiniteSet(MaySend(f)') /\ Cardinality(MaySend(f)') \in Nat
         /\ Cardinality(Schedulers) \in Nat
<1>1. MaySend(f) \in SUBSET Schedulers /\ MaySend(f)' \in SUBSET Schedulers
  BY DEF MaySend
<1>2. QED
  BY <1>1, CountAssumption, FS_Subset, FS_CardinalityType

(* A step that sends nothing: it may free one scheduler to send again, at  *)
(* the price of an accident.                                               *)
LEMMA AllowanceKept ==
  ASSUME SchedulerInv, NEW f \in FollowUps, Allowance(f), tried'[f] = tried[f],
         \/ /\ MaySend(f)' \subseteq MaySend(f)
            /\ Accidents' = Accidents
         \/ /\ \E w \in Schedulers : MaySend(f)' \subseteq MaySend(f) \cup {w}
            /\ Accidents' = Accidents + 1
  PROVE  Allowance(f)'
<1>1. tried[f] \in Nat /\ Accidents \in Nat
  BY DEF SchedulerInv, SchedulerTypeOK, Accidents
<1>2. CASE MaySend(f)' \subseteq MaySend(f) /\ Accidents' = Accidents
  <2>1. Cardinality(MaySend(f)') <= Cardinality(MaySend(f))
    BY <1>2, MaySendFinite, FS_Subset
  <2>2. QED
    BY <1>1, <1>2, <2>1, MaySendFinite DEF Allowance
<1>3. ASSUME NEW w \in Schedulers, MaySend(f)' \subseteq MaySend(f) \cup {w}, Accidents' = Accidents + 1
      PROVE  Allowance(f)'
  <2>1. /\ IsFiniteSet(MaySend(f) \cup {w})
        /\ Cardinality(MaySend(f) \cup {w}) <= Cardinality(MaySend(f)) + 1
    <3>1. IsFiniteSet(MaySend(f)) /\ Cardinality(MaySend(f)) \in Nat
      BY MaySendFinite
    <3>2. /\ IsFiniteSet(MaySend(f) \cup {w})
          /\ Cardinality(MaySend(f) \cup {w}) =
               IF w \in MaySend(f) THEN Cardinality(MaySend(f)) ELSE Cardinality(MaySend(f)) + 1
      BY <3>1, FS_AddElement
    <3>3. QED
      BY <3>1, <3>2
  <2>2. Cardinality(MaySend(f)') <= Cardinality(MaySend(f) \cup {w})
    BY <1>3, <2>1, FS_Subset
  <2>3. Cardinality(MaySend(f) \cup {w}) \in Nat
    BY <2>1, FS_CardinalityType
  <2>4. QED
    BY <1>1, <1>3, <2>1, <2>2, <2>3, MaySendFinite DEF Allowance
<1>4. QED
  BY <1>2, <1>3

LEMMA AccidentsStep ==
  ASSUME SchedulerInv, NEW k \in FailureKinds, Fails(k)
  PROVE  Accidents' = IF k = "http" THEN Accidents ELSE Accidents + 1
BY FailsType DEF Accidents, SchedulerInv, SchedulerTypeOK

LEMMA AllowanceStep ==
  ASSUME SchedulerInv, AllowanceInv, [SchedulerNext]_schedulerVars
  PROVE  AllowanceInv'
<1> SUFFICES ASSUME NEW f \in FollowUps PROVE Allowance(f)'
  BY DEF AllowanceInv
<1>0. Allowance(f)
  BY DEF AllowanceInv
<1>1. ASSUME NEW g \in FollowUps, Schedule(g) \/ FallDue(g) PROVE Allowance(f)'
  <2>1. UNCHANGED <<pc, batch, failures, tried>> /\ (status'[f] = "done" <=> status[f] = "done")
    BY <1>1 DEF Schedule, FallDue, SchedulerInv, SchedulerTypeOK
  <2>2. QED
    BY <1>0, <2>1 DEF Allowance, MaySend, Marking, Holds, Accidents
<1>2. ASSUME NEW w \in Schedulers, Poll(w) PROVE Allowance(f)'
  <2>1. PICK q \in Oldest : batch' = [batch EXCEPT ![w] = q]
    BY <1>2 DEF Poll
  <2>2. \A i \in 1..Len(q) : status[q[i]] = "pending"
    BY <1>2, <2>1, OldestType DEF Poll, SchedulerInv
  <2>3. /\ batch'[w] = q
        /\ pc'[w] = "deliver"
        /\ \A v \in Schedulers \ {w} : batch'[v] = batch[v] /\ pc'[v] = pc[v]
        /\ UNCHANGED <<status, failures, tried>>
    BY <1>2, <2>1 DEF Poll, SchedulerInv, SchedulerTypeOK
  <2>4. pc[w] = "poll" /\ Len(batch[w]) = 0
    BY <1>2, EmptySeq DEF Poll, SchedulerInv, SchedulerTypeOK
  <2>5. MaySend(f)' \subseteq MaySend(f)
    BY <2>2, <2>3, <2>4 DEF MaySend, Marking, Holds
  <2>6. QED
    BY <1>0, <2>3, <2>5, AllowanceKept DEF Accidents
<1>3. ASSUME NEW w \in Schedulers, Skip(w) PROVE Allowance(f)'
  <2>1. MaySend(f)' \subseteq MaySend(f)
    BY <1>3 DEF Skip, SchedulerInv, SchedulerTypeOK, MaySend, Marking, Holds
  <2>2. UNCHANGED <<failures, tried>>
    BY <1>3 DEF Skip
  <2>3. QED
    BY <1>0, <2>1, <2>2, AllowanceKept DEF Accidents
<1>4. ASSUME NEW w \in Schedulers, Deliver(w) PROVE Allowance(f)'
  <2>1. /\ batch[w][1] = Head(batch[w]) /\ Head(batch[w]) \in FollowUps
        /\ Len(batch[w]) \in Nat \ {0}
    BY <1>4, HeadTailProperties, EmptySeq DEF Deliver, SchedulerInv, SchedulerTypeOK
  <2>2. /\ pc[w] = "deliver"
        /\ tried' = [tried EXCEPT ![Head(batch[w])] = @ + 1]
        /\ pc' = [pc EXCEPT ![w] = "mark"]
        /\ UNCHANGED <<status, batch>>
    BY <1>4 DEF Deliver
  <2>3. Accidents' = Accidents
    BY <1>4, AccidentsStep DEF Deliver, Accidents
  <2>4. MaySend(f)' \subseteq MaySend(f)
    BY <2>2 DEF SchedulerInv, SchedulerTypeOK, MaySend, Marking, Holds
  <2>5. CASE f = Head(batch[w])
    <3>1. w \in MaySend(f)
      BY <2>1, <2>2, <2>5 DEF MaySend, Marking, Holds
    <3>2. w \notin MaySend(f)'
      BY <2>1, <2>2, <2>5 DEF SchedulerInv, SchedulerTypeOK, MaySend, Marking, Holds
    <3>3. Cardinality(MaySend(f)') <= Cardinality(MaySend(f) \ {w})
      BY <2>4, <3>2, MaySendFinite, FS_RemoveElement, FS_Subset
    <3>4. Cardinality(MaySend(f) \ {w}) = Cardinality(MaySend(f)) - 1
      BY <3>1, MaySendFinite, FS_RemoveElement
    <3>5. tried[f] \in Nat /\ tried'[f] = tried[f] + 1 /\ Accidents \in Nat
      BY <2>2, <2>5 DEF SchedulerInv, SchedulerTypeOK, Accidents
    <3>6. QED
      BY <1>0, <2>3, <3>3, <3>4, <3>5, MaySendFinite DEF Allowance
  <2>6. CASE f # Head(batch[w])
    <3>1. tried'[f] = tried[f]
      BY <2>1, <2>2, <2>6 DEF SchedulerInv, SchedulerTypeOK
    <3>2. QED
      BY <1>0, <2>3, <2>4, <3>1, AllowanceKept
  <2>7. QED
    BY <2>5, <2>6
<1>5. ASSUME NEW w \in Schedulers, DeliverRaises(w) \/ Mark(w) \/ MarkFails(w) PROVE Allowance(f)'
  <2>1. pc[w] # "poll" /\ RowDone(w) /\ tried' = tried
    BY <1>5 DEF DeliverRaises, Mark, MarkFails
  <2>2. /\ \A v \in Schedulers \ {w} : batch'[v] = batch[v] /\ pc'[v] = pc[v]
        /\ Len(batch[w]) \in Nat \ {0}
        /\ Head(batch[w]) = batch[w][1] /\ batch[w][1] \in FollowUps
        /\ Len(batch'[w]) = Len(batch[w]) - 1
        /\ \A i \in 1..Len(batch'[w]) : batch'[w][i] = batch[w][i + 1]
        /\ pc'[w] # "mark"
    BY <2>1, RestOfBatch
  <2>3. Holds(w, f)' => Holds(w, f) /\ f # batch[w][1]
    <3>1. \A i \in 1..Len(batch'[w]) : i + 1 \in 1..Len(batch[w]) /\ i + 1 # 1 /\ 1 \in 1..Len(batch[w])
      BY <2>2
    <3>2. QED
      BY <2>2, <3>1 DEF Holds, SchedulerInv, BatchOK
  <2>4. CASE DeliverRaises(w)
    <3>1. pc[w] = "deliver" /\ UNCHANGED <<status, failures>>
      BY <2>4 DEF DeliverRaises
    <3>2. MaySend(f)' \subseteq MaySend(f)
      BY <2>2, <2>3, <3>1 DEF MaySend, Marking, Holds
    <3>3. QED
      BY <1>0, <2>1, <3>1, <3>2, AllowanceKept DEF Accidents
  <2>5. CASE Mark(w)
    <3>1. status' = [status EXCEPT ![batch[w][1]] = "done"] /\ UNCHANGED failures
      BY <2>2, <2>5 DEF Mark
    <3>2. f = batch[w][1] => status'[f] = "done"
      BY <2>2, <3>1 DEF SchedulerInv, SchedulerTypeOK
    <3>3. f # batch[w][1] => status'[f] = status[f]
      BY <2>2, <3>1 DEF SchedulerInv, SchedulerTypeOK
    <3>4. MaySend(f)' \subseteq MaySend(f)
      <4> SUFFICES ASSUME NEW v \in Schedulers, v \in MaySend(f)' PROVE v \in MaySend(f)
        BY DEF MaySend
      <4>1. CASE v = w
        BY <2>2, <2>3, <3>2, <3>3, <4>1 DEF MaySend, Marking
      <4>2. CASE v # w
        BY <2>2, <3>2, <3>3, <4>2 DEF MaySend, Marking, Holds
      <4>3. QED
        BY <4>1, <4>2
    <3>5. QED
      BY <1>0, <2>1, <3>1, <3>4, AllowanceKept DEF Accidents
  <2>6. CASE MarkFails(w)
    <3>1. status' = status /\ Accidents' = Accidents + 1
      BY <2>6, AccidentsStep DEF MarkFails
    <3>2. MaySend(f)' \subseteq MaySend(f) \cup {w}
      BY <2>2, <3>1 DEF MaySend, Marking, Holds
    <3>3. QED
      BY <1>0, <2>1, <3>1, <3>2, AllowanceKept
  <2>7. QED
    BY <1>5, <2>4, <2>5, <2>6
<1>6. ASSUME NEW w \in Schedulers, WorkerDies(w) PROVE Allowance(f)'
  <2>1. UNCHANGED <<status, tried>> /\ Accidents' = Accidents + 1
    BY <1>6, AccidentsStep DEF WorkerDies
  <2>2. \A v \in Schedulers \ {w} : batch'[v] = batch[v] /\ pc'[v] = pc[v]
    BY <1>6 DEF WorkerDies, SchedulerInv, SchedulerTypeOK
  <2>3. MaySend(f)' \subseteq MaySend(f) \cup {w}
    BY <2>1, <2>2 DEF MaySend, Marking, Holds
  <2>4. QED
    BY <1>0, <2>1, <2>3, AllowanceKept
<1>7. CASE UNCHANGED schedulerVars
  BY <1>0, <1>7 DEF schedulerVars, Allowance, MaySend, Marking, Holds, Accidents
<1>8. QED
  BY <1>1, <1>2, <1>3, <1>4, <1>5, <1>6, <1>7 DEF SchedulerNext, RunOnce

LEMMA SentStep ==
  ASSUME SchedulerInv, SentInv, [SchedulerNext]_schedulerVars
  PROVE  SentInv'
<1>1. ASSUME NEW f \in FollowUps, Schedule(f) PROVE SentInv'
  <2>1. \A g \in FollowUps : status'[g] = "done" => status[g] = "done"
    BY <1>1 DEF Schedule, SchedulerInv, SchedulerTypeOK
  <2>2. QED
    BY <1>1, <2>1 DEF Schedule, SentInv, DoneWasSent, WasSent
<1>2. ASSUME NEW f \in FollowUps, FallDue(f) PROVE SentInv'
  BY <1>2 DEF FallDue, SentInv, DoneWasSent, WasSent
<1>3. ASSUME NEW w \in Schedulers, Poll(w) PROVE SentInv'
  <2>1. PICK q \in Oldest : batch' = [batch EXCEPT ![w] = q]
    BY <1>3 DEF Poll
  <2>2. /\ pc' = [pc EXCEPT ![w] = "deliver"]
        /\ UNCHANGED <<status, failures, tried, sent>>
    BY <1>3 DEF Poll
  <2>3. QED
    BY <2>1, <2>2 DEF SentInv, DoneWasSent, WasSent, SchedulerInv, SchedulerTypeOK
<1>4. ASSUME NEW w \in Schedulers, Skip(w) PROVE SentInv'
  BY <1>4 DEF Skip, SentInv, DoneWasSent, WasSent, SchedulerInv, SchedulerTypeOK
<1>5. ASSUME NEW w \in Schedulers, Deliver(w) PROVE SentInv'
  <2> DEFINE h == Head(batch[w])
  <2>1. h \in FollowUps
    BY <1>5, HeadTailProperties DEF Deliver, SchedulerInv, SchedulerTypeOK
  <2>2. /\ tried' = [tried EXCEPT ![h] = @ + 1]
        /\ pc' = [pc EXCEPT ![w] = "mark"]
        /\ UNCHANGED <<status, batch>>
        /\ \/ sent' = [sent EXCEPT ![h] = @ + 1] /\ UNCHANGED failures
           \/ Fails("http") /\ UNCHANGED sent
    BY <1>5 DEF Deliver
  <2>3. /\ tried \in [FollowUps -> Nat] /\ sent \in [FollowUps -> Nat]
        /\ failures \in [FailureKinds -> Nat]
    BY DEF SchedulerInv, SchedulerTypeOK
  <2>4. WasSent(h)'
    <3>1. tried'[h] > 0
      BY <2>1, <2>2, <2>3
    <3>2. CASE sent' = [sent EXCEPT ![h] = @ + 1]
      BY <2>1, <2>2, <2>3, <3>1, <3>2 DEF WasSent
    <3>3. CASE Fails("http")
      <4>1. failures'["http"] # 0
        BY <2>3, <3>3, FailsType DEF SchedulerInv
      <4>2. QED
        BY <2>2, <3>1, <4>1 DEF WasSent
    <3>4. QED
      BY <2>2, <3>2, <3>3
  <2>5. ASSUME NEW g \in FollowUps, WasSent(g) PROVE WasSent(g)'
    <3>1. tried'[g] > 0
      BY <2>1, <2>2, <2>3, <2>5 DEF WasSent
    <3>2. CASE sent' = [sent EXCEPT ![h] = @ + 1] /\ UNCHANGED failures
      BY <2>1, <2>3, <2>5, <3>1, <3>2 DEF WasSent
    <3>3. CASE Fails("http")
      <4>1. failures'["http"] # 0
        BY <2>3, <3>3, FailsType DEF SchedulerInv
      <4>2. QED
        BY <3>1, <4>1 DEF WasSent
    <3>4. QED
      BY <2>2, <3>2, <3>3
  <2>6. DoneWasSent'
    BY <2>2, <2>5 DEF SentInv, DoneWasSent, WasSent
  <2>7. ASSUME NEW v \in Schedulers, pc'[v] = "mark"
        PROVE  Head(batch'[v]) \in Blank \/ WasSent(Head(batch[v]))'
    <3>1. CASE v = w
      BY <2>2, <2>4, <3>1
    <3>2. CASE v # w
      <4>1. pc[v] = "mark"
        BY <2>2, <2>7, <3>2 DEF SchedulerInv, SchedulerTypeOK
      <4>2. Head(batch[v]) \in FollowUps
        BY <4>1, HeadTailProperties DEF SchedulerInv, SchedulerTypeOK
      <4>3. QED
        BY <2>2, <2>5, <4>1, <4>2 DEF SentInv
    <3>3. QED
      BY <3>1, <3>2
  <2>8. QED
    BY <2>2, <2>6, <2>7 DEF SentInv, WasSent
<1>6. ASSUME NEW w \in Schedulers, DeliverRaises(w) \/ Mark(w) \/ MarkFails(w) PROVE SentInv'
  <2>1. pc[w] # "poll" /\ RowDone(w) /\ UNCHANGED <<tried, sent>>
    BY <1>6 DEF DeliverRaises, Mark, MarkFails
  <2>2. /\ pc'[w] # "mark"
        /\ \A v \in Schedulers \ {w} : batch'[v] = batch[v] /\ pc'[v] = pc[v]
        /\ Head(batch[w]) \in FollowUps
    BY <2>1, RestOfBatch
  <2>3. failures'["http"] = failures["http"]
    BY <1>6, FailsType DEF DeliverRaises, Mark, MarkFails, SchedulerInv
  <2>4. ASSUME NEW g \in FollowUps \ Blank, status'[g] = "done", status[g] # "done" PROVE WasSent(g)
    BY <1>6, <2>2, <2>4 DEF DeliverRaises, Mark, MarkFails, SchedulerInv, SchedulerTypeOK, SentInv
  <2>5. DoneWasSent'
    BY <2>1, <2>3, <2>4 DEF SentInv, DoneWasSent, WasSent
  <2>6. QED
    BY <2>1, <2>2, <2>3, <2>5 DEF SentInv, WasSent
<1>7. ASSUME NEW w \in Schedulers, WorkerDies(w) PROVE SentInv'
  <2>1. failures'["http"] = failures["http"]
    BY <1>7, FailsType DEF WorkerDies, SchedulerInv
  <2>2. /\ UNCHANGED <<status, tried, sent>> /\ pc'[w] # "mark"
        /\ \A v \in Schedulers \ {w} : batch'[v] = batch[v] /\ pc'[v] = pc[v]
    BY <1>7 DEF WorkerDies, SchedulerInv, SchedulerTypeOK
  <2>3. QED
    BY <2>1, <2>2 DEF SentInv, DoneWasSent, WasSent
<1>8. CASE UNCHANGED schedulerVars
  BY <1>8 DEF schedulerVars, SentInv, DoneWasSent, WasSent
<1>9. QED
  BY <1>1, <1>2, <1>3, <1>4, <1>5, <1>6, <1>7, <1>8 DEF SchedulerNext, RunOnce

(* No scheduler claims what it has read, so any number of them may send    *)
(* the same follow-up, but each only once more for every crash or failed   *)
(* mark; and none is done without having been sent (run_once).             *)
THEOREM DeliveryIsAccounted == SchedulerSpec => []DeliveryAccounted
<1>1. SchedulerInit => AllowanceInv /\ SentInv
  <2> SUFFICES ASSUME SchedulerInit PROVE AllowanceInv /\ SentInv
    OBVIOUS
  <2>1. ASSUME NEW f \in FollowUps PROVE Allowance(f)
    <3>1. MaySend(f) \subseteq Schedulers
      BY DEF MaySend
    <3>2. Cardinality(MaySend(f)) <= Cardinality(Schedulers)
      BY <3>1, CountAssumption, FS_Subset
    <3>3. QED
      BY <3>2, MaySendFinite DEF SchedulerInit, Allowance, Accidents
  <2>2. SentInv
    BY DEF SchedulerInit, SentInv, DoneWasSent
  <2>3. QED
    BY <2>1, <2>2 DEF AllowanceInv
<1>2. SchedulerInv /\ AllowanceInv /\ SentInv /\ [SchedulerNext]_schedulerVars => AllowanceInv' /\ SentInv'
  BY AllowanceStep, SentStep
<1>3. SchedulerInv /\ AllowanceInv /\ SentInv => DeliveryAccounted
  <2> SUFFICES ASSUME SchedulerInv, AllowanceInv, SentInv PROVE DeliveryAccounted
    OBVIOUS
  <2>1. ASSUME NEW f \in FollowUps
        PROVE  tried[f] <= Cardinality(Schedulers) + failures["crash"] + failures["db"]
    <3>1. Allowance(f) /\ tried[f] \in Nat /\ failures["crash"] \in Nat /\ failures["db"] \in Nat
      BY DEF AllowanceInv, SchedulerInv, SchedulerTypeOK
    <3>2. QED
      BY <3>1, MaySendFinite DEF Allowance, Accidents
  <2>2. QED
    BY <2>1 DEF SentInv, DeliveryAccounted, RepeatsAccounted
<1>4. QED
  BY <1>1, <1>2, <1>3, SchedulerInvariant, PTL DEF SchedulerSpec
=============================================================================
