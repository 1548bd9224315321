--------------------------- MODULE EmbeddingQueue ---------------------------
(***************************************************************************)
(* The vector index behind job search: the reindex route reads the live    *)
(* rows and pushes one event for each on a Redis list; workers pop the     *)
(* events and upsert them in Qdrant.  Every process that uses the index    *)
(* lists Qdrant's collections when it starts, checks that their vectors    *)
(* are of the kind HYBRID_SEARCH_ENABLED asks for and creates what is      *)
(* missing; nothing keeps two of them from doing so at once.               *)
(***************************************************************************)
EXTENDS Integers, Sequences, FiniteSets, SequencesExt

CONSTANTS
  Jobs,        (* rows of private_jobs                                     *)
  Reindexers,  (* overlapping calls of POST /reindex                       *)
  Workers,     (* consumers of the list, standalone or bundled in the API  *)
  Api,         (* the API's process                                        *)
  Bundled,     (* the worker the API runs itself in embedded mode          *)
  MaxEdits,    (* bound on the edits of rows, and so on their versions     *)
  MaxRuns,     (* bound on reindex calls                                   *)
  MaxFaults,   (* bound on each kind of fault in a behaviour               *)
  MaxTotal     (* bound on all faults of a behaviour                       *)

FaultKinds == {"crash", "failure", "redis", "request", "switch"}
Kinds      == {"hybrid", "dense"}
Down       == [state |-> "down", kind |-> "dense"]
Processes  == {Api} \cup Workers
NoEvent    == [job |-> "none", version |-> 0]

ASSUME JobsAssumption    == IsFiniteSet(Jobs)
ASSUME BoundsAssumption  == MaxEdits \in Nat /\ MaxRuns \in Nat
ASSUME FaultsAssumption  == MaxFaults \in [FaultKinds -> Nat] /\ MaxTotal \in Nat
ASSUME ProcessAssumption == Bundled \in Workers /\ Api \notin Workers

VARIABLES
  version,   (* version of each job's row in Postgres                      *)
  edits,     (* edits so far                                               *)
  snapshot,  (* each reindex call: the events it has yet to push           *)
  runs,      (* reindex calls so far                                       *)
  queue,     (* the Redis list                                             *)
  work,      (* each worker: the event it popped                           *)
  index,     (* version of each job in Qdrant; 0 before the first upsert   *)
  mode,      (* VECTOR_MODE: Qdrant's server, or its files inside the API  *)
  setting,   (* what HYBRID_SEARCH_ENABLED asks of a process that starts   *)
  collection,(* kind of the vectors in the jobs collection, "none" without *)
  store,     (* each process: down, starting on what it listed, or ready   *)
  faults,    (* faults so far, by kind                                     *)
  read,      (* history: newest version of each job a reindex has read     *)
  pushed,    (* history: last version of each job that was pushed          *)
  owed,      (* history: events pushed less events upserted                *)
  refused,   (* history: upserts the collection would not take             *)
  raced      (* history: who met, two reindex calls or two workers on a    *)
             (* job, or an operator's deletion and a process that was up   *)

table   == <<version, edits>>
qdrant  == <<mode, setting, collection, store>>
history == <<read, pushed, owed, refused, raced>>
vars    == <<table, snapshot, runs, queue, work, index, qdrant, faults, history>>

Event == [job : Jobs, version : 1..MaxEdits + 1]

Init ==
  /\ version = [j \in Jobs |-> 1]
  /\ edits = 0
  /\ snapshot = [r \in Reindexers |-> <<>>]
  /\ runs = 0
  /\ queue = <<>>
  /\ work = [w \in Workers |-> NoEvent]
  /\ index = [j \in Jobs |-> 0]
  /\ mode \in {"http", "embedded"}
  /\ setting = "hybrid"
  /\ collection = "none"
  /\ store = [p \in Processes |-> Down]
  /\ faults = [k \in FaultKinds |-> 0]
  /\ read = [j \in Jobs |-> 0]
  /\ pushed = [j \in Jobs |-> 0]
  /\ owed = 0
  /\ refused = 0
  /\ raced = {}

Spare(k) == faults[k] < MaxFaults[k] /\ FoldFunction(+, 0, faults) < MaxTotal

Fault(k) ==
  /\ Spare(k)
  /\ faults' = [faults EXCEPT ![k] = @ + 1]

(* An employer's edit of a live job. *)
Edit(j) ==
  /\ edits < MaxEdits
  /\ edits' = edits + 1
  /\ version' = [version EXCEPT ![j] = @ + 1]
  /\ UNCHANGED <<snapshot, runs, queue, work, index, qdrant, faults, history>>

-----------------------------------------------------------------------------
(* VectorStore.connect, when a process starts *)

Home(w)  == IF mode = "http" THEN w ELSE Api
Ready(p) == store[p].state = "ready"

(* In embedded mode there is but the one process. *)
Runs(p) == mode = "http" \/ p = Api

(* get_collections and _schema_matches: a collection of the other kind is  *)
(* dropped where its data are disposable; over HTTP the process refuses to *)
(* start, and compose starts it again.                                     *)
List(p) ==
  /\ Runs(p) /\ store[p].state = "down"
  /\ collection \in {"none", setting} \/ mode = "embedded"
  /\ store' = [store EXCEPT ![p] =
                 [state |-> IF collection = setting THEN "ready" ELSE "listed", kind |-> setting]]
  /\ IF collection = setting THEN UNCHANGED <<collection, index>>
     ELSE collection' = "none" /\ index' = [j \in Jobs |-> 0]
  /\ UNCHANGED <<table, snapshot, runs, queue, work, mode, setting, faults, history>>

(* Mutant: a collection that exists by now is taken as it is. *)
CreateOrTake(p) ==
  /\ store[p].state = "listed"
  /\ collection' = IF collection = "none" THEN store[p].kind ELSE collection
  /\ store' = [store EXCEPT ![p].state = "ready"]
  /\ UNCHANGED <<table, snapshot, runs, queue, work, index, mode, setting, faults, history>>

(* create_collection: it raises, and the process ends, when the collection *)
(* exists by now.                                                          *)
Create(p) ==
  /\ store[p].state = "listed"
  /\ \/ /\ collection = "none"
        /\ collection' = store[p].kind
        /\ store' = [store EXCEPT ![p].state = "ready"]
     \/ /\ collection # "none"
        /\ store' = [store EXCEPT ![p] = Down]
        /\ UNCHANGED collection
  /\ UNCHANGED <<table, snapshot, runs, queue, work, index, mode, setting, faults, history>>

Connect(p) == List(p) \/ Create(p)

(* HYBRID_SEARCH_ENABLED is changed in the environment file. *)
Switch ==
  /\ Fault("switch")
  /\ \E k \in Kinds \ {setting} : setting' = k
  /\ UNCHANGED <<table, snapshot, runs, queue, work, index, mode, collection, store, history>>

(* A process ends when it is told to, the event and the request in hand    *)
(* finished: a restart for the changed setting.                            *)
Stop(p) ==
  /\ store[p].state # "down" /\ store[p].kind # setting
  /\ \A w \in Workers : Home(w) = p => work[w] = NoEvent
  /\ p = Api => \A r \in Reindexers : snapshot[r] = <<>>
  /\ store' = [store EXCEPT ![p] = Down]
  /\ UNCHANGED <<table, snapshot, runs, queue, work, index, mode, setting, collection, faults, history>>

(* "Delete the collection and re-run reindex": an operator does what the   *)
(* refusal to start says.                                                  *)
DeleteCollection ==
  /\ mode = "http" /\ collection \notin {"none", setting}
  /\ collection' = "none"
  /\ index' = [j \in Jobs |-> 0]
  /\ raced' = raced \cup {"operator" : p \in {q \in Processes : store[q].state # "down"}}
  /\ UNCHANGED <<table, snapshot, runs, queue, work, mode, setting, store, faults, read, pushed, owed, refused>>

-----------------------------------------------------------------------------
(* POST /reindex *)

Rows == SetToSeq({[job |-> j, version |-> version[j]] : j \in Jobs})

(* JobRepository.iter_active_for_embedding *)
Reindex(r) ==
  /\ Ready(Api)
  /\ snapshot[r] = <<>> /\ runs < MaxRuns
  /\ snapshot' = [snapshot EXCEPT ![r] = Rows]
  /\ runs' = runs + 1
  /\ read' = version
  /\ raced' = raced \cup {"reindex" : x \in {y \in Reindexers : snapshot[y] # <<>>}}
  /\ UNCHANGED <<table, queue, work, index, qdrant, faults, pushed, owed, refused>>

(* EmbeddingQueue.enqueue, once per row *)
Enqueue(r) ==
  LET e == Head(snapshot[r]) IN
  /\ snapshot[r] # <<>>
  /\ queue' = Append(queue, e)
  /\ snapshot' = [snapshot EXCEPT ![r] = Tail(@)]
  /\ pushed' = [pushed EXCEPT ![e.job] = e.version]
  /\ owed' = owed + 1
  /\ UNCHANGED <<table, runs, work, index, qdrant, faults, read, refused, raced>>

(* The request ends early: what it pushed stays pushed. *)
ReindexFails(r) ==
  /\ snapshot[r] # <<>>
  /\ Fault("request")
  /\ snapshot' = [snapshot EXCEPT ![r] = <<>>]
  /\ UNCHANGED <<table, runs, queue, work, index, qdrant, history>>

-----------------------------------------------------------------------------
(* Worker._consume *)

Idle(w) == work[w] = NoEvent

(* BLPOP takes the event off the list before anything is done with it. *)
Dequeue(w) ==
  /\ Ready(Home(w)) /\ (mode = "embedded" => w = Bundled)
  /\ Idle(w) /\ queue # <<>>
  /\ work' = [work EXCEPT ![w] = Head(queue)]
  /\ queue' = Tail(queue)
  /\ raced' = raced \cup {"workers" : x \in {y \in Workers : work[y].job = Head(queue).job}}
  /\ UNCHANGED <<table, snapshot, runs, index, qdrant, faults, read, pushed, owed, refused>>

(* Worker._process and VectorStore.upsert: the points carry the kind of    *)
(* vectors the process made up its mind for when it started.               *)
Takes(w) == collection = store[Home(w)].kind

(* Mutant: an upsert that keeps the first version. *)
UpsertFirst(w) ==
  LET e == work[w] IN
  /\ ~ Idle(w) /\ Takes(w)
  /\ index' = [index EXCEPT ![e.job] = IF @ = 0 THEN e.version ELSE @]
  /\ owed' = owed - 1
  /\ work' = [work EXCEPT ![w] = NoEvent]
  /\ UNCHANGED <<table, snapshot, runs, queue, qdrant, faults, read, pushed, refused, raced>>

(* Mutant: the event stays in the worker's hands. *)
UpsertKeeps(w) ==
  LET e == work[w] IN
  /\ ~ Idle(w) /\ Takes(w)
  /\ index' = [index EXCEPT ![e.job] = e.version]
  /\ owed' = owed - 1
  /\ UNCHANGED <<table, snapshot, runs, queue, work, qdrant, faults, read, pushed, refused, raced>>

Upsert(w) ==
  LET e == work[w] IN
  /\ ~ Idle(w) /\ Takes(w)
  /\ index' = [index EXCEPT ![e.job] = e.version]
  /\ owed' = owed - 1
  /\ work' = [work EXCEPT ![w] = NoEvent]
  /\ UNCHANGED <<table, snapshot, runs, queue, qdrant, faults, read, pushed, refused, raced>>

(* The collection is gone or has the other kind of vectors: Qdrant raises. *)
UpsertRefused(w) ==
  /\ ~ Idle(w) /\ ~ Takes(w)
  /\ refused' = refused + 1
  /\ work' = [work EXCEPT ![w] = NoEvent]
  /\ UNCHANGED <<table, snapshot, runs, queue, index, qdrant, faults, read, pushed, owed, raced>>

(* Mutant: what failed goes back on the list, behind newer events. *)
ProcessRetries(w) ==
  /\ ~ Idle(w)
  /\ Fault("failure")
  /\ work' = [work EXCEPT ![w] = NoEvent]
  /\ queue' = Append(queue, work[w])
  /\ UNCHANGED <<table, snapshot, runs, index, qdrant, history>>

(* depth(), the embedding or the upsert raises: logged, and on it goes. *)
ProcessFails(w) ==
  /\ ~ Idle(w)
  /\ Fault("failure")
  /\ work' = [work EXCEPT ![w] = NoEvent]
  /\ UNCHANGED <<table, snapshot, runs, queue, index, qdrant, history>>

(* A process dies, and what its worker and its requests had in hand with it. *)
Crash(p) ==
  /\ store[p].state # "down"
  /\ Fault("crash")
  /\ store' = [store EXCEPT ![p] = Down]
  /\ work' = [w \in Workers |-> IF Home(w) = p THEN NoEvent ELSE work[w]]
  /\ snapshot' = [r \in Reindexers |-> IF p = Api THEN <<>> ELSE snapshot[r]]
  /\ UNCHANGED <<table, runs, queue, index, mode, setting, collection, history>>

(* Redis keeps nothing on disk, and may evict the list. *)
RedisRestart ==
  /\ queue # <<>>
  /\ Fault("redis")
  /\ queue' = <<>>
  /\ UNCHANGED <<table, snapshot, runs, work, index, qdrant, history>>

Consume(w) == Dequeue(w) \/ Upsert(w) \/ UpsertRefused(w)

Next ==
  \/ \E j \in Jobs : Edit(j)
  \/ \E p \in Processes : Connect(p) \/ Stop(p) \/ Crash(p)
  \/ \E r \in Reindexers : Reindex(r) \/ Enqueue(r) \/ ReindexFails(r)
  \/ \E w \in Workers : Consume(w) \/ ProcessFails(w)
  \/ Switch \/ DeleteCollection \/ RedisRestart

Spec == Init /\ [][Next]_vars

(* _consume loops for ever, its exceptions caught inside the loop; compose *)
(* starts a process that ended again ("restart: unless-stopped").          *)
Fairness ==
  /\ \A w \in Workers : WF_vars(Consume(w))
  /\ \A p \in Processes : WF_vars(Connect(p))

FairSpec == Spec /\ Fairness

-----------------------------------------------------------------------------
(* Properties *)

(* Type invariant. *)
TypeOK ==
  /\ version \in [Jobs -> 1..MaxEdits + 1]
  /\ edits \in 0..MaxEdits
  /\ snapshot \in [Reindexers -> Seq(Event)]
  /\ runs \in 0..MaxRuns
  /\ queue \in Seq(Event)
  /\ work \in [Workers -> Event \cup {NoEvent}]
  /\ index \in [Jobs -> 0..MaxEdits + 1]
  /\ mode \in {"http", "embedded"} /\ setting \in Kinds
  /\ collection \in Kinds \cup {"none"}
  /\ store \in [Processes -> [state : {"down", "listed", "ready"}, kind : Kinds]]
  /\ faults \in [FaultKinds -> Nat]
  /\ read \in [Jobs -> 0..MaxEdits + 1]
  /\ pushed \in [Jobs -> 0..MaxEdits + 1]
  /\ owed \in Nat /\ refused \in Nat
  /\ raced \subseteq {"reindex", "workers", "operator"}

Busy  == {w \in Workers : ~ Idle(w)}
Quiet == queue = <<>> /\ Busy = {} /\ \A r \in Reindexers : snapshot[r] = <<>>

(* BLPOP is at most once: as long as Redis stays up, a crash or a failure  *)
(* costs the one event in hand and nothing else.  An upsert the collection *)
(* will not take costs one too.                                            *)
LossAccounted ==
  faults["redis"] = 0 =>
    owed - Len(queue) - Cardinality(Busy) <= faults["crash"] + faults["failure"] + refused

(* connect() vouches for the collection: a process that is up makes the    *)
(* kind of vectors it has, and no upsert is refused, unless an operator    *)
(* deleted it from under a process that was up; two processes that start   *)
(* together do not end up with one schema each.                            *)
SchemaVouched ==
  \/ "operator" \in raced
  \/ /\ refused = 0
     /\ \A p \in Processes : Ready(p) => store[p].kind = collection

(* "re-running reindex any time is safe" (embedding_worker.py:17): when    *)
(* all is done, nothing failed and neither reindex calls nor workers met,  *)
(* the index is no older than the newest row a reindex has read.           *)
ReindexSafe ==
  Quiet /\ raced = {} /\ (\A k \in FaultKinds : faults[k] = 0) =>
    \A j \in Jobs : index[j] >= read[j]

(* A newer version of a job in the index is never overwritten by an older  *)
(* one, whatever was lost, failed, died or was switched meanwhile, unless  *)
(* two reindex calls overlapped or two workers met on a job: the list      *)
(* keeps the order of the reads, and nothing that was popped comes back.   *)
Apart == raced \cap {"reindex", "workers"} = {}

NeverOlder == [][Apart' => \A j \in Jobs : index'[j] >= index[j] \/ collection' = "none"]_vars

(* No event is lost, and none wins over a newer one, but by a fault or a   *)
(* race that can be named: the three together.                             *)
EventsAccounted == LossAccounted /\ SchemaVouched /\ ReindexSafe

(* What was pushed reaches the index and stays there until something else  *)
(* is pushed, unless a fault took it or two workers met on a job: workers  *)
(* that keep failing or restarting work through the rest.                  *)
PushedIsIndexed ==
  \A j \in Jobs, v \in 1..MaxEdits + 1 :
    (pushed[j] = v) ~> \/ index[j] = v \/ pushed[j] # v
                       \/ "workers" \in raced \/ \E k \in FaultKinds : faults[k] > 0
=============================================================================
