---------------------------- MODULE SenderProofs ----------------------------
(***************************************************************************)
(* Proofs about one sender.  Registration: the rows his forms write, for   *)
(* every number of submits in flight, of jobs and of faults.  AgentTurn:   *)
(* his turns through the graph, routed by what is known of him, for every  *)
(* budget of loops and steps, and any number of turns and faults.          *)
(***************************************************************************)
EXTENDS Registration, AgentTurn, FiniteSetTheorems, TLAPS

USE DEF FaultKinds

(* Each place belongs to the form whose handler it is in.                  *)
FormOK ==
  \A r \in Requests :
    /\ req[r].at \in {"exists", "save", "relink"} => form = "employer"
    /\ req[r].at = "stage" => form = "seeker"

TypeInv == TypeOK /\ FormOK

LEMMA FaultType ==
  ASSUME TypeOK, NEW k \in FaultKinds, Fault(k)
  PROVE  /\ faults' \in [FaultKinds -> 0..MaxFaults]
         /\ faults'[k] = faults[k] + 1
         /\ \A x \in FaultKinds \ {k} : faults'[x] = faults[x]
<1>1. /\ faults' = [faults EXCEPT ![k] = @ + 1] /\ Spent < MaxFaults
      /\ faults \in [FaultKinds -> 0..MaxFaults] /\ MaxFaults \in Nat
  BY BoundsAssumption DEF Fault, TypeOK
<1>2. faults[k] + 1 \in 0..MaxFaults
  BY <1>1 DEF Spent
<1>3. QED
  BY <1>1, <1>2

LEMMA GotoType ==
  ASSUME TypeOK, NEW r \in Requests, NEW place \in Places, Goto(r, place)
  PROVE  /\ req' \in [Requests -> [at: Places, id: Ids]]
         /\ req'[r].at = place /\ req'[r].id = req[r].id
         /\ \A q \in Requests \ {r} : req'[q] = req[q]
<1>1. req \in [Requests -> [at: Places, id: Ids]]
  BY DEF TypeOK
<1>2. req' = [req EXCEPT ![r] = [req[r] EXCEPT !.at = place]]
  BY DEF Goto
<1>3. QED
  BY <1>1, <1>2

LEMMA FinishType ==
  ASSUME TypeOK, NEW r \in Requests, Finish(r)
  PROVE  /\ req' \in [Requests -> [at: Places, id: Ids]]
         /\ req'[r].at = "idle"
         /\ \A q \in Requests \ {r} : req'[q] = req[q]
<1>1. Idle \in [at: Places, id: Ids] /\ Idle.at = "idle"
  BY BoundsAssumption DEF Idle, Places, Ids
<1>2. QED
  BY <1>1 DEF TypeOK, Finish

LEMMA SubmitType ==
  ASSUME TypeOK, NEW r \in Requests, Submit(r)
  PROVE  /\ req' \in [Requests -> [at: Places, id: Ids]]
         /\ req'[r].at = IF form = "employer" THEN "exists" ELSE "stage"
         /\ \A q \in Requests \ {r} : req'[q] = req[q]
         /\ submits' \in 0..MaxSubmits
<1>1. submits' \in 0..MaxSubmits /\ submits' \in Ids
  BY BoundsAssumption DEF Submit, TypeOK, Ids
<1>2. req' = [req EXCEPT ![r] = [at |-> IF form = "employer" THEN "exists" ELSE "stage",
                                 id |-> submits']]
  BY DEF Submit
<1>3. [at |-> IF form = "employer" THEN "exists" ELSE "stage", id |-> submits'] \in [at: Places, id: Ids]
  BY <1>1 DEF Places
<1>4. QED
  BY <1>1, <1>2, <1>3 DEF TypeOK

LEMMA RecordType ==
  /\ Absent \in Record
  /\ \A id \in Ids : New(id) \in Record /\ New(id) # Absent /\ New(id).jobs = {}
  /\ \A x \in Record : x # Absent => x \in [id: Ids, jobs: SUBSET Jobs]
  /\ \A x \in [id: Ids, jobs: SUBSET Jobs] : x # Absent
<1>1. \A x \in [id: Ids, jobs: SUBSET Jobs] : x # Absent
  <2>1. \A x \in [id: Ids, jobs: SUBSET Jobs] : DOMAIN x = {"id", "jobs"}
    OBVIOUS
  <2>2. DOMAIN Absent = {"id"} /\ {"id"} # {"id", "jobs"}
    BY DEF Absent
  <2>3. QED
    BY <2>1, <2>2
<1>2. \A id \in Ids : New(id) \in [id: Ids, jobs: SUBSET Jobs] /\ New(id).jobs = {}
  BY DEF New
<1>3. QED
  BY <1>1, <1>2 DEF Record

(* A step of one submit.                                                   *)
LEMMA TypeKept ==
  ASSUME TypeInv, NEW r \in Requests, form' = form, record' \in Record,
         lock' \in BOOLEAN, relinked' \in BOOLEAN, rows \subseteq rows', rows' \subseteq Ids,
         posted' = posted, submits' \in 0..MaxSubmits, faults' \in [FaultKinds -> 0..MaxFaults],
         req' \in [Requests -> [at: Places, id: Ids]],
         \A q \in Requests \ {r} : req'[q] = req[q],
         req'[r].at \in {"exists", "save", "relink"} => form = "employer",
         req'[r].at = "stage" => form = "seeker",
         req'[r].at = "relink" => rows # {}
  PROVE  TypeInv'
<1>1. \A q \in Requests : req'[q].at = "relink" => rows' # {}
  BY DEF TypeInv, TypeOK, At
<1>2. TypeOK'
  BY <1>1 DEF TypeInv, TypeOK, At
<1>3. FormOK'
  BY DEF TypeInv, FormOK
<1>4. QED
  BY <1>2, <1>3 DEF TypeInv

LEMMA TypeInit == Init => TypeInv
<1> SUFFICES ASSUME Init PROVE TypeInv
  OBVIOUS
<1>1. Idle \in [at: Places, id: Ids] /\ Idle.at = "idle"
  BY BoundsAssumption DEF Idle, Places, Ids
<1>2. 0 \in Ids /\ 0 \in 0..MaxSubmits /\ 0 \in 0..MaxFaults
  BY BoundsAssumption DEF Ids
<1>3. \A r \in Requests : req[r].at = "idle"
  BY <1>1 DEF Init
<1>4. req \in [Requests -> [at: Places, id: Ids]] /\ faults \in [FaultKinds -> 0..MaxFaults]
  BY <1>1, <1>2 DEF Init
<1>5. TypeOK
  BY <1>2, <1>3, <1>4, RecordType DEF Init, TypeOK, At
<1>6. FormOK
  BY <1>3 DEF FormOK
<1>7. QED
  BY <1>5, <1>6 DEF TypeInv

LEMMA TypeStep ==
  ASSUME TypeInv, [Next]_vars
  PROVE  TypeInv'
<1>0. /\ TypeOK /\ form \in {"employer", "seeker"} /\ record \in Record /\ lock \in BOOLEAN
      /\ relinked \in BOOLEAN /\ rows \subseteq Ids /\ posted \subseteq Jobs
      /\ submits \in 0..MaxSubmits /\ faults \in [FaultKinds -> 0..MaxFaults]
      /\ req \in [Requests -> [at: Places, id: Ids]]
  BY DEF TypeInv, TypeOK
<1>1. \A r \in Requests : req[r].id \in Ids
  BY <1>0
<1>2. ASSUME NEW r \in Requests, Submit(r) PROVE TypeInv'
  <2>1. UNCHANGED <<form, record, lock, rows, faults, posted, relinked>>
    BY <1>2 DEF Submit
  <2>2. QED
    BY <1>0, <1>2, <2>1, SubmitType, TypeKept
<1>3. ASSUME NEW r \in Requests, NEW place \in {"lock", "save", "check", "insert", "relink"},
             Goto(r, place), form' = form, record' \in Record, lock' \in BOOLEAN, rows' = rows,
             UNCHANGED <<posted, submits, relinked>>, faults' \in [FaultKinds -> 0..MaxFaults],
             place \in {"save", "relink"} => form = "employer",
             place = "relink" => rows # {}
      PROVE  TypeInv'
  <2>1. place \in Places
    BY DEF Places
  <2>2. QED
    BY <1>0, <1>3, <2>1, GotoType, TypeKept
<1>4. ASSUME NEW r \in Requests, Finish(r), form' = form, record' \in Record, lock' \in BOOLEAN,
             rows \subseteq rows', rows' \subseteq Ids, UNCHANGED <<posted, submits>>,
             relinked' \in BOOLEAN, faults' \in [FaultKinds -> 0..MaxFaults]
      PROVE  TypeInv'
  BY <1>0, <1>4, FinishType, TypeKept
<1>5. ASSUME NEW r \in Requests, Look(r) PROVE TypeInv'
  BY <1>0, <1>3, <1>4, <1>5 DEF Look
<1>6. ASSUME NEW r \in Requests, Take(r) PROVE TypeInv'
  BY <1>0, <1>3, <1>4, <1>6 DEF Take
<1>7. ASSUME NEW r \in Requests, SaveEmployer(r) PROVE TypeInv'
  BY <1>0, <1>1, <1>3, <1>7, RecordType DEF SaveEmployer
<1>8. ASSUME NEW r \in Requests, SaveFails(r) PROVE TypeInv'
  BY <1>0, <1>4, <1>8, FaultType DEF SaveFails
<1>9. ASSUME NEW r \in Requests, FindEmployer(r) PROVE TypeInv'
  BY <1>0, <1>3, <1>9 DEF FindEmployer
<1>10. ASSUME NEW r \in Requests, FindFails(r) PROVE TypeInv'
  BY <1>0, <1>4, <1>10, FaultType DEF FindFails
<1>11. ASSUME NEW r \in Requests, Relink(r) PROVE TypeInv'
  BY <1>0, <1>4, <1>11, RecordType DEF Relink
<1>12. ASSUME NEW r \in Requests, StageSeeker(r) PROVE TypeInv'
  BY <1>0, <1>1, <1>3, <1>12, RecordType DEF StageSeeker
<1>13. ASSUME NEW r \in Requests, StageFails(r) PROVE TypeInv'
  BY <1>0, <1>3, <1>13, FaultType DEF StageFails
<1>14. ASSUME NEW r \in Requests, FindSeeker(r) PROVE TypeInv'
  BY <1>0, <1>3, <1>4, <1>14 DEF FindSeeker
<1>15. ASSUME NEW r \in Requests, FindSeekerFails(r) PROVE TypeInv'
  BY <1>0, <1>3, <1>15, FaultType DEF FindSeekerFails
<1>16. ASSUME NEW r \in Requests, InsertEmployer(r) \/ InsertSeeker(r) PROVE TypeInv'
  BY <1>0, <1>1, <1>4, <1>16 DEF InsertEmployer, InsertSeeker, Insert
<1>17. ASSUME NEW r \in Requests, InsertFails(r) PROVE TypeInv'
  BY <1>0, <1>4, <1>17, FaultType DEF InsertFails
<1>18. ASSUME NEW r \in Requests, Crash(r) PROVE TypeInv'
  BY <1>0, <1>4, <1>18, FaultType DEF Crash
<1>19. CASE AddJob
  <2>1. record' \in Record /\ posted' \subseteq Jobs
    <3>1. PICK j \in Jobs : posted' = posted \cup {j} /\ record' = [record EXCEPT !.jobs = @ \cup {j}]
      BY <1>19 DEF AddJob
    <3>2. record \in [id: Ids, jobs: SUBSET Jobs]
      BY <1>0, <1>19, RecordType DEF AddJob
    <3>3. record' \in [id: Ids, jobs: SUBSET Jobs]
      BY <3>1, <3>2
    <3>4. QED
      BY <1>0, <3>1, <3>3 DEF Record
  <2>2. QED
    BY <1>19, <2>1 DEF AddJob, TypeInv, TypeOK, FormOK, At
<1>20. CASE LoseRecord
  <2>1. faults' \in [FaultKinds -> 0..MaxFaults] /\ record' \in Record /\ posted' \subseteq Jobs
    BY <1>0, <1>20, FaultType, RecordType DEF LoseRecord
  <2>2. QED
    BY <1>20, <2>1 DEF LoseRecord, TypeInv, TypeOK, FormOK, At
<1>21. CASE ExpireLock
  <2>1. faults' \in [FaultKinds -> 0..MaxFaults]
    BY <1>0, <1>21, FaultType DEF ExpireLock
  <2>2. QED
    BY <1>21, <2>1 DEF ExpireLock, TypeInv, TypeOK, FormOK, At
<1>22. CASE UNCHANGED vars
  BY <1>22 DEF vars, TypeInv, TypeOK, FormOK, At
<1>23. QED
  BY <1>2, <1>5, <1>6, <1>7, <1>8, <1>9, <1>10, <1>11, <1>12, <1>13, <1>14, <1>15, <1>16, <1>17,
     <1>18, <1>19, <1>20, <1>21, <1>22 DEF Next, Step

LEMMA TypeInvariant == Spec => []TypeInv
BY TypeInit, TypeStep, PTL DEF Spec

(* Records, rows and submits keep their types, and a submit that relinks   *)
(* the record has found a row to link it to (register_submit).             *)
THEOREM TypeCorrect == Spec => []TypeOK
<1>1. TypeInv => TypeOK
  BY DEF TypeInv
<1>2. QED
  BY <1>1, TypeInvariant, PTL

-----------------------------------------------------------------------------
(* How many rows there can be                                              *)

In(places) == {q \in Requests : req[q].at \in places}

Inserting == In({"insert"})
Holding == In({"save", "check"})
Slack == 1 + faults["slow"] + faults["check"]

(* Whoever may still insert a row counts as one. Until there is a row that *)
(* is also whoever took the lock and has not looked yet, and whoever will  *)
(* take the lock when it is free.                                          *)
RowsInv ==
  /\ IsFiniteSet(Inserting) /\ IsFiniteSet(Holding)
  /\ IF rows = {}
       THEN Cardinality(Inserting) + Cardinality(Holding) + (IF lock THEN 0 ELSE 1) <= Slack
       ELSE Cardinality(rows) + Cardinality(Inserting) <= Slack

One(b) == IF b THEN 1 ELSE 0

(* The step of one submit changes a count by that submit alone.            *)
LEMMA InCount ==
  ASSUME NEW places, NEW r \in Requests, \A q \in Requests \ {r} : req'[q] = req[q],
         IsFiniteSet(In(places))
  PROVE  /\ IsFiniteSet(In(places)')
         /\ Cardinality(In(places)) \in Nat /\ Cardinality(In(places)') \in Nat
         /\ Cardinality(In(places)') =
              Cardinality(In(places)) - One(req[r].at \in places) + One(req'[r].at \in places)
<1> DEFINE S == In(places)
           T == In(places)'
           Rest == S \ {r}
<1>1. S = IF req[r].at \in places THEN Rest \cup {r} ELSE Rest
  BY DEF In
<1>2. T = IF req'[r].at \in places THEN Rest \cup {r} ELSE Rest
  BY DEF In
<1>3. IsFiniteSet(Rest) /\ r \notin Rest
  BY FS_RemoveElement
<1>4. Cardinality(Rest) \in Nat
  BY <1>3, FS_CardinalityType
<1>5. IsFiniteSet(Rest \cup {r}) /\ Cardinality(Rest \cup {r}) = Cardinality(Rest) + 1
  BY <1>3, FS_AddElement
<1> HIDE DEF S, T, Rest
<1>6. Cardinality(S) = Cardinality(Rest) + One(req[r].at \in places)
  BY <1>1, <1>4, <1>5 DEF One
<1>7. Cardinality(T) = Cardinality(Rest) + One(req'[r].at \in places) /\ IsFiniteSet(T)
  BY <1>2, <1>3, <1>4, <1>5 DEF One
<1>8. Cardinality(S) \in Nat /\ Cardinality(T) \in Nat
  BY <1>4, <1>6, <1>7 DEF One
<1>9. Cardinality(T) = Cardinality(S) - One(req[r].at \in places) + One(req'[r].at \in places)
  BY <1>4, <1>6, <1>7 DEF One
<1>10. QED
  BY <1>7, <1>8, <1>9 DEF S, T

LEMMA RowsCount ==
  ASSUME TypeOK
  PROVE  /\ IsFiniteSet(rows) /\ Cardinality(rows) \in Nat
         /\ \A id \in Ids : /\ IsFiniteSet(rows \cup {id})
                            /\ Cardinality(rows \cup {id}) \in Nat
                            /\ Cardinality(rows \cup {id}) <= Cardinality(rows) + 1
         /\ Cardinality({}) = 0
         /\ faults["slow"] \in Nat /\ faults["check"] \in Nat
<1>1. IsFiniteSet(Ids)
  BY BoundsAssumption, FS_Interval DEF Ids
<1>2. IsFiniteSet(rows) /\ Cardinality(rows) \in Nat
  BY <1>1, FS_Subset, FS_CardinalityType DEF TypeOK
<1>3. ASSUME NEW id \in Ids
      PROVE  /\ IsFiniteSet(rows \cup {id}) /\ Cardinality(rows \cup {id}) \in Nat
             /\ Cardinality(rows \cup {id}) <= Cardinality(rows) + 1
  <2>1. IsFiniteSet(rows \cup {id})
        /\ Cardinality(rows \cup {id}) = IF id \in rows THEN Cardinality(rows) ELSE Cardinality(rows) + 1
    BY <1>2, FS_AddElement
  <2>2. QED
    BY <1>2, <2>1
<1>4. faults["slow"] \in Nat /\ faults["check"] \in Nat
  BY BoundsAssumption DEF TypeOK
<1>5. QED
  BY <1>2, <1>3, <1>4, FS_EmptySet

(* A step of one submit that adds no row: the counts move, and what the    *)
(* submit or the lock stops counting covers what starts to.                *)
LEMMA RowsKept ==
  ASSUME TypeOK, RowsInv, NEW r \in Requests, \A q \in Requests \ {r} : req'[q] = req[q],
         rows' = rows, Slack \in Nat, Slack' \in Nat, Slack <= Slack',
         LET was == req[r].at
             is  == req'[r].at
         IN  /\ rows = {} => One(is = "insert") + One(is \in {"save", "check"}) + One(~lock') + Slack
                              <= One(was = "insert") + One(was \in {"save", "check"}) + One(~lock) + Slack'
             /\ rows # {} => One(is = "insert") + Slack <= One(was = "insert") + Slack'
  PROVE  RowsInv'
<1> DEFINE was == req[r].at
           is  == req'[r].at
<1>1. /\ IsFiniteSet(Inserting') /\ Cardinality(Inserting) \in Nat /\ Cardinality(Inserting') \in Nat
      /\ Cardinality(Inserting') = Cardinality(Inserting) - One(was = "insert") + One(is = "insert")
  <2>1. IsFiniteSet(In({"insert"}))
    BY DEF RowsInv, Inserting
  <2>2. QED
    BY <2>1, InCount DEF Inserting, One
<1>2. /\ IsFiniteSet(Holding') /\ Cardinality(Holding) \in Nat /\ Cardinality(Holding') \in Nat
      /\ Cardinality(Holding') =
            Cardinality(Holding) - One(was \in {"save", "check"}) + One(is \in {"save", "check"})
  <2>1. IsFiniteSet(In({"save", "check"}))
    BY DEF RowsInv, Holding
  <2>2. QED
    BY <2>1, InCount DEF Holding
<1>3. Cardinality(rows) \in Nat
  BY RowsCount
<1>4. CASE rows = {}
  <2>1. Cardinality(Inserting) + Cardinality(Holding) + One(~lock) <= Slack
    BY <1>4 DEF RowsInv, One
  <2>2. One(is = "insert") + One(is \in {"save", "check"}) + One(~lock') + Slack
          <= One(was = "insert") + One(was \in {"save", "check"}) + One(~lock) + Slack'
    BY <1>4
  <2>3. /\ One(is = "insert") \in Nat /\ One(is \in {"save", "check"}) \in Nat /\ One(~lock') \in Nat
        /\ One(was = "insert") \in Nat /\ One(was \in {"save", "check"}) \in Nat /\ One(~lock) \in Nat
    BY DEF One
  <2>4. Cardinality(Inserting') + Cardinality(Holding') + One(~lock') <= Slack'
    BY <1>1, <1>2, <2>1, <2>2, <2>3
  <2>5. Cardinality(Inserting') + Cardinality(Holding') + (IF lock' THEN 0 ELSE 1) <= Slack'
    BY <2>4 DEF One
  <2>6. QED
    BY <1>1, <1>2, <1>4, <2>5 DEF RowsInv
<1>5. CASE rows # {}
  <2>1. Cardinality(rows) + Cardinality(Inserting) <= Slack
    BY <1>5 DEF RowsInv
  <2>2. One(is = "insert") + Slack <= One(was = "insert") + Slack'
    BY <1>5
  <2>3. One(is = "insert") \in Nat /\ One(was = "insert") \in Nat
    BY DEF One
  <2>4. Cardinality(rows') + Cardinality(Inserting') <= Slack'
    BY <1>1, <1>3, <2>1, <2>2, <2>3
  <2>5. QED
    BY <1>1, <1>2, <1>5, <2>4 DEF RowsInv
<1>6. QED
  BY <1>4, <1>5

LEMMA RowsInit == Init => RowsInv
<1> SUFFICES ASSUME Init PROVE RowsInv
  OBVIOUS
<1>1. \A r \in Requests : req[r].at = "idle"
  BY DEF Init, Idle
<1>2. Inserting = {} /\ Holding = {}
  BY <1>1 DEF Inserting, Holding, In
<1>3. Slack = 1
  BY DEF Init, Slack
<1>4. IsFiniteSet({}) /\ Cardinality({}) = 0 /\ Cardinality({0}) = 1
  BY FS_EmptySet, FS_Singleton
<1>5. rows = {} \/ (rows = {0} /\ rows # {})
  BY DEF Init
<1>6. lock = FALSE
  BY DEF Init
<1>7. QED
  BY <1>2, <1>3, <1>4, <1>5, <1>6 DEF RowsInv

LEMMA RowsStep ==
  ASSUME TypeInv, TypeInv', RowsInv, [Next]_vars
  PROVE  RowsInv'
<1>0. TypeOK /\ lock \in BOOLEAN /\ rows \subseteq Ids /\ req \in [Requests -> [at: Places, id: Ids]]
      /\ FormOK
  BY DEF TypeInv, TypeOK
<1>1. Slack \in Nat /\ Slack' \in Nat
  <2>1. faults["slow"] \in Nat /\ faults["check"] \in Nat
    BY BoundsAssumption DEF TypeInv, TypeOK
  <2>2. faults'["slow"] \in Nat /\ faults'["check"] \in Nat
    BY BoundsAssumption DEF TypeInv, TypeOK
  <2>3. QED
    BY <2>1, <2>2 DEF Slack
<1>2. /\ faults' = faults => Slack' = Slack
      /\ \A k \in {"slow", "check"} : Fault(k) => Slack' = Slack + 1
      /\ \A k \in FaultKinds \ {"slow", "check"} : Fault(k) => Slack' = Slack
  <2>1. faults["slow"] \in Nat /\ faults["check"] \in Nat
    BY <1>0, RowsCount
  <2>2. faults' = faults => Slack' = Slack
    BY DEF Slack
  <2>3. \A k \in {"slow", "check"} : Fault(k) => Slack' = Slack + 1
    <3>1. ASSUME NEW k \in {"slow", "check"}, Fault(k) PROVE Slack' = Slack + 1
      <4>1. faults'[k] = faults[k] + 1 /\ \A x \in FaultKinds \ {k} : faults'[x] = faults[x]
        BY <1>0, <3>1, FaultType
      <4>2. QED
        BY <2>1, <4>1 DEF Slack
    <3>2. QED
      BY <3>1
  <2>4. \A k \in FaultKinds \ {"slow", "check"} : Fault(k) => Slack' = Slack
    <3>1. ASSUME NEW k \in FaultKinds \ {"slow", "check"}, Fault(k) PROVE Slack' = Slack
      <4>1. \A x \in FaultKinds \ {k} : faults'[x] = faults[x]
        BY <1>0, <3>1, FaultType
      <4>2. QED
        BY <4>1 DEF Slack
    <3>2. QED
      BY <3>1
  <2>5. QED
    BY <2>2, <2>3, <2>4
(* Who leaves for good; who releases the lock was counted.                 *)
<1>3. ASSUME NEW r \in Requests, Finish(r), rows' = rows, Slack <= Slack', lock' \in BOOLEAN,
             (lock /\ ~lock') => req[r].at \in {"save", "insert"}
      PROVE  RowsInv'
  <2> DEFINE was == req[r].at
             is  == req'[r].at
  <2>1. is = "idle" /\ \A q \in Requests \ {r} : req'[q] = req[q]
    BY <1>0, <1>3, FinishType
  <2>2. One(is = "insert") = 0 /\ One(is \in {"save", "check"}) = 0
    BY <2>1 DEF One
  <2>3. /\ One(was = "insert") \in Nat /\ One(was \in {"save", "check"}) \in Nat
        /\ One(~lock) \in Nat /\ One(~lock') \in Nat
    BY DEF One
  <2>4. One(~lock') <= One(was = "insert") + One(was \in {"save", "check"}) + One(~lock)
    <3>1. CASE lock /\ ~lock'
      <4>1. was = "insert" \/ was \in {"save", "check"}
        BY <1>3, <3>1
      <4>2. QED
        BY <3>1, <4>1 DEF One
    <3>2. CASE ~lock \/ lock'
      <4>1. One(~lock') <= One(~lock)
        BY <3>2 DEF One
      <4>2. QED
        BY <2>3, <4>1
    <3>3. QED
      BY <3>1, <3>2
  <2>5. One(is = "insert") + One(is \in {"save", "check"}) + One(~lock') + Slack
          <= One(was = "insert") + One(was \in {"save", "check"}) + One(~lock) + Slack'
    BY <1>1, <1>3, <2>2, <2>3, <2>4
  <2>6. One(is = "insert") + Slack <= One(was = "insert") + Slack'
    BY <1>1, <1>3, <2>2, <2>3
  <2>7. QED
    BY <1>0, <1>1, <1>3, <2>1, <2>5, <2>6, RowsKept
(* Who goes on to a place that does not count.                             *)
<1>4. ASSUME NEW r \in Requests, req'[r].at \notin {"save", "check", "insert"},
             \A q \in Requests \ {r} : req'[q] = req[q],
             rows' = rows, lock' = lock, faults' = faults
      PROVE  RowsInv'
  BY <1>0, <1>1, <1>2, <1>4, RowsKept DEF One
<1>5. ASSUME NEW r \in Requests, Submit(r) PROVE RowsInv'
  BY <1>0, <1>4, <1>5, SubmitType DEF Submit
<1>6. ASSUME NEW r \in Requests, Look(r) PROVE RowsInv'
  <2>1. "lock" \in Places
    BY DEF Places
  <2>2. req'[r].at \notin {"save", "check", "insert"} /\ \A q \in Requests \ {r} : req'[q] = req[q]
    BY <1>0, <1>6, <2>1, GotoType, FinishType DEF Look
  <2>3. QED
    BY <1>4, <1>6, <2>2 DEF Look
<1>7. ASSUME NEW r \in Requests, Take(r) PROVE RowsInv'
  <2>1. CASE lock
    BY <1>1, <1>2, <1>3, <1>7, <2>1 DEF Take
  <2>2. CASE ~lock
    <3>1. "save" \in Places /\ "check" \in Places
      BY DEF Places
    <3>2. req'[r].at \in {"save", "check"} /\ \A q \in Requests \ {r} : req'[q] = req[q]
      BY <1>0, <1>7, <2>2, <3>1, GotoType DEF Take
    <3>3. req[r].at = "lock" /\ lock' = TRUE /\ rows' = rows /\ faults' = faults
      BY <1>7 DEF Take, At
    <3>4. QED
      BY <1>0, <1>1, <1>2, <2>2, <3>2, <3>3, RowsKept DEF One
  <2>3. QED
    BY <2>1, <2>2
<1>8. ASSUME NEW r \in Requests, SaveEmployer(r) PROVE RowsInv'
  <2>1. "check" \in Places
    BY DEF Places
  <2>2. req'[r].at = "check" /\ \A q \in Requests \ {r} : req'[q] = req[q]
    BY <1>0, <1>8, <2>1, GotoType DEF SaveEmployer
  <2>3. req[r].at = "save" /\ lock' = lock /\ rows' = rows /\ faults' = faults
    BY <1>8 DEF SaveEmployer, At
  <2>4. QED
    BY <1>0, <1>1, <1>2, <2>2, <2>3, RowsKept DEF One
<1>9. ASSUME NEW r \in Requests, SaveFails(r) PROVE RowsInv'
  <2>1. rows' = rows /\ lock' \in BOOLEAN /\ Finish(r) /\ req[r].at = "save" /\ Slack' = Slack
    BY <1>2, <1>9 DEF SaveFails, At
  <2>2. QED
    BY <1>1, <1>3, <2>1
<1>10. ASSUME NEW r \in Requests, FindEmployer(r) PROVE RowsInv'
  <2>1. "insert" \in Places /\ "relink" \in Places
    BY DEF Places
  <2>2. req'[r].at = (IF rows = {} THEN "insert" ELSE "relink")
        /\ \A q \in Requests \ {r} : req'[q] = req[q]
    BY <1>0, <1>10, <2>1, GotoType DEF FindEmployer
  <2>3. req[r].at = "check" /\ lock' = lock /\ rows' = rows /\ faults' = faults
    BY <1>10 DEF FindEmployer, At
  <2>4. QED
    BY <1>0, <1>1, <1>2, <2>2, <2>3, RowsKept DEF One
<1>11. ASSUME NEW r \in Requests, FindFails(r) PROVE RowsInv'
  BY <1>0, <1>1, <1>2, <1>3, <1>11 DEF FindFails
<1>12. ASSUME NEW r \in Requests, Relink(r) PROVE RowsInv'
  BY <1>0, <1>1, <1>2, <1>3, <1>12 DEF Relink
<1>13. ASSUME NEW r \in Requests, StageSeeker(r) PROVE RowsInv'
  <2>1. "lock" \in Places
    BY DEF Places
  <2>2. QED
    BY <1>0, <1>4, <1>13, <2>1, GotoType DEF StageSeeker
<1>14. ASSUME NEW r \in Requests, StageFails(r) PROVE RowsInv'
  <2>1. "lock" \in Places
    BY DEF Places
  <2>2. req'[r].at = "lock" /\ \A q \in Requests \ {r} : req'[q] = req[q]
    BY <1>0, <1>14, <2>1, GotoType DEF StageFails
  <2>3. rows' = rows /\ lock' = lock /\ Slack' = Slack
    BY <1>2, <1>14 DEF StageFails
  <2>4. req[r].at = "stage"
    BY <1>14 DEF StageFails, At
  <2>5. QED
    BY <1>0, <1>1, <1>2, <2>2, <2>3, <2>4, RowsKept DEF One
<1>15. ASSUME NEW r \in Requests, FindSeeker(r) PROVE RowsInv'
  <2>1. CASE rows # {}
    BY <1>0, <1>1, <1>2, <1>3, <1>15, <2>1 DEF FindSeeker
  <2>2. CASE rows = {}
    <3>1. "insert" \in Places
      BY DEF Places
    <3>2. req'[r].at = "insert" /\ \A q \in Requests \ {r} : req'[q] = req[q]
      BY <1>0, <1>15, <2>2, <3>1, GotoType DEF FindSeeker
    <3>3. req[r].at = "check" /\ lock' = lock /\ rows' = rows /\ faults' = faults
      BY <1>15 DEF FindSeeker, At
    <3>4. QED
      BY <1>0, <1>1, <1>2, <2>2, <3>2, <3>3, RowsKept DEF One
  <2>3. QED
    BY <2>1, <2>2
<1>16. ASSUME NEW r \in Requests, FindSeekerFails(r) PROVE RowsInv'
  <2>1. "insert" \in Places
    BY DEF Places
  <2>2. req'[r].at = "insert" /\ \A q \in Requests \ {r} : req'[q] = req[q]
    BY <1>0, <1>16, <2>1, GotoType DEF FindSeekerFails
  <2>3. req[r].at = "check" /\ lock' = lock /\ rows' = rows /\ Slack' = Slack + 1
    BY <1>2, <1>16 DEF FindSeekerFails, At
  <2>4. QED
    BY <1>0, <1>1, <2>2, <2>3, RowsKept DEF One
<1>17. ASSUME NEW r \in Requests, Insert(r) PROVE RowsInv'
  <2>1. req[r].at = "insert" /\ lock' = lock /\ rows' = rows \cup {req[r].id} /\ Slack' = Slack
    BY <1>2, <1>17 DEF Insert, At
  <2>2. req'[r].at = "idle" /\ \A q \in Requests \ {r} : req'[q] = req[q]
    BY <1>0, <1>17, FinishType DEF Insert
  <2>3. IsFiniteSet(In({"insert"})) /\ IsFiniteSet(In({"save", "check"}))
    BY DEF RowsInv, Inserting, Holding
  <2>4. /\ IsFiniteSet(Inserting') /\ IsFiniteSet(Holding')
        /\ Cardinality(Inserting) \in Nat /\ Cardinality(Holding) \in Nat
        /\ Cardinality(Inserting') \in Nat /\ Cardinality(Inserting') = Cardinality(Inserting) - 1
    <3>1. IsFiniteSet(Holding') /\ Cardinality(Holding) \in Nat
      BY <2>2, <2>3, InCount DEF Holding
    <3>2. IsFiniteSet(Inserting') /\ Cardinality(Inserting) \in Nat /\ Cardinality(Inserting') \in Nat
          /\ Cardinality(Inserting') =
                Cardinality(Inserting) - One(req[r].at \in {"insert"}) + One(req'[r].at \in {"insert"})
      BY <2>2, <2>3, InCount DEF Inserting
    <3>3. One(req[r].at \in {"insert"}) = 1 /\ One(req'[r].at \in {"insert"}) = 0
      BY <2>1, <2>2 DEF One
    <3>4. QED
      BY <3>1, <3>2, <3>3
  <2>5. req[r].id \in Ids /\ rows' # {}
    BY <1>0, <2>1
  <2>6. Cardinality(rows') \in Nat /\ Cardinality(rows') <= Cardinality(rows) + 1
        /\ Cardinality(rows) \in Nat
    BY <1>0, <2>1, <2>5, RowsCount
  <2>7. Cardinality(rows) + Cardinality(Inserting) <= Slack
    <3>1. CASE rows = {}
      <4>1. Cardinality(rows) = 0
        BY <1>0, <3>1, RowsCount
      <4>2. Cardinality(Inserting) + Cardinality(Holding) + One(~lock) <= Slack
        BY <3>1 DEF RowsInv, One
      <4>3. One(~lock) \in Nat
        BY DEF One
      <4>4. QED
        BY <1>1, <2>4, <4>1, <4>2, <4>3
    <3>2. CASE rows # {}
      BY <3>2 DEF RowsInv
    <3>3. QED
      BY <3>1, <3>2
  <2>8. Cardinality(rows') + Cardinality(Inserting') <= Slack'
    BY <1>1, <2>1, <2>4, <2>6, <2>7
  <2>9. QED
    BY <2>4, <2>5, <2>8 DEF RowsInv
<1>18. ASSUME NEW r \in Requests, InsertFails(r) PROVE RowsInv'
  <2>1. rows' = rows /\ lock' \in BOOLEAN /\ Finish(r) /\ req[r].at = "insert" /\ Slack' = Slack
    BY <1>0, <1>2, <1>18 DEF InsertFails, At
  <2>2. QED
    BY <1>1, <1>3, <2>1
<1>19. ASSUME NEW r \in Requests, Crash(r) PROVE RowsInv'
  BY <1>0, <1>1, <1>2, <1>3, <1>19 DEF Crash
<1>20. CASE AddJob \/ LoseRecord \/ UNCHANGED vars
  <2>1. req' = req /\ rows' = rows /\ lock' = lock /\ Slack' = Slack
    BY <1>2, <1>20 DEF AddJob, LoseRecord, vars
  <2>2. Inserting' = Inserting /\ Holding' = Holding
    BY <2>1 DEF Inserting, Holding, In
  <2>3. QED
    BY <2>1, <2>2 DEF RowsInv
<1>21. CASE ExpireLock
  <2>1. req' = req /\ rows' = rows /\ lock /\ lock' = FALSE
    BY <1>21 DEF ExpireLock
  <2>2. Inserting' = Inserting /\ Holding' = Holding
    BY <2>1 DEF Inserting, Holding, In
  <2>3. CASE Quiet
    <3>1. Inserting = {} /\ Holding = {}
      BY <2>3 DEF Quiet, At, Inserting, Holding, In
    <3>2. Slack' = Slack /\ Slack >= 1
      <4>1. Slack' = Slack
        BY <1>2, <1>21, <2>3 DEF ExpireLock
      <4>2. faults["slow"] \in Nat /\ faults["check"] \in Nat
        BY <1>0, RowsCount
      <4>3. QED
        BY <4>1, <4>2 DEF Slack
    <3>3. IsFiniteSet({}) /\ Cardinality({}) = 0
      BY FS_EmptySet
    <3>4. QED
      BY <1>1, <2>1, <2>2, <3>1, <3>2, <3>3 DEF RowsInv
  <2>4. CASE ~Quiet
    <3>1. Slack' = Slack + 1
      BY <1>2, <1>21, <2>4 DEF ExpireLock
    <3>2. Cardinality(Inserting) \in Nat /\ Cardinality(Holding) \in Nat /\ Cardinality(rows) \in Nat
      BY <1>0, RowsCount, FS_CardinalityType DEF RowsInv
    <3>3. QED
      BY <1>1, <2>1, <2>2, <3>1, <3>2 DEF RowsInv
  <2>5. QED
    BY <2>3, <2>4
<1>22. QED
  BY <1>5, <1>6, <1>7, <1>8, <1>9, <1>10, <1>11, <1>12, <1>13, <1>14, <1>15, <1>16, <1>17, <1>18,
     <1>19, <1>20, <1>21 DEF Next, Step, InsertEmployer, InsertSeeker

(* However many submits are in flight, one row is made for one phone, and  *)
(* one more for each lock that ended under a slow submit and for each look *)
(* that failed (onboarding_submit, register_submit).                       *)
THEOREM RowsAreBounded == Spec => []OneRow
<1>1. TypeInv /\ RowsInv => OneRow
  <2> SUFFICES ASSUME TypeInv, RowsInv PROVE OneRow
    OBVIOUS
  <2>1. TypeOK
    BY DEF TypeInv
  <2>2. Cardinality(rows) \in Nat /\ Cardinality({}) = 0 /\ faults["slow"] \in Nat /\ faults["check"] \in Nat
    BY <2>1, RowsCount
  <2>3. Cardinality(Inserting) \in Nat
    BY FS_CardinalityType DEF RowsInv
  <2>4. QED
    BY <2>2, <2>3 DEF RowsInv, OneRow, Slack
<1>2. QED
  BY <1>1, TypeInvariant, TypeStep, RowsInit, RowsStep, PTL DEF Spec

-----------------------------------------------------------------------------
(* Which save can still lose a job                                         *)

(* Only an employer posts, into a record that is there.                    *)
PostedInv ==
  /\ form = "seeker" => posted = {}
  /\ record = Absent => posted = {}

(* While no lock was too short and no record was linked again, the lock    *)
(* that its holder never releases after a save keeps every other submit    *)
(* that saw no record from saving one of its own.                          *)
GuardInv ==
  (form = "employer" /\ ~relinked /\ faults["slow"] = 0) =>
    /\ \A q, s \in Requests : req[q].at = "save" /\ req[s].at = "save" => q = s
    /\ \A q \in Requests : req[q].at = "save" => lock /\ record = Absent
    /\ record # Absent => /\ \A q \in Requests : req[q].at = "lock" => lock
                          /\ posted \subseteq record.jobs

KeptInv == PostedInv /\ GuardInv

(* A step of one submit that leaves the record and the jobs as they are,   *)
(* and neither saves, nor looks, nor takes the lock.                       *)
LEMMA KeptKept ==
  ASSUME KeptInv, NEW r \in Requests, \A q \in Requests \ {r} : req'[q] = req[q],
         req'[r].at \notin {"save", "lock"},
         UNCHANGED <<form, record, posted>>, relinked' = relinked,
         faults'["slow"] = faults["slow"],
         lock' = lock \/ req[r].at = "save" \/ form = "seeker"
  PROVE  KeptInv'
<1>1. PostedInv'
  BY DEF KeptInv, PostedInv
<1>2. GuardInv'
  <2> SUFFICES ASSUME form = "employer", ~relinked, faults["slow"] = 0
               PROVE  /\ \A q, s \in Requests : req'[q].at = "save" /\ req'[s].at = "save" => q = s
                      /\ \A q \in Requests : req'[q].at = "save" => lock' /\ record = Absent
                      /\ record # Absent => /\ \A q \in Requests : req'[q].at = "lock" => lock'
                                            /\ posted \subseteq record.jobs
    BY DEF GuardInv
  <2>1. /\ \A q, s \in Requests : req[q].at = "save" /\ req[s].at = "save" => q = s
        /\ \A q \in Requests : req[q].at = "save" => lock /\ record = Absent
        /\ record # Absent => /\ \A q \in Requests : req[q].at = "lock" => lock
                              /\ posted \subseteq record.jobs
    BY DEF KeptInv, GuardInv
  <2>2. \A q \in Requests : req'[q].at \in {"save", "lock"} => q # r /\ req'[q] = req[q]
    OBVIOUS
  <2>3. CASE lock' = lock
    BY <2>1, <2>2, <2>3
  <2>4. CASE req[r].at = "save"
    BY <2>1, <2>2, <2>4
  <2>5. QED
    BY <2>3, <2>4
<1>3. QED
  BY <1>1, <1>2 DEF KeptInv

LEMMA KeptInit == Init => KeptInv
<1> SUFFICES ASSUME Init PROVE KeptInv
  OBVIOUS
<1>1. \A r \in Requests : req[r].at = "idle"
  BY DEF Init, Idle
<1>2. posted = {} /\ record = Absent
  BY DEF Init
<1>3. QED
  BY <1>1, <1>2 DEF KeptInv, PostedInv, GuardInv

LEMMA KeptStep ==
  ASSUME TypeInv, TypeInv', KeptInv, [Next]_vars
  PROVE  KeptInv'
<1>0. /\ TypeOK /\ form \in {"employer", "seeker"} /\ record \in Record /\ lock \in BOOLEAN
      /\ rows \subseteq Ids /\ FormOK /\ req \in [Requests -> [at: Places, id: Ids]]
  BY DEF TypeInv, TypeOK
<1>1. /\ faults' = faults => faults'["slow"] = faults["slow"]
      /\ \A k \in FaultKinds \ {"slow"} : Fault(k) => faults'["slow"] = faults["slow"]
  <2>1. ASSUME NEW k \in FaultKinds \ {"slow"}, Fault(k) PROVE faults'["slow"] = faults["slow"]
    BY <1>0, <2>1, FaultType
  <2>2. QED
    BY <2>1
<1>2. Fault("slow") => faults'["slow"] # 0
  <2>1. faults["slow"] \in Nat
    BY BoundsAssumption DEF TypeInv, TypeOK
  <2>2. QED
    BY <1>0, <2>1, FaultType
<1>3. /\ {"exists", "lock", "save", "check", "insert", "relink", "stage"} \subseteq Places
      /\ \A id \in Ids : New(id) \in Record /\ New(id) # Absent
  BY RecordType DEF Places
(* Who leaves for good.                                                    *)
<1>4. ASSUME NEW r \in Requests, Finish(r), UNCHANGED <<form, record, posted>>,
             relinked' = relinked, faults'["slow"] = faults["slow"],
             lock' = lock \/ req[r].at = "save" \/ form = "seeker"
      PROVE  KeptInv'
  BY <1>0, <1>4, FinishType, KeptKept
(* Who goes on.                                                            *)
<1>5. ASSUME NEW r \in Requests, NEW place \in {"check", "insert", "relink"}, Goto(r, place),
             UNCHANGED <<form, record, posted>>, relinked' = relinked, lock' = lock,
             faults'["slow"] = faults["slow"]
      PROVE  KeptInv'
  BY <1>0, <1>3, <1>5, GotoType, KeptKept
<1>6. ASSUME NEW r \in Requests, Submit(r) PROVE KeptInv'
  BY <1>0, <1>1, <1>6, SubmitType, KeptKept DEF Submit
<1>7. ASSUME NEW r \in Requests, Look(r) PROVE KeptInv'
  <2>1. CASE record # Absent
    BY <1>1, <1>4, <1>7, <2>1 DEF Look
  <2>2. CASE record = Absent
    <3>1. req'[r].at = "lock" /\ \A q \in Requests \ {r} : req'[q] = req[q]
      BY <1>0, <1>3, <1>7, <2>2, GotoType DEF Look
    <3>2. UNCHANGED <<form, record, lock, posted, relinked>> /\ faults' = faults
      BY <1>7 DEF Look
    <3>3. \A q \in Requests : req'[q].at = "save" => req[q].at = "save"
      BY <3>1
    <3>4. QED
      BY <2>2, <3>2, <3>3 DEF KeptInv, PostedInv, GuardInv
  <2>3. QED
    BY <2>1, <2>2
<1>8. ASSUME NEW r \in Requests, Take(r) PROVE KeptInv'
  <2>1. CASE lock
    BY <1>0, <1>1, <1>4, <1>8, <2>1 DEF Take
  <2>2. CASE ~lock
    <3>1. req[r].at = "lock" /\ lock' = TRUE /\ UNCHANGED <<form, record, posted, relinked>>
          /\ faults' = faults
      BY <1>8 DEF Take, At
    <3>2. \A q \in Requests \ {r} : req'[q] = req[q]
      BY <1>0, <1>3, <1>8, <2>2, GotoType DEF Take
    <3>3. PostedInv'
      BY <3>1 DEF KeptInv, PostedInv
    <3>4. GuardInv'
      <4> SUFFICES ASSUME form = "employer", ~relinked, faults["slow"] = 0
                   PROVE  /\ \A q, s \in Requests : req'[q].at = "save" /\ req'[s].at = "save" => q = s
                          /\ record = Absent
        BY <3>1 DEF GuardInv
      <4>1. /\ \A q \in Requests : req[q].at # "save"
            /\ record = Absent
        BY <2>2, <3>1 DEF KeptInv, GuardInv
      <4>2. QED
        BY <3>2, <4>1
    <3>5. QED
      BY <3>3, <3>4 DEF KeptInv
  <2>3. QED
    BY <2>1, <2>2
<1>9. ASSUME NEW r \in Requests, SaveEmployer(r) PROVE KeptInv'
  <2>1. req[r].at = "save" /\ UNCHANGED <<form, lock, posted, relinked>> /\ faults' = faults
    BY <1>9 DEF SaveEmployer, At
  <2>2. req'[r].at = "check" /\ \A q \in Requests \ {r} : req'[q] = req[q]
    BY <1>0, <1>3, <1>9, GotoType DEF SaveEmployer
  <2>3. form = "employer"
    BY <1>0, <2>1 DEF FormOK
  <2>4. record' # Absent
    BY <1>0, <1>3, <1>9 DEF SaveEmployer
  <2>5. PostedInv'
    BY <2>1, <2>3, <2>4 DEF KeptInv, PostedInv
  <2>6. GuardInv'
    <3> SUFFICES ASSUME ~relinked, faults["slow"] = 0
                 PROVE  /\ \A q \in Requests : req'[q].at # "save"
                        /\ \A q \in Requests : req'[q].at = "lock" => lock
                        /\ posted \subseteq record'.jobs
      BY <2>1 DEF GuardInv
    <3>1. /\ \A q \in Requests : req[q].at = "save" => q = r
          /\ lock /\ record = Absent
      BY <2>1, <2>3 DEF KeptInv, GuardInv
    <3>2. posted = {}
      BY <3>1 DEF KeptInv, PostedInv
    <3>3. QED
      BY <2>2, <3>1, <3>2
  <2>7. QED
    BY <2>5, <2>6 DEF KeptInv
<1>10. ASSUME NEW r \in Requests, SaveFails(r) PROVE KeptInv'
  BY <1>1, <1>4, <1>10 DEF SaveFails, At
<1>11. ASSUME NEW r \in Requests, FindEmployer(r) PROVE KeptInv'
  BY <1>1, <1>5, <1>11 DEF FindEmployer
<1>12. ASSUME NEW r \in Requests, FindFails(r) PROVE KeptInv'
  BY <1>1, <1>4, <1>12 DEF FindFails
<1>13. ASSUME NEW r \in Requests, Relink(r) PROVE KeptInv'
  <2>1. req[r].at = "relink" /\ UNCHANGED <<form, posted>> /\ relinked'
    BY <1>13 DEF Relink, At
  <2>2. record' # Absent
    BY <1>0, <1>3, <1>13 DEF Relink
  <2>3. QED
    BY <2>1, <2>2 DEF KeptInv, PostedInv, GuardInv
<1>14. ASSUME NEW r \in Requests, StageSeeker(r) PROVE KeptInv'
  <2>1. form = "seeker"
    BY <1>0, <1>14 DEF StageSeeker, At, FormOK
  <2>2. QED
    BY <1>14, <2>1 DEF StageSeeker, KeptInv, PostedInv, GuardInv
<1>15. ASSUME NEW r \in Requests, StageFails(r) PROVE KeptInv'
  <2>1. form = "seeker"
    BY <1>0, <1>15 DEF StageFails, At, FormOK
  <2>2. QED
    BY <1>15, <2>1 DEF StageFails, KeptInv, PostedInv, GuardInv
<1>16. ASSUME NEW r \in Requests, FindSeeker(r) \/ FindSeekerFails(r) PROVE KeptInv'
  BY <1>16 DEF FindSeeker, FindSeekerFails, KeptInv, PostedInv, GuardInv
<1>17. ASSUME NEW r \in Requests, Insert(r) PROVE KeptInv'
  BY <1>1, <1>4, <1>17 DEF Insert
<1>18. ASSUME NEW r \in Requests, InsertFails(r) PROVE KeptInv'
  <2>1. lock' = lock \/ form = "seeker"
    BY <1>0, <1>18 DEF InsertFails
  <2>2. QED
    BY <1>1, <1>4, <1>18, <2>1 DEF InsertFails
<1>19. ASSUME NEW r \in Requests, Crash(r) PROVE KeptInv'
  BY <1>1, <1>4, <1>19 DEF Crash
<1>20. CASE AddJob
  <2>1. PICK j \in Jobs : posted' = posted \cup {j} /\ record' = [record EXCEPT !.jobs = @ \cup {j}]
    BY <1>20 DEF AddJob
  <2>2. form = "employer" /\ record # Absent /\ UNCHANGED <<form, lock, req, faults, relinked>>
    BY <1>20 DEF AddJob
  <2>3. record \in [id: Ids, jobs: SUBSET Jobs]
    BY <1>0, <2>2, RecordType
  <2>4. record' \in [id: Ids, jobs: SUBSET Jobs] /\ record'.jobs = record.jobs \cup {j}
    BY <2>1, <2>3
  <2>5. record' # Absent
    BY <2>4, RecordType
  <2>6. QED
    BY <2>1, <2>2, <2>4, <2>5 DEF KeptInv, PostedInv, GuardInv
<1>21. CASE LoseRecord
  <2>1. /\ UNCHANGED <<form, lock, req, relinked>> /\ faults'["slow"] = faults["slow"]
        /\ record # Absent /\ record' = Absent /\ posted' = {}
    BY <1>1, <1>21 DEF LoseRecord
  <2>2. QED
    BY <2>1 DEF KeptInv, PostedInv, GuardInv
<1>22. CASE ExpireLock
  <2>1. UNCHANGED <<form, record, req, posted, relinked>>
    BY <1>22 DEF ExpireLock
  <2>2. CASE Quiet
    <3>1. \A q \in Requests : req[q].at = "idle"
      BY <2>2 DEF Quiet, At
    <3>2. faults' = faults
      BY <1>22, <2>2 DEF ExpireLock
    <3>3. QED
      BY <2>1, <3>1, <3>2 DEF KeptInv, PostedInv, GuardInv
  <2>3. CASE ~Quiet
    <3>1. faults'["slow"] # 0
      BY <1>2, <1>22, <2>3 DEF ExpireLock
    <3>2. QED
      BY <2>1, <3>1 DEF KeptInv, PostedInv, GuardInv
  <2>4. QED
    BY <2>2, <2>3
<1>23. CASE UNCHANGED vars
  BY <1>23 DEF vars, KeptInv, PostedInv, GuardInv
<1>24. QED
  BY <1>6, <1>7, <1>8, <1>9, <1>10, <1>11, <1>12, <1>13, <1>14, <1>15, <1>16, <1>17, <1>18,
     <1>19, <1>20, <1>21, <1>22, <1>23 DEF Next, Step, InsertEmployer, InsertSeeker

(* No submit loses a job that was posted: a form submitted again finds the *)
(* record, or finds the lock of the submit that is about to write it       *)
(* (register_submit: "never overwrite it"). The exceptions are named: the  *)
(* record saved a second time, and a lock that ended under a slow submit.  *)
THEOREM JobsAreKept == Spec => []JobsKept
<1>1. TypeInv /\ KeptInv => JobsKept
  <2> SUFFICES ASSUME TypeInv, KeptInv PROVE JobsKept
    OBVIOUS
  <2>1. form \in {"employer", "seeker"}
    BY DEF TypeInv, TypeOK
  <2>2. QED
    BY <2>1 DEF KeptInv, PostedInv, GuardInv, JobsKept
<1>2. QED
  BY <1>1, TypeInvariant, TypeStep, KeptInit, KeptStep, PTL DEF Spec

-----------------------------------------------------------------------------
(* The turns of a sender through the graph: AgentTurn, for every budget of *)
(* loops and steps, and any number of turns and faults.                    *)

Early    == {"load_context", "identify", "lookup"}
Replying == Repliers \cup {"summarize", "planner", "execute", "reflect"}
Leaving  == {"humanize", "persist", "deliver"}

(* The planner has run less often than it may.                             *)
BudgetInv ==
  /\ node \in Early \cup {"menu", "browse", "summarize"} => loops = 0
  /\ node = "planner" => loops < MaxLoops

(* What the lookup found stays true of the sender.                         *)
KnownInv ==
  /\ turn.wasRegistered => registered
  /\ node \in AgentLane => registered /\ turn.known
  /\ node \in Replying \cup Leaving /\ turn.wasRegistered => turn.known \/ turn.blind
  /\ node = "onboarding" \/ (node \in Leaving /\ turn.draft = "onboarding") => ~turn.known

Unpicked == turn.msg = "switch" \/ turn.lane = "none"

(* A lane that was stored is the turn's.                                   *)
LaneInv ==
  /\ node = "load_context" => turn.hadLane = lane
  /\ node \in Nodes \ {"idle", "load_context"} /\ turn.hadLane # "none" => turn.lane # "none"
  /\ node = "role_select" \/ (node \in Leaving /\ turn.draft = "role_select") => Unpicked

(* Before a node answers, only identify has staged something, and only for *)
(* a stranger; afterwards nobody but the node that answered has, except    *)
(* that the form of identify stays with the onboarding reply and with a    *)
(* farewell.                                                               *)
StagedInv ==
  /\ node \in Early => turn.draft = "none" /\ turn.interactive = "none" /\ turn.cards = "none"
  /\ node \in Replying =>
       /\ turn.draft = "none" /\ turn.cards = "none"
       /\ turn.interactive = "none" \/ (turn.interactive = "lookup" /\ ~turn.known)
  /\ node \in Leaving =>
       /\ turn.cards \in {"none", turn.draft}
       /\ \/ turn.interactive \in {"none", turn.draft}
          \/ turn.interactive = "lookup" /\ ~turn.known /\ (turn.draft = "onboarding" \/ turn.msg = "closer")

TurnInv ==
  TurnTypeOK /\ BudgetInv /\ KnownInv /\ LaneInv /\ StagedInv /\ NeverReonboarded /\ LaneAskedOnce
  /\ StaleOnlyOnFarewell

USE DEF Messages, Lanes, TurnFaultKinds, Repliers, Nodes, AgentLane, Sources

LEMMA TurnFaultType ==
  ASSUME TurnTypeOK, NEW k \in TurnFaultKinds, TurnFault(k)
  PROVE  turnFaults' \in [TurnFaultKinds -> Nat]
  BY DEF TurnTypeOK, TurnFault

(* Init and the steps that answer, pass the turn on or end it, by what they *)
(* change.                                                                 *)
LEMMA TurnInitType == TurnInit => TurnInv
<1> SUFFICES ASSUME TurnInit PROVE TurnInv
  OBVIOUS
<1>1. plan = <<>> /\ plan \in Seq({"pending", "done", "failed"}) /\ Len(plan) = 0 /\ turn \in Turn
  BY DEF TurnInit, NewTurn, Turn
<1>2. loops \in 0..MaxLoops /\ turns \in 0..MaxTurns /\ Len(plan) <= MaxSteps
  BY <1>1, BudgetAssumption DEF TurnInit
<1>2a. turnFaults \in [TurnFaultKinds -> Nat] /\ sent = Nothing
  BY DEF TurnInit
<1>3. TurnTypeOK
  BY <1>1, <1>2, <1>2a DEF TurnTypeOK, TurnInit
<1>4. QED
  BY <1>3 DEF TurnInv, TurnInit, NewTurn, BudgetInv, KnownInv, LaneInv, StagedInv, Early, Replying, Leaving,
              NeverReonboarded, LaneAskedOnce, StaleOnlyOnFarewell, Nothing

LEMMA TurnBegins ==
  ASSUME TurnInv, NEW m \in Messages, Begin(m)
  PROVE  TurnInv'
<1>1. turn' \in Turn /\ plan' \in Seq({"pending", "done", "failed"}) /\ Len(plan') = 0
  BY DEF TurnInv, TurnTypeOK, Begin, NewTurn, Turn
<1>2. loops' \in 0..MaxLoops /\ turns' \in 0..MaxTurns /\ Len(plan') <= MaxSteps
  BY <1>1, BudgetAssumption DEF TurnInv, TurnTypeOK, Begin
<1>3. TurnTypeOK'
  BY <1>1, <1>2 DEF TurnInv, TurnTypeOK, Begin
<1>4. BudgetInv' /\ KnownInv' /\ LaneInv' /\ StagedInv'
  BY DEF TurnInv, Begin, NewTurn, BudgetInv, KnownInv, LaneInv, StagedInv, Early, Replying, Leaving, Unpicked
<1>5. QED
  BY <1>3, <1>4 DEF TurnInv, Begin, NeverReonboarded, LaneAskedOnce, StaleOnlyOnFarewell,
                    Answers

(* A node that answers.                                                    *)
LEMMA TurnReplies ==
  ASSUME TurnInv, NEW n \in Repliers, NEW i \in Sources, NEW c \in Sources,
         Reply(n, i, c), c \in {"none", n},
         i \in {"none", n} \/ (i = "lookup" /\ ~turn.known /\ (n = "onboarding" \/ turn.msg = "closer"))
  PROVE  TurnInv'
<1>1. turn' \in Turn
  <2>1. turn \in Turn /\ turn' = [turn EXCEPT !.draft = n, !.interactive = i, !.cards = c]
        /\ n \in Sources
    BY DEF TurnInv, TurnTypeOK, Reply
  <2> HIDE DEF Sources, Repliers, Messages, Lanes
  <2>2. [turn EXCEPT !.draft = n, !.interactive = i, !.cards = c] \in Turn
    BY <2>1 DEF Turn
  <2>3. QED
    BY <2>1, <2>2
<1>2. TurnTypeOK'
  BY <1>1 DEF TurnInv, TurnTypeOK, Reply, reasoning
<1>3. turn \in Turn
  BY DEF TurnInv, TurnTypeOK
<1>4. BudgetInv' /\ KnownInv' /\ LaneInv' /\ StagedInv'
  BY <1>3 DEF TurnInv, Reply, BudgetInv, KnownInv, LaneInv, StagedInv, Early, Replying, Leaving, Unpicked, Turn
<1>5. QED
  BY <1>2, <1>4 DEF TurnInv, Reply, NeverReonboarded, LaneAskedOnce, StaleOnlyOnFarewell,
                    Answers

(* A node that changes nothing but where the turn is.                      *)
LEMMA TurnPasses ==
  ASSUME TurnInv, NEW from, NEW to, Pass(from, to),
         <<from, to>> \in {<<"menu", "browse">>, <<"browse", "summarize">>, <<"summarize", "planner">>,
                           <<"humanize", "persist">>, <<"persist", "deliver">>}
  PROVE  TurnInv'
<1>1. TurnTypeOK'
  BY DEF TurnInv, TurnTypeOK, Pass, reasoning
<1>2. BudgetInv' /\ KnownInv' /\ LaneInv' /\ StagedInv'
  BY BudgetAssumption DEF TurnInv, Pass, BudgetInv, KnownInv, LaneInv, StagedInv, Early, Replying, Leaving, Unpicked,
         reasoning
<1>3. QED
  BY <1>1, <1>2 DEF TurnInv, Pass, NeverReonboarded, LaneAskedOnce, StaleOnlyOnFarewell,
                    Answers

LEMMA TurnLoads ==
  ASSUME TurnInv, LoadContext
  PROVE  TurnInv'
<1>1. turn' \in Turn /\ turn \in Turn /\ lane \in Lanes
  <2>1. turn \in Turn /\ lane \in Lanes /\ turn' = [turn EXCEPT !.lane = lane]
    BY DEF TurnInv, TurnTypeOK, LoadContext
  <2> HIDE DEF Sources, Repliers, Messages, Lanes
  <2>2. [turn EXCEPT !.lane = lane] \in Turn
    BY <2>1 DEF Turn
  <2>3. QED
    BY <2>1, <2>2
<1>2. TurnTypeOK'
  BY <1>1 DEF TurnInv, TurnTypeOK, LoadContext, reasoning
<1>3. BudgetInv' /\ KnownInv' /\ LaneInv' /\ StagedInv'
  BY <1>1 DEF TurnInv, LoadContext, BudgetInv, KnownInv, LaneInv, StagedInv, Early, Replying, Leaving, Unpicked,
         reasoning, Turn
<1>4. QED
  BY <1>2, <1>3 DEF TurnInv, LoadContext, NeverReonboarded, LaneAskedOnce,
                    StaleOnlyOnFarewell, Answers

LEMMA TurnRemembers ==
  ASSUME TurnInv, NEW stored \in BOOLEAN, Remember(stored),
         turnFaults' \in [TurnFaultKinds -> Nat]
  PROVE  TurnInv'
<1>1. turn' \in Turn /\ turn \in Turn /\ lane' \in Lanes
  <2> DEFINE l == IF Picked THEN turn.msg ELSE turn.lane
  <2>1. turn \in Turn /\ lane \in Lanes /\ turn' = [turn EXCEPT !.lane = l]
    BY DEF TurnInv, TurnTypeOK, Remember
  <2>2. l \in Lanes /\ (Picked => turn.msg \in Lanes)
    BY <2>1 DEF Picked, Turn
  <2> HIDE DEF l, Sources, Repliers, Messages, Lanes
  <2>3. [turn EXCEPT !.lane = l] \in Turn
    BY <2>1, <2>2 DEF Turn
  <2>4. QED
    BY <2>1, <2>2, <2>3 DEF Remember
<1>2. TurnTypeOK'
  BY <1>1 DEF TurnInv, TurnTypeOK, Remember, reasoning
<1>3. BudgetInv' /\ KnownInv' /\ LaneInv' /\ StagedInv'
  BY <1>1 DEF TurnInv, Remember, BudgetInv, KnownInv, LaneInv, StagedInv, Early, Replying, Leaving, Unpicked,
         reasoning, Turn, Picked
<1>4. QED
  BY <1>2, <1>3 DEF TurnInv, Remember, NeverReonboarded, LaneAskedOnce,
                    StaleOnlyOnFarewell, Answers

(* Strangers are sent nowhere but to the onboarding, the choice of a lane, *)
(* the creator's forms and a farewell.                                     *)
LEMMA Destinations ==
  ASSUME NEW known \in BOOLEAN, turn \in Turn, NEW d, d = Destination(known)
  PROVE  /\ d \in {"greeting", "role_select", "creator", "onboarding", "menu"}
         /\ d = "menu" => known
         /\ d = "onboarding" => ~known
         /\ d = "role_select" => Unpicked
  BY DEF Destination, Turn, Picked, Unpicked

LEMMA TurnIdentifies ==
  ASSUME TurnInv, NEW found \in BOOLEAN, NEW blind \in BOOLEAN, Identified(found, blind),
         found => registered, ~found /\ registered => blind, turnFaults' \in [TurnFaultKinds -> Nat]
  PROVE  TurnInv'
<1>1. turn' \in Turn /\ turn \in Turn
  <2> DEFINE i == IF found \/ turn.lane = "creator" THEN "none" ELSE "lookup"
  <2>1. turn \in Turn /\ turn' = [turn EXCEPT !.known = found, !.blind = blind, !.interactive = i]
    BY DEF TurnInv, TurnTypeOK, Identified
  <2>2. i \in Sources
    OBVIOUS
  <2> HIDE DEF i, Sources, Repliers, Messages, Lanes
  <2>3. [turn EXCEPT !.known = found, !.blind = blind, !.interactive = i] \in Turn
    BY <2>1, <2>2 DEF Turn
  <2>4. QED
    BY <2>1, <2>3
<1> DEFINE d == Destination(found)
<1>2. /\ node = "lookup" /\ node' = d
      /\ d \in {"greeting", "role_select", "creator", "onboarding", "menu"}
      /\ d = "menu" => found
      /\ d = "onboarding" => ~found
      /\ d = "role_select" => Unpicked
  BY <1>1, Destinations DEF Identified
<1> HIDE DEF d
<1>3. TurnTypeOK'
  BY <1>1, <1>2 DEF TurnInv, TurnTypeOK, Identified, reasoning
<1>4. /\ turn'.known = found /\ turn'.blind = blind /\ turn'.interactive \in {"none", "lookup"}
      /\ turn'.interactive = "lookup" => ~found
      /\ turn'.draft = turn.draft /\ turn'.cards = turn.cards /\ turn'.msg = turn.msg /\ turn'.lane = turn.lane
      /\ turn'.hadLane = turn.hadLane /\ turn'.wasRegistered = turn.wasRegistered
  BY <1>1 DEF Identified, Turn
<1>5. UNCHANGED <<registered, lane, loops, sent>>
  BY DEF Identified, reasoning
<1>6. BudgetInv' /\ KnownInv' /\ LaneInv' /\ StagedInv'
  BY <1>2, <1>4, <1>5 DEF TurnInv, BudgetInv, KnownInv, LaneInv, StagedInv, Early, Replying, Leaving, Unpicked
<1>7. QED
  BY <1>3, <1>5, <1>6 DEF TurnInv, NeverReonboarded, LaneAskedOnce, StaleOnlyOnFarewell,
                          Answers

LEMMA TurnPlans ==
  ASSUME TurnInv, Planner
  PROVE  TurnInv'
<1>1. PICK n \in 0..MaxSteps : /\ plan' = [i \in 1..n |-> "pending"]
                               /\ node' = IF n = 0 THEN "responder" ELSE "execute"
  BY DEF Planner
<1>2. plan' \in Seq({"pending", "done", "failed"}) /\ Len(plan') = n /\ n <= MaxSteps
  <2>1. n \in Nat /\ n <= MaxSteps /\ \A i \in 1..n : "pending" \in {"pending", "done", "failed"}
    BY BudgetAssumption
  <2>2. QED
    BY <1>1, <2>1
<1>3. loops' \in 0..MaxLoops
  BY BudgetAssumption DEF TurnInv, TurnTypeOK, BudgetInv, Planner
<1>4. TurnTypeOK'
  BY <1>1, <1>2, <1>3 DEF TurnInv, TurnTypeOK, Planner
<1>5. BudgetInv' /\ KnownInv' /\ LaneInv' /\ StagedInv'
  BY <1>1 DEF TurnInv, Planner, BudgetInv, KnownInv, LaneInv, StagedInv, Early, Replying, Leaving, Unpicked
<1>6. QED
  BY <1>4, <1>5 DEF TurnInv, Planner, NeverReonboarded, LaneAskedOnce, StaleOnlyOnFarewell,
                    Answers

LEMMA TurnExecutes ==
  ASSUME TurnInv, Execute
  PROVE  TurnInv'
<1>1. plan' \in Seq({"pending", "done", "failed"}) /\ Len(plan') <= MaxSteps
  <2>1. plan \in Seq({"pending", "done", "failed"}) /\ DOMAIN plan = 1..Len(plan) /\ Len(plan) \in Nat
        /\ Len(plan) <= MaxSteps
    BY DEF TurnInv, TurnTypeOK
  <2>2. plan' \in [1..Len(plan) -> {"done", "failed"}]
    BY <2>1 DEF Execute
  <2>3. plan' \in Seq({"done", "failed"}) /\ Len(plan') = Len(plan)
    BY <2>1, <2>2
  <2>4. QED
    BY <2>1, <2>2, <2>3
<1>2. node = "execute" /\ node' \in {"responder", "reflect"}
  BY DEF Execute
<1>3. TurnTypeOK'
  BY <1>1, <1>2 DEF TurnInv, TurnTypeOK, Execute
<1>4. BudgetInv' /\ KnownInv' /\ LaneInv' /\ StagedInv'
  BY <1>2 DEF TurnInv, Execute, BudgetInv, KnownInv, LaneInv, StagedInv, Early, Replying, Leaving, Unpicked
<1>5. QED
  BY <1>3, <1>4 DEF TurnInv, Execute, NeverReonboarded, LaneAskedOnce, StaleOnlyOnFarewell,
                    Answers

LEMMA TurnReflects ==
  ASSUME TurnInv, Reflect
  PROVE  TurnInv'
<1>1. node = "reflect" /\ (node' = "responder" \/ (node' = "planner" /\ loops < MaxLoops))
  BY DEF Reflect, CanLoop
<1>2. TurnTypeOK'
  BY <1>1 DEF TurnInv, TurnTypeOK, Reflect, reasoning
<1>3. BudgetInv' /\ KnownInv' /\ LaneInv' /\ StagedInv'
  BY <1>1 DEF TurnInv, Reflect, reasoning, BudgetInv, KnownInv, LaneInv, StagedInv, Early, Replying,
              Leaving, Unpicked
<1>4. QED
  BY <1>2, <1>3 DEF TurnInv, Reflect, NeverReonboarded, LaneAskedOnce, StaleOnlyOnFarewell,
                    Answers

(* What is sent.                                                           *)
LEMMA TurnDelivers ==
  ASSUME TurnInv, Deliver
  PROVE  TurnInv'
<1>1. PICK p \in {Payload} \cup (IF turn.cards = "none" THEN {turn.draft} ELSE {}) :
        sent' = [turn |-> turn, payload |-> p]
  BY DEF Deliver
<1>2. turn \in Turn /\ node = "deliver" /\ node' = "idle" /\ UNCHANGED <<registered, turn, lane, loops>>
  BY DEF Deliver, TurnInv, TurnTypeOK, reasoning
<1>3. \/ p = turn.draft
      \/ p = "lookup" /\ (turn.draft = "onboarding" \/ (turn.msg = "closer" /\ ~turn.known))
  BY <1>1, <1>2 DEF Payload, TurnInv, StagedInv, Leaving
<1>4. p \in Sources
  BY <1>2, <1>3 DEF Turn
<1>5. sent' \in Sent /\ offered' \in BOOLEAN
  BY <1>1, <1>2, <1>4 DEF Sent, Deliver
<1>6. TurnTypeOK'
  BY <1>2, <1>5 DEF TurnInv, TurnTypeOK, Deliver, reasoning
<1>7. BudgetInv' /\ KnownInv' /\ LaneInv' /\ StagedInv'
  BY <1>2 DEF TurnInv, BudgetInv, KnownInv, LaneInv, StagedInv, Early, Replying, Leaving, Unpicked
<1>8. StaleOnlyOnFarewell'
  BY <1>1, <1>3 DEF StaleOnlyOnFarewell, Answers
<1>9. NeverReonboarded' /\ LaneAskedOnce'
  BY <1>1, <1>2 DEF NeverReonboarded, LaneAskedOnce, TurnInv, KnownInv, LaneInv, Unpicked, Leaving, Replying
<1>10. QED
  BY <1>6, <1>7, <1>8, <1>9 DEF TurnInv

(* The form arrives, the deadline passes, or the turn fails.               *)
LEMMA TurnDisturbed ==
  ASSUME TurnInv, Register \/ Elapse \/ TurnFails
  PROVE  TurnInv'
<1>1. turnFaults' \in [TurnFaultKinds -> Nat]
  BY TurnFaultType DEF TurnInv, TurnTypeOK, Register, Elapse, TurnFails
<1>2. TurnTypeOK'
  BY <1>1 DEF TurnInv, TurnTypeOK, Register, Elapse, TurnFails, reasoning
<1>3. BudgetInv' /\ KnownInv' /\ LaneInv' /\ StagedInv'
  BY DEF TurnInv, Register, Elapse, TurnFails, reasoning, BudgetInv, KnownInv, LaneInv,
         StagedInv, Early, Replying, Leaving, Unpicked
<1>4. UNCHANGED sent
  BY DEF Register, Elapse, TurnFails
<1>5. QED
  BY <1>2, <1>3, <1>4 DEF TurnInv, NeverReonboarded, LaneAskedOnce, StaleOnlyOnFarewell,
                          Answers

LEMMA TurnStepType == TurnInv /\ [TurnNext]_turnVars => TurnInv'
<1> SUFFICES ASSUME TurnInv, [TurnNext]_turnVars PROVE TurnInv'
  OBVIOUS
<1>1. turnFaults \in [TurnFaultKinds -> Nat] /\ turn \in Turn
  BY DEF TurnInv, TurnTypeOK
<1>2. CASE UNCHANGED turnVars
  BY <1>2 DEF turnVars, TurnInv, TurnTypeOK, BudgetInv, KnownInv, LaneInv, StagedInv, Early, Replying, Leaving,
         Unpicked, NeverReonboarded, LaneAskedOnce, StaleOnlyOnFarewell, Answers
<1>3. ASSUME Lookup \/ LookupFails PROVE TurnInv'
  <2>1. CASE Lookup
    <3>1. registered \in BOOLEAN /\ turnFaults' \in [TurnFaultKinds -> Nat]
      BY <1>1, <2>1 DEF TurnInv, TurnTypeOK, Lookup
    <3>2. QED
      BY <2>1, <3>1, TurnIdentifies DEF Lookup
  <2>2. CASE LookupFails
    <3>1. turnFaults' \in [TurnFaultKinds -> Nat]
      BY <2>2, TurnFaultType DEF TurnInv, LookupFails
    <3>2. QED
      BY <2>2, <3>1, TurnIdentifies DEF LookupFails
  <2>3. QED
    BY <1>3, <2>1, <2>2
<1>4. ASSUME RememberLane \/ RememberFails PROVE TurnInv'
  <2>1. CASE RememberLane
    BY <1>1, <2>1, TurnRemembers DEF RememberLane
  <2>2. CASE RememberFails
    <3>1. turnFaults' \in [TurnFaultKinds -> Nat]
      BY <2>2, TurnFaultType DEF TurnInv, RememberFails
    <3>2. QED
      BY <2>2, <3>1, TurnRemembers DEF RememberFails
  <2>3. QED
    BY <1>4, <2>1, <2>2
<1>5. ASSUME NEW n \in Repliers, node = n
      PROVE  /\ turn.cards = "none" /\ turn.interactive \in Sources
             /\ turn.interactive = "none" \/ (turn.interactive = "lookup" /\ ~turn.known)
             /\ n \in AgentLane => turn.interactive = "none"
  BY <1>1, <1>5 DEF TurnInv, StagedInv, KnownInv, Replying, Turn
<1>6. CASE Onboarding
  <2>1. node = "onboarding"
    BY <1>6 DEF Onboarding, Reply
  <2>2. QED
    BY <1>5, <1>6, <2>1, TurnReplies DEF Onboarding
<1>7. CASE Greeting
  <2>1. node = "greeting"
    BY <1>7 DEF Greeting, Reply
  <2>2. CASE turn.msg = "closer"
    BY <1>5, <1>7, <2>1, <2>2, TurnReplies DEF Greeting
  <2>3. CASE turn.msg # "closer"
    BY <1>5, <1>7, <2>1, <2>3, TurnReplies DEF Greeting
  <2>4. QED
    BY <2>2, <2>3
<1>8. CASE RoleSelect
  <2>1. node = "role_select"
    BY <1>8 DEF RoleSelect, Reply
  <2>2. QED
    BY <1>5, <1>8, <2>1, TurnReplies DEF RoleSelect
<1>9. CASE Creator
  <2>1. node = "creator"
    BY <1>9 DEF Creator, CreatorForm, CreatorText, CreatorHub, Reply
  <2>2. QED
    BY <1>5, <1>9, <2>1, TurnReplies DEF Creator, CreatorForm, CreatorText, CreatorHub
<1>10. CASE Menu
  <2>1. node = "menu"
    BY <1>10 DEF Menu, MenuList, MenuText, NoMenu, Reply, Pass
  <2>2. QED
    BY <1>5, <1>10, <2>1, TurnReplies, TurnPasses DEF Menu, MenuList, MenuText, NoMenu
<1>11. CASE Browse
  <2>1. node = "browse"
    BY <1>11 DEF Browse, BrowseCards, BrowseText, NoBrowse, Reply, Pass
  <2>2. QED
    BY <1>5, <1>11, <2>1, TurnReplies, TurnPasses DEF Browse, BrowseCards, BrowseText, NoBrowse
<1>12. CASE Responder
  <2>1. node = "responder"
    BY <1>12 DEF Responder, Reply
  <2>2. QED
    BY <1>5, <1>12, <2>1, TurnReplies DEF Responder
<1>13. CASE Summarize \/ Humanize \/ Persist
  BY <1>13, TurnPasses DEF Summarize, Humanize, Persist
<1>14. QED
  BY <1>2, <1>3, <1>4, <1>6, <1>7, <1>8, <1>9, <1>10, <1>11, <1>12, <1>13, TurnBegins, TurnLoads, TurnPlans,
     TurnExecutes, TurnReflects, TurnDelivers, TurnDisturbed DEF TurnNext, TurnStep

LEMMA TurnInvariant == TurnSpec => []TurnInv
<1>1. TurnInit => TurnInv
  BY TurnInitType
<1>2. TurnInv /\ [TurnNext]_turnVars => TurnInv'
  BY TurnStepType
<1>3. QED
  BY <1>1, <1>2, PTL DEF TurnSpec

(* Type correctness of AgentTurn: the model may ask to replan for ever, a  *)
(* turn plans at most agent_max_loops times.                               *)
THEOREM TurnTypeCorrect == TurnSpec => []TurnTypeOK
<1>1. TurnInv => TurnTypeOK
  BY DEF TurnInv
<1>2. QED
  BY <1>1, TurnInvariant, PTL

(* _identify and _route_after_identify: whatever is registered and         *)
(* remembered while turns run, and whatever fails, only numbers on the job *)
(* board reach the tools, a sender who was on it is asked to register      *)
(* again only after a failed lookup, and a stored lane is asked for again  *)
(* only after "switch".                                                    *)
THEOREM SendersAreRouted == TurnSpec => []RoutedByIdentity
<1>1. TurnInv => RoutedByIdentity
  BY DEF TurnInv, KnownInv, RoutedByIdentity, StrangersUseNoTools
<1>2. QED
  BY <1>1, TurnInvariant, PTL

(* handle and the replies of the nodes: what is sent was made by the node  *)
(* that answered, but for the farewell to a stranger.                      *)
THEOREM NoStalePayload == TurnSpec => []StaleOnlyOnFarewell
<1>1. TurnInv => StaleOnlyOnFarewell
  BY DEF TurnInv
<1>2. QED
  BY <1>1, TurnInvariant, PTL
=============================================================================
