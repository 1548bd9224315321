---------------------------- MODULE Registration ----------------------------
(***************************************************************************)
(* The two registration forms of one phone: the company form of the        *)
(* employer lane and the onboarding form of the seeker lane. Each stages a *)
(* record in Redis and writes a row to the job board, and guards both      *)
(* against a form submitted twice with a SET-NX lock of 120 seconds and a  *)
(* look at what is there already. An action is what runs between two       *)
(* awaits. A behaviour is about one of the forms. The live writes are on.  *)
(***************************************************************************)
EXTENDS Naturals, FiniteSets

CONSTANTS
  Requests,    (* bound on the submits in flight                           *)
  Jobs,        (* jobs the employer posts                                  *)
  MaxSubmits,  (* bound on the submits of a behaviour                      *)
  MaxFaults    (* bound on the faults of a behaviour                       *)

FaultKinds == {"redis", "db", "check", "evict", "slow", "crash"}
Places == {"idle", "exists", "lock", "save", "check", "insert", "relink", "stage"}

(* A row's id is the number of the submit that made it; 0 is a row that    *)
(* the portal made before.                                                 *)
Ids == 0..MaxSubmits

ASSUME BoundsAssumption == MaxSubmits \in Nat /\ MaxFaults \in Nat

VARIABLES
  form,      (* "employer" or "seeker"                                     *)
  record,    (* the record in Redis, see Record                            *)
  lock,      (* seen:emp_register:* or seen:onboard_db:*                   *)
  rows,      (* live rows of this phone                                    *)
  req,       (* the submits in flight: where, and the id of the record     *)
  submits,   (* submits so far                                             *)
  faults,    (* faults so far, by kind                                     *)
  posted,    (* history: jobs posted into the record                       *)
  relinked   (* history: a record was saved again with a live row's id     *)

vars == <<form, record, lock, rows, req, submits, faults, posted, relinked>>

Absent == [id |-> "absent"]
Record == {Absent} \cup [id: Ids, jobs: SUBSET Jobs]
New(id) == [id |-> id, jobs |-> {}]

Idle == [at |-> "idle", id |-> 0]

Init ==
  /\ form \in {"employer", "seeker"}
  /\ record = Absent /\ lock = FALSE
  /\ rows \in {{}, {0}}
  /\ req = [r \in Requests |-> Idle]
  /\ submits = 0
  /\ faults = [k \in FaultKinds |-> 0]
  /\ posted = {} /\ relinked = FALSE

Spent == faults["redis"] + faults["db"] + faults["check"] + faults["evict"]
           + faults["slow"] + faults["crash"]

Fault(k) ==
  /\ Spent < MaxFaults
  /\ faults' = [faults EXCEPT ![k] = @ + 1]

At(r, place) == req[r].at = place
Goto(r, place) == req' = [req EXCEPT ![r].at = place]
Finish(r) == req' = [req EXCEPT ![r] = Idle]
Quiet == \A r \in Requests : At(r, "idle")

Submit(r) ==
  /\ At(r, "idle") /\ submits < MaxSubmits
  /\ submits' = submits + 1
  /\ req' = [req EXCEPT ![r] = [at |-> IF form = "employer" THEN "exists" ELSE "stage",
                                id |-> submits']]
  /\ UNCHANGED <<form, record, lock, rows, faults, posted, relinked>>

-----------------------------------------------------------------------------
(* What both forms do *)

(* mark_seen: the first goes on, the others answer as if all were done. *)
Take(r) ==
  /\ At(r, "lock")
  /\ lock' = TRUE
  /\ IF lock THEN Finish(r) ELSE Goto(r, IF form = "employer" THEN "save" ELSE "check")
  /\ UNCHANGED <<form, record, rows, submits, faults, posted, relinked>>

(* The row is committed. *)
Insert(r) ==
  /\ At(r, "insert")
  /\ rows' = rows \cup {req[r].id}
  /\ Finish(r)
  /\ UNCHANGED <<form, record, lock, submits, faults, posted, relinked>>

(* The employer and the wallet with the welcome credit, one transaction. *)
InsertEmployer(r) == form = "employer" /\ Insert(r)

(* The seeker, the profile and its child rows, one transaction. *)
InsertSeeker(r) == form = "seeker" /\ Insert(r)

(* Only onboarding releases the lock then: the employer is registered by   *)
(* the record in Redis.                                                    *)
InsertFails(r) ==
  /\ At(r, "insert")
  /\ Fault("db")
  /\ lock' = (lock /\ form = "employer")
  /\ Finish(r)
  /\ UNCHANGED <<form, record, rows, submits, posted, relinked>>

-----------------------------------------------------------------------------
(* register_submit *)

(* Mutant: the form is taken again. *)
LookBlind(r) ==
  /\ At(r, "exists")
  /\ Goto(r, "lock")
  /\ UNCHANGED <<form, record, lock, rows, submits, faults, posted, relinked>>

Look(r) ==
  /\ At(r, "exists")
  /\ IF record # Absent THEN Finish(r) ELSE Goto(r, "lock")
  /\ UNCHANGED <<form, record, lock, rows, submits, faults, posted, relinked>>

SaveEmployer(r) ==
  /\ At(r, "save")
  /\ record' = New(req[r].id)
  /\ Goto(r, "check")
  /\ UNCHANGED <<form, lock, rows, submits, faults, posted, relinked>>

SaveFails(r) ==
  /\ At(r, "save")
  /\ Fault("redis")
  /\ lock' = FALSE
  /\ Finish(r)
  /\ UNCHANGED <<form, record, rows, submits, posted, relinked>>

(* Mutant: an employer without a row is relinked, not inserted. *)
FindAlways(r) ==
  /\ form = "employer" /\ At(r, "check")
  /\ Goto(r, "relink")
  /\ UNCHANGED <<form, record, lock, rows, submits, faults, posted, relinked>>

(* exists_by_phone; an error leaves the record as it is. *)
FindEmployer(r) ==
  /\ form = "employer" /\ At(r, "check")
  /\ Goto(r, IF rows = {} THEN "insert" ELSE "relink")
  /\ UNCHANGED <<form, record, lock, rows, submits, faults, posted, relinked>>

FindFails(r) ==
  /\ form = "employer" /\ At(r, "check")
  /\ Fault("check")
  /\ Finish(r)
  /\ UNCHANGED <<form, record, lock, rows, submits, posted, relinked>>

(* The record as it was built, with the live row's id, is saved again. *)
Relink(r) ==
  /\ At(r, "relink")
  /\ \E id \in rows : record' = New(id)
  /\ relinked' = TRUE
  /\ Finish(r)
  /\ UNCHANGED <<form, lock, rows, submits, faults, posted>>

-----------------------------------------------------------------------------
(* onboarding_submit *)

StageSeeker(r) ==
  /\ At(r, "stage")
  /\ record' = New(req[r].id)
  /\ Goto(r, "lock")
  /\ UNCHANGED <<form, lock, rows, submits, faults, posted, relinked>>

(* "staging must never fail the submission": the live write follows. *)
StageFails(r) ==
  /\ At(r, "stage")
  /\ Fault("redis")
  /\ Goto(r, "lock")
  /\ UNCHANGED <<form, record, lock, rows, submits, posted, relinked>>

(* Mutant: the lock is trusted alone. *)
FindSeekerBlind(r) ==
  /\ form = "seeker" /\ At(r, "check")
  /\ Goto(r, "insert")
  /\ UNCHANGED <<form, record, lock, rows, submits, faults, posted, relinked>>

FindSeeker(r) ==
  /\ form = "seeker" /\ At(r, "check")
  /\ IF rows # {} THEN Finish(r) ELSE Goto(r, "insert")
  /\ UNCHANGED <<form, record, lock, rows, submits, faults, posted, relinked>>

(* "a blip must not block the write". *)
FindSeekerFails(r) ==
  /\ form = "seeker" /\ At(r, "check")
  /\ Fault("check")
  /\ Goto(r, "insert")
  /\ UNCHANGED <<form, record, lock, rows, submits, posted, relinked>>

-----------------------------------------------------------------------------
(* The environment *)

(* A registered employer posts a job: add_employer_job, whose own two      *)
(* awaits are JobPosting's.                                                *)
AddJob ==
  /\ form = "employer" /\ record # Absent
  /\ \E j \in Jobs \ posted :
       /\ posted' = posted \cup {j}
       /\ record' = [record EXCEPT !.jobs = @ \cup {j}]
  /\ UNCHANGED <<form, lock, rows, req, submits, faults, relinked>>

(* The record's TTL ends or Redis evicts it. *)
LoseRecord ==
  /\ record # Absent
  /\ Fault("evict")
  /\ record' = Absent /\ posted' = {}
  /\ UNCHANGED <<form, lock, rows, req, submits, relinked>>

(* The lock's 120 seconds pass; with a submit in flight it is a slow one.  *)
ExpireLock ==
  /\ lock
  /\ lock' = FALSE
  /\ IF Quiet THEN UNCHANGED faults ELSE Fault("slow")
  /\ UNCHANGED <<form, record, rows, req, submits, posted, relinked>>

Crash(r) ==
  /\ ~At(r, "idle")
  /\ Fault("crash")
  /\ Finish(r)
  /\ UNCHANGED <<form, record, lock, rows, submits, posted, relinked>>

Step(r) ==
  \/ Submit(r) \/ Look(r) \/ Take(r) \/ SaveEmployer(r) \/ SaveFails(r) \/ FindEmployer(r)
  \/ FindFails(r) \/ Relink(r) \/ StageSeeker(r) \/ StageFails(r) \/ FindSeeker(r)
  \/ FindSeekerFails(r) \/ InsertEmployer(r) \/ InsertSeeker(r) \/ InsertFails(r) \/ Crash(r)

Next == (\E r \in Requests : Step(r)) \/ AddJob \/ LoseRecord \/ ExpireLock

Spec == Init /\ [][Next]_vars

-----------------------------------------------------------------------------
(* Properties *)

(* Type invariant. *)
TypeOK ==
  /\ form \in {"employer", "seeker"}
  /\ record \in Record
  /\ lock \in BOOLEAN /\ relinked \in BOOLEAN
  /\ rows \subseteq Ids /\ posted \subseteq Jobs
  /\ req \in [Requests -> [at: Places, id: Ids]]
  /\ \A r \in Requests : At(r, "relink") => rows # {}
  /\ submits \in 0..MaxSubmits
  /\ faults \in [FaultKinds -> 0..MaxFaults]

(* "Two guards stop duplicate private_job_seekers rows" (onboarding_submit) *)
(* and "no duplicate employer/wallet" (EmployerRepository.create): one row *)
(* however often and however fast the form is submitted, but for a lock    *)
(* that was too short or a look that failed.                               *)
OneRow == Cardinality(rows) <= 1 + faults["slow"] + faults["check"]

(* "If the profile already exists, never overwrite it (that would wipe     *)
(* their posted jobs / wallet)" (register_submit): no submit loses a job   *)
(* that was posted, unless it saved the record again.                      *)
JobsKept ==
  (record # Absent /\ ~relinked /\ faults["slow"] = 0) => posted \subseteq record.jobs
=============================================================================
