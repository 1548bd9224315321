----------------------------- MODULE ApplyFlow -----------------------------
(***************************************************************************)
(* One seeker's applications: an Apply tap stages the apply state and asks *)
(* for a resume; a file or Skip in the chat, or the upload page behind the *)
(* link that came with the question, finishes the application, in Redis    *)
(* and as a row of private_job_applications.                               *)
(*                                                                         *)
(* A request is one chat message in the browse node or one upload. No lock *)
(* orders them, and an action is what runs between two awaits; the two     *)
(* awaits of a profile update are one, since all it ever does to what is   *)
(* modelled is to add a resume. A resume is there or not. The jobs belong  *)
(* to one employer, the day does not end and the live writes are on. The   *)
(* seeker's registration is staged, but its insert into the job board may  *)
(* have failed. Text that is neither a link nor "skip" is asked again and  *)
(* changes nothing.                                                        *)
(***************************************************************************)
EXTENDS Naturals, FiniteSets, Sequences

CONSTANTS
  Jobs,
  Requests,     (* bound on the requests in flight                         *)
  DailyCap,     (* dailyApplyCap of the employer's plan                    *)
  MaxRequests,  (* bound on the requests of a behaviour                    *)
  MaxFaults     (* bound on the faults of a behaviour                      *)

None == "none"
FaultKinds == {"redis", "db", "cap", "expiry", "turn"}
Taps   == {"apply", "skip", "file", "other", "upload"}
Staged == {"absent", "none", "cv"}
Places == {"browse", "abandon", "cap", "profile", "prompt", "look", "clear", "read", "stage",
           "keep", "clear_web", "insert"}

ASSUME BoundsAssumption == DailyCap \in Nat /\ MaxRequests \in Nat /\ MaxFaults \in Nat
ASSUME JobsAssumption == None \notin Jobs /\ IsFiniteSet(Jobs)

VARIABLES
  apply,       (* the apply state in Redis: the job asked about, or none   *)
  reg,         (* the staged registration: absent, or with or without cv   *)
  staged,      (* jobs with an application record in Redis                 *)
  rows,        (* the live applications of each job, see Row               *)
  live,        (* the seeker's row is in the job board                     *)
  profiled,    (* it comes with a profile row: NULL never conflicts        *)
  others,      (* applications of other seekers today                      *)
  linked,      (* an upload link was handed over                           *)
  req,         (* the requests in flight, see Request                      *)
  begun,       (* requests so far                                          *)
  faults,      (* faults so far, by kind                                   *)
  admitted,    (* history: jobs whose tap was within the cap               *)
  told,        (* history: jobs the seeker was told to have applied to     *)
  skipped      (* history: those whose row was not written for want of the seeker's *)

vars == <<apply, reg, staged, rows, live, profiled, others, linked, req, begun, faults,
          admitted, told, skipped>>
redis  == <<apply, reg, staged>>
board  == <<rows, others>>
ghosts == <<admitted, told, skipped>>
seeker == <<live, profiled>>
fixed  == <<seeker, begun>>

(* A row: does it have a resume, and had the profile one when the answer   *)
(* came in.                                                                *)
Row == [resume: BOOLEAN, had: BOOLEAN]

Idle == [at |-> "idle"]
Request == {Idle} \cup
  [at: Places, tap: Taps, job: Jobs \cup {None}, resume: BOOLEAN, had: BOOLEAN]

Init ==
  /\ apply = None
  /\ reg \in Staged
  /\ staged = {}
  /\ rows = [j \in Jobs |-> <<>>]
  /\ live \in BOOLEAN /\ profiled \in BOOLEAN
  /\ others = 0
  /\ linked = FALSE
  /\ req = [r \in Requests |-> Idle]
  /\ begun = 0
  /\ faults = [k \in FaultKinds |-> 0]
  /\ admitted = {} /\ told = {} /\ skipped = {}

Spent == faults["redis"] + faults["db"] + faults["cap"] + faults["expiry"] + faults["turn"]

Fault(k) ==
  /\ Spent < MaxFaults
  /\ faults' = [faults EXCEPT ![k] = @ + 1]

At(r, place) == req[r].at = place
Goto(r, place) == req' = [req EXCEPT ![r].at = place]
Finish(r) == req' = [req EXCEPT ![r] = Idle]
Job(r) == req[r].job
Upload(r) == req[r].tap = "upload"

-----------------------------------------------------------------------------
(* A message or an upload arrives *)

Begin(r) ==
  /\ At(r, "idle") /\ begun < MaxRequests
  /\ begun' = begun + 1
  /\ \E tap \in Taps, j \in Jobs \cup {None} :
       /\ (j # None) <=> (tap = "apply")
       /\ tap \in {"skip", "upload"} => linked
       /\ req' = [req EXCEPT ![r] = [at |-> "browse", tap |-> tap, job |-> j, resume |-> FALSE,
                                     had |-> reg = "cv"]]
  /\ UNCHANGED <<redis, board, seeker, linked, faults, ghosts>>

(* _browse and resume_submit read the apply state. A chat answer takes the *)
(* job from it; any other button abandons it; without it, only Apply and   *)
(* an upload go on.                                                        *)
After(tap, state) ==
  CASE tap = "upload"                         -> "read"
    [] tap \in {"skip", "file"}               -> IF state = None THEN "idle" ELSE "look"
    [] tap \in {"apply", "other"} /\ state # None -> "abandon"
    [] tap = "apply" /\ state = None          -> "cap"
    [] OTHER                                  -> "idle"

Read(r, state) ==
  /\ At(r, "browse")
  /\ LET next == After(req[r].tap, state)
     IN IF next = "idle" THEN Finish(r)
        ELSE req' = [req EXCEPT ![r].at = next,
                                ![r].job = IF req[r].tap = "apply" THEN @ ELSE state]
  /\ UNCHANGED <<redis, board, fixed, linked, ghosts>>

LoadApply(r) == Read(r, apply) /\ UNCHANGED faults

(* In the chat, a failed read counts as no apply state. *)
LoadApplyFails(r) == Read(r, None) /\ ~Upload(r) /\ Fault("redis")

(* _clear_apply swallows what Redis raises. *)
Clear(cleared) == apply' = IF cleared THEN None ELSE apply

(* "tapping a DIFFERENT button abandons the apply flow". *)
Abandon(r, cleared) ==
  /\ At(r, "abandon")
  /\ Clear(cleared)
  /\ IF req[r].tap = "apply" THEN Goto(r, "cap") ELSE Finish(r)
  /\ UNCHANGED <<reg, staged, board, fixed, linked, ghosts>>

-----------------------------------------------------------------------------
(* _apply_start *)

Applications == UNION {{j} \X DOMAIN rows[j] : j \in Jobs}

Used == others + Cardinality(Applications)

CapReached == Used >= DailyCap

CheckCap(r) ==
  /\ At(r, "cap")
  /\ IF CapReached THEN Finish(r) ELSE Goto(r, "profile")
  /\ admitted' = IF Used < DailyCap THEN admitted \cup {Job(r)} ELSE admitted
  /\ UNCHANGED <<redis, board, fixed, linked, faults, told, skipped>>

(* "never block an apply on a DB error". *)
CheckCapFails(r) ==
  /\ At(r, "cap")
  /\ Fault("cap")
  /\ Goto(r, "profile")
  /\ UNCHANGED <<redis, board, fixed, linked, ghosts>>

(* Without a staged registration the tap is only noted as interest. *)
Profile(r, present) ==
  /\ At(r, "profile")
  /\ IF present THEN Goto(r, "prompt") ELSE Finish(r)
  /\ UNCHANGED <<redis, board, fixed, linked, ghosts>>

LoadProfile(r) == Profile(r, reg # "absent") /\ UNCHANGED faults
LoadProfileFails(r) == Profile(r, FALSE) /\ Fault("redis")

(* The apply state is stored, a link is minted and the question goes out;  *)
(* the question goes out even if the state was not stored.                 *)
Prompt(r, stored) ==
  /\ At(r, "prompt")
  /\ apply' = IF stored THEN Job(r) ELSE apply
  /\ linked' = TRUE
  /\ Finish(r)
  /\ UNCHANGED <<reg, staged, board, fixed, ghosts>>

AskResume(r) == Prompt(r, TRUE) /\ UNCHANGED faults
AskResumeFails(r) == Prompt(r, FALSE) /\ Fault("redis")

-----------------------------------------------------------------------------
(* The answer in the chat: _apply_answer, _apply_finalize *)

(* build_application_record: a skip falls back to the profile's resume. *)
Built(r) == req[r].tap # "skip" \/ reg = "cv"

(* The registration is read, then the apply state is cleared. *)
LookAnswer(r) ==
  /\ At(r, "look")
  /\ req' = [req EXCEPT ![r].at = "clear", ![r].resume = Built(r),
                        ![r].job = IF reg = "absent" THEN None ELSE @]
  /\ UNCHANGED <<redis, board, fixed, linked, faults, ghosts>>

ClearAnswered(r, cleared) ==
  /\ At(r, "clear")
  /\ Clear(cleared)
  /\ IF Job(r) = None THEN Finish(r) ELSE Goto(r, "stage")
  /\ UNCHANGED <<reg, staged, board, fixed, linked, ghosts>>

(* Mutant: an upload without an apply state stages an application too. *)
LookUploadBlind(r) ==
  /\ At(r, "read")
  /\ req' = [req EXCEPT ![r].resume = TRUE, ![r].at = IF reg # "absent" THEN "stage" ELSE "keep"]
  /\ UNCHANGED <<redis, board, fixed, linked, faults, ghosts>>

(* The upload: with an apply state and a registration it finishes the      *)
(* application, else it only keeps the resume.                             *)
LookUpload(r) ==
  /\ At(r, "read")
  /\ req' = [req EXCEPT ![r].resume = TRUE,
                        ![r].at = IF Job(r) # None /\ reg # "absent" THEN "stage" ELSE "keep",
                        ![r].job = IF reg = "absent" THEN None ELSE @]
  /\ UNCHANGED <<redis, board, fixed, linked, faults, ghosts>>

(* The record goes to Redis, keyed by the job. *)
Stage(r) ==
  /\ At(r, "stage")
  /\ staged' = staged \cup {Job(r)}
  /\ Goto(r, IF req[r].tap = "skip" THEN "insert" ELSE "keep")
  /\ UNCHANGED <<apply, reg, board, fixed, linked, faults, ghosts>>

(* The resume goes to the staged registration, if there still is one. *)
Keep(r) ==
  /\ At(r, "keep")
  /\ reg' = IF reg = "absent" THEN reg ELSE "cv"
  /\ IF Job(r) = None THEN Finish(r)
     ELSE Goto(r, IF Upload(r) THEN "clear_web" ELSE "insert")
  /\ UNCHANGED <<apply, staged, board, fixed, linked, faults, ghosts>>

ClearUploaded(r) ==
  /\ At(r, "clear_web")
  /\ apply' = None
  /\ Goto(r, "insert")
  /\ UNCHANGED <<reg, staged, board, fixed, linked, faults, ghosts>>

(* Staging fails: the chat still writes the row, an upload does not; both  *)
(* say that the seeker has applied.                                        *)
StageFails(r) ==
  /\ req[r].at \in {"stage", "keep", "clear_web"}
  /\ Fault("redis")
  /\ IF Upload(r) THEN Finish(r) /\ told' = told \cup ({Job(r)} \ {None})
     ELSE Goto(r, "insert") /\ UNCHANGED told
  /\ UNCHANGED <<redis, board, fixed, linked, admitted, skipped>>

-----------------------------------------------------------------------------
(* ApplicationRepository.create *)

(* Mutants: no ON CONFLICT; a conflict on the profile alone. *)
WriteAlways(j, row) == rows' = [rows EXCEPT ![j] = Append(@, row)]

WriteOnce(j, row) ==
  rows' = IF profiled /\ \E k \in Jobs : rows[k] # <<>> THEN rows
          ELSE [rows EXCEPT ![j] = Append(@, row)]

(* ON CONFLICT (jobId, profileId) DO NOTHING. *)
Write(j, row) ==
  rows' = IF profiled /\ rows[j] # <<>> THEN rows
          ELSE [rows EXCEPT ![j] = Append(@, row)]

(* The seeker's row is looked up by phone, and the application inserted.   *)
Insert(r) ==
  /\ At(r, "insert") /\ live
  /\ Write(Job(r), [resume |-> req[r].resume, had |-> req[r].had])
  /\ told' = told \cup {Job(r)}
  /\ Finish(r)
  /\ UNCHANGED <<redis, others, fixed, linked, faults, admitted, skipped>>

(* Without one, nothing is written, and the seeker is told the same. *)
InsertSkipped(r) ==
  /\ At(r, "insert") /\ ~live
  /\ told' = told \cup {Job(r)}
  /\ skipped' = skipped \cup {Job(r)}
  /\ Finish(r)
  /\ UNCHANGED <<redis, board, fixed, linked, faults, admitted>>

(* "best-effort": the seeker is told the same. *)
InsertFails(r) ==
  /\ At(r, "insert")
  /\ Fault("db")
  /\ told' = told \cup {Job(r)}
  /\ Finish(r)
  /\ UNCHANGED <<redis, board, fixed, linked, admitted, skipped>>

-----------------------------------------------------------------------------
(* The environment *)

OtherApplies ==
  /\ Used < DailyCap
  /\ others' = others + 1
  /\ UNCHANGED <<redis, rows, fixed, linked, req, faults, ghosts>>

(* The form is sent again, and its insert does not fail this time. *)
GoLive ==
  /\ ~live
  /\ live' = TRUE
  /\ UNCHANGED <<redis, board, profiled, begun, linked, req, faults, ghosts>>

(* A Redis key's TTL ends, or the key is evicted. *)
Expire ==
  /\ Fault("expiry")
  /\ \/ apply # None /\ apply' = None /\ UNCHANGED reg
     \/ reg # "absent" /\ reg' = "absent" /\ UNCHANGED apply
  /\ UNCHANGED <<staged, board, fixed, linked, req, ghosts>>

(* The job lookup raises, or the worker dies. *)
Fail(r) ==
  /\ req[r].at # "idle"
  /\ Fault("turn")
  /\ Finish(r)
  /\ UNCHANGED <<redis, board, fixed, linked, ghosts>>

(* A clear that works, and one that fails. *)
Clears(r)     == (Abandon(r, TRUE) \/ ClearAnswered(r, TRUE)) /\ UNCHANGED faults
ClearFails(r) == (Abandon(r, FALSE) \/ ClearAnswered(r, FALSE)) /\ Fault("redis")

Step(r) ==
  \/ Begin(r) \/ LoadApply(r) \/ LoadApplyFails(r) \/ Clears(r) \/ ClearFails(r)
  \/ CheckCap(r) \/ CheckCapFails(r) \/ LoadProfile(r) \/ LoadProfileFails(r)
  \/ AskResume(r) \/ AskResumeFails(r)
  \/ LookAnswer(r) \/ LookUpload(r) \/ Stage(r) \/ Keep(r) \/ ClearUploaded(r)
  \/ StageFails(r) \/ Insert(r) \/ InsertSkipped(r) \/ InsertFails(r) \/ Fail(r)

Next == (\E r \in Requests : Step(r)) \/ OtherApplies \/ GoLive \/ Expire

Spec == Init /\ [][Next]_vars

-----------------------------------------------------------------------------
(* Properties *)

(* Type invariant. *)
TypeOK ==
  /\ apply \in Jobs \cup {None}
  /\ reg \in Staged
  /\ staged \subseteq Jobs /\ admitted \subseteq Jobs /\ told \subseteq Jobs /\ skipped \subseteq Jobs
  /\ rows \in [Jobs -> Seq(Row)]
  /\ live \in BOOLEAN /\ profiled \in BOOLEAN /\ linked \in BOOLEAN
  /\ others \in 0..DailyCap /\ begun \in 0..MaxRequests
  /\ req \in [Requests -> Request]
  /\ faults \in [FaultKinds -> 0..MaxFaults]

(* "a double-tap never errors or duplicates" (ApplicationRepository.create): *)
(* however chat answers and uploads overlap, a seeker with a profile has   *)
(* one application per job.                                                *)
OneApplication == profiled => \A j \in Jobs : Len(rows[j]) <= 1

(* A row is there only for a job whose Apply tap came before the cap was   *)
(* reached: "turn the applicant away (upfront, before collecting any       *)
(* details)" (_apply_start), whichever way the application is finished and *)
(* but for one job per failed check. And "a skip still attaches their CV   *)
(* if they have one" (build_application_record): no row lacks the resume   *)
(* that was on file when its answer came in, unless the registration was   *)
(* lost.                                                                   *)
RowsSound ==
  /\ Cardinality({j \in Jobs : rows[j] # <<>>} \ admitted) <= faults["cap"]
  /\ \A j \in Jobs : \A i \in DOMAIN rows[j] :
       rows[j][i].had /\ faults["expiry"] = 0 => rows[j][i].resume

(* "Applied" is said whether or not a row was written (_apply_finalize,    *)
(* resume_submit): it is there, but for one job per failed write and the   *)
(* jobs a seeker who was not in the job board then answered for, and such  *)
(* a seeker has no rows; overlapping answers never lose an application.    *)
AppliedIsRecorded ==
  /\ Cardinality({j \in told \ skipped : rows[j] = <<>>}) <= faults["redis"] + faults["db"]
  /\ ~live => \A j \in Jobs : rows[j] = <<>>

(* A row for every job the seeker was told so, and a sound one.            *)
ApplicationsSound == RowsSound /\ AppliedIsRecorded
=============================================================================
