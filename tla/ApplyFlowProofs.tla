-------------------------- MODULE ApplyFlowProofs --------------------------
(***************************************************************************)
(* Proofs about ApplyFlow, for every set of requests in flight, every cap  *)
(* and every number of faults.                                             *)
(***************************************************************************)
EXTENDS ApplyFlow, FiniteSetTheorems, FunctionTheorems, TLAPS

USE DEF FaultKinds

Full == [at: Places, tap: Taps, job: Jobs \cup {None}, resume: BOOLEAN, had: BOOLEAN]

InFlight(r) == req[r].at # "idle"

(* Where a request is tells what button it answers and whether it has its  *)
(* job.                                                                    *)
Chosen == {"stage", "clear_web", "insert"}
Asking == {"cap", "profile", "prompt"}

PlaceInv ==
  \A r \in Requests : InFlight(r) =>
    /\ req[r].tap = "apply" => Job(r) \in Jobs /\ req[r].at \in {"browse", "abandon"} \cup Asking
    /\ req[r].at \in Asking => req[r].tap = "apply"
    /\ req[r].at = "read" => Upload(r)
    /\ req[r].at \in Chosen \/ (req[r].at = "keep" /\ ~Upload(r)) => Job(r) \in Jobs

TypeInv == TypeOK /\ PlaceInv

LEMMA PlaceFacts ==
  /\ Asking \subseteq Places /\ Chosen \subseteq Places /\ "idle" \notin Places
  /\ None \notin Jobs /\ Idle.at = "idle"
BY JobsAssumption DEF Asking, Chosen, Places, Idle

LEMMA FullFacts ==
  ASSUME TypeOK, NEW r \in Requests
  PROVE  /\ InFlight(r) <=> req[r] # Idle
         /\ InFlight(r) => req[r] \in Full
         /\ InFlight(r) => /\ req[r].at \in Places /\ req[r].tap \in Taps /\ req[r].job \in Jobs \cup {None}
                           /\ req[r].resume \in BOOLEAN /\ req[r].had \in BOOLEAN
BY DEF TypeOK, Request, Full, InFlight, Idle, Places

LEMMA FaultEffect ==
  ASSUME TypeOK, NEW k \in FaultKinds, Fault(k)
  PROVE  /\ faults' \in [FaultKinds -> 0..MaxFaults]
         /\ faults'[k] = faults[k] + 1
         /\ \A x \in FaultKinds \ {k} : faults'[x] = faults[x]
<1> DEFINE a == faults["redis"]
           b == faults["db"]
           c == faults["cap"]
           d == faults["expiry"]
           e == faults["turn"]
<1>1. a \in Nat /\ b \in Nat /\ c \in Nat /\ d \in Nat /\ e \in Nat /\ MaxFaults \in Nat
  BY BoundsAssumption DEF TypeOK
<1>2. a + b + c + d + e < MaxFaults
  BY DEF Fault, Spent
<1> HIDE DEF a, b, c, d, e
<1>3. a < MaxFaults /\ b < MaxFaults /\ c < MaxFaults /\ d < MaxFaults /\ e < MaxFaults
  BY <1>1, <1>2
<1>4. \A x \in FaultKinds : faults[x] \in Nat /\ faults[x] < MaxFaults
  BY <1>1, <1>3 DEF a, b, c, d, e
<1>5. faults' = [faults EXCEPT ![k] = faults[k] + 1] /\ faults \in [FaultKinds -> 0..MaxFaults]
  BY DEF Fault, TypeOK
<1>6. faults[k] + 1 \in 0..MaxFaults
  BY <1>1, <1>4
<1>7. QED
  BY <1>5, <1>6

(* The count behind the cap is a number.                                   *)
LEMMA UsedNat == TypeOK => Used \in Nat /\ Cardinality(Applications) \in Nat
<1> SUFFICES ASSUME TypeOK PROVE Used \in Nat /\ Cardinality(Applications) \in Nat
  OBVIOUS
<1> DEFINE f == [j \in Jobs |-> {j} \X DOMAIN rows[j]]
           S == {{j} \X DOMAIN rows[j] : j \in Jobs}
<1>1. IsFiniteSet(S)
  <2>1. f \in [Jobs -> S] /\ \A T \in S : \E j \in Jobs : f[j] = T
    OBVIOUS
  <2>2. f \in Surjection(Jobs, S)
    BY <2>1, Fun_IsSurj
  <2>3. QED
    BY <2>2, JobsAssumption, FS_Surjection
<1>2. \A T \in S : IsFiniteSet(T)
  <2>1. SUFFICES ASSUME NEW j \in Jobs PROVE IsFiniteSet({j} \X DOMAIN rows[j])
    OBVIOUS
  <2>2. DOMAIN rows[j] = 1..Len(rows[j]) /\ Len(rows[j]) \in Nat
    BY DEF TypeOK
  <2>3. \A n \in Nat : IsFiniteSet(1..n)
    BY FS_Interval
  <2>4. IsFiniteSet(1..Len(rows[j])) /\ IsFiniteSet({j})
    BY <2>2, <2>3, FS_Singleton
  <2>5. QED
    BY <2>2, <2>4, FS_Product
<1>3. IsFiniteSet(Applications)
  BY <1>1, <1>2, FS_UNION DEF Applications
<1>4. QED
  BY <1>3, FS_CardinalityType DEF Used, TypeOK

LEMMA AfterFacts ==
  ASSUME NEW tap \in Taps, NEW state \in Jobs \cup {None}
  PROVE  /\ After(tap, state) \in {"read", "idle", "look", "abandon", "cap"}
         /\ After(tap, state) \in {"look", "read"} => tap # "apply"
         /\ After(tap, state) = "cap" => tap = "apply"
         /\ After(tap, state) = "read" => tap = "upload"
         /\ tap = "apply" => After(tap, state) \in {"abandon", "cap"}
BY DEF After, Taps

(* A request that goes on keeps its button, and its job or a job it reads  *)
(* from the apply state; one that ends leaves nothing behind.              *)
Goes(r) ==
  /\ req'[r] \in Full
  /\ req'[r].tap = req[r].tap /\ req'[r].had = req[r].had
  /\ req'[r].job \in {req[r].job, None} \/ (req[r].at = "browse" /\ req[r].tap # "apply" /\ req'[r].job = apply)
  /\ req[r].tap = "apply" => /\ req'[r].job = req[r].job /\ req'[r].at \in {"abandon"} \cup Asking
                             /\ req'[r].at = "profile" => req[r].at = "cap"
                             /\ req'[r].at = "prompt" => req[r].at = "profile"
  /\ req'[r].at \in Asking => req[r].tap = "apply"
  /\ req'[r].at = "read" => Upload(r)
  /\ req'[r].at \in Chosen \/ (req'[r].at = "keep" /\ ~Upload(r)) => req'[r].job \in Jobs
  /\ req'[r].at \in {"clear", "keep"} \cup Chosen =>
       \/ req'[r].resume
       \/ req'[r].resume = req[r].resume /\ req[r].at \in {"clear", "keep"} \cup Chosen
       \/ req'[r].resume = Built(r) /\ req[r].at = "look"

Starts(r) ==
  /\ req[r] = Idle /\ req'[r] \in Full
  /\ req'[r].at = "browse" /\ req'[r].had = (reg = "cv")
  /\ (req'[r].job \in Jobs) <=> (req'[r].tap = "apply")

Others(r) == req' \in [Requests -> Request] /\ \A q \in Requests \ {r} : req'[q] = req[q]

LEMMA Gotos ==
  ASSUME TypeOK, NEW r \in Requests, InFlight(r), NEW p \in Places, Goto(r, p)
  PROVE  /\ Others(r) /\ req'[r] \in Full
         /\ req'[r].at = p /\ req'[r].tap = req[r].tap /\ req'[r].job = req[r].job
         /\ req'[r].had = req[r].had /\ req'[r].resume = req[r].resume
<1>1. req[r] \in Full /\ req \in [Requests -> Request]
  BY FullFacts DEF TypeOK
<1>2. req' = [req EXCEPT ![r] = [req[r] EXCEPT !.at = p]]
  BY DEF Goto
<1>3. [req[r] EXCEPT !.at = p] \in Full
  BY <1>1 DEF Full
<1>4. Full \subseteq Request
  BY DEF Full, Request
<1>5. req'[r] = [req[r] EXCEPT !.at = p]
  BY <1>1, <1>2
<1>6. QED
  BY <1>1, <1>2, <1>3, <1>4, <1>5 DEF Others, Full

LEMMA Finishes ==
  ASSUME TypeOK, NEW r \in Requests, Finish(r)
  PROVE  Others(r) /\ req'[r] = Idle
BY DEF TypeOK, Finish, Others, Request

LEMMA Rewrites ==
  ASSUME TypeOK, NEW r \in Requests, InFlight(r), NEW p \in Places, NEW j \in Jobs \cup {None}, NEW b \in BOOLEAN,
         req' = [req EXCEPT ![r].at = p, ![r].job = j, ![r].resume = b]
  PROVE  /\ Others(r) /\ req'[r] \in Full
         /\ req'[r].at = p /\ req'[r].tap = req[r].tap /\ req'[r].job = j
         /\ req'[r].had = req[r].had /\ req'[r].resume = b
<1> DEFINE n == [req[r] EXCEPT !.at = p, !.job = j, !.resume = b]
<1>1. req[r] \in Full /\ req \in [Requests -> Request]
  BY FullFacts DEF TypeOK
<1>2. req' = [req EXCEPT ![r] = n]
  BY <1>1
<1>3. /\ n \in Full /\ n.at = p /\ n.tap = req[r].tap /\ n.job = j
      /\ n.had = req[r].had /\ n.resume = b
  BY <1>1 DEF Full
<1>4. Full \subseteq Request
  BY DEF Full, Request
<1> HIDE DEF n
<1>5. req'[r] = n
  BY <1>1, <1>2
<1>6. QED
  BY <1>1, <1>2, <1>3, <1>4, <1>5 DEF Others
LEMMA ReqStep ==
  ASSUME TypeInv, NEW r \in Requests, Step(r)
  PROVE  Others(r) /\ (Starts(r) \/ (InFlight(r) /\ (req'[r] = Idle \/ Goes(r))))
<1> DEFINE Result == Others(r) /\ (Starts(r) \/ (InFlight(r) /\ (req'[r] = Idle \/ Goes(r))))
<1>0. TypeOK /\ PlaceInv
  BY DEF TypeInv
<1>1. ASSUME InFlight(r), Finish(r) PROVE Result
  BY <1>0, <1>1, Finishes
<1>2. ASSUME InFlight(r), NEW p \in Places, Goto(r, p),
             p = "cap" => At(r, "abandon") /\ req[r].tap = "apply",
             p = "profile" => At(r, "cap"), p = "prompt" => At(r, "profile"),
             p \notin Asking => req[r].tap # "apply",
             p \in Chosen \/ (p = "keep" /\ ~Upload(r)) => Job(r) \in Jobs,
             p # "read", p \in {"clear", "keep"} \cup Chosen => req[r].at \in {"clear", "keep"} \cup Chosen
      PROVE  Result
  <2>1. /\ Others(r) /\ req'[r] \in Full
        /\ req'[r].at = p /\ req'[r].tap = req[r].tap /\ req'[r].job = req[r].job
        /\ req'[r].had = req[r].had /\ req'[r].resume = req[r].resume
    BY <1>0, <1>2, Gotos
  <2>2. p \in Asking => req[r].tap = "apply"
    BY <1>0, <1>2 DEF PlaceInv, At, Asking
  <2>3. Goes(r)
    BY <1>2, <2>1, <2>2 DEF Goes, Job, At, Asking
  <2>4. QED
    BY <1>2, <2>1, <2>3
<1>3. CASE Begin(r)
  <2>1. PICK tap \in Taps, j \in Jobs \cup {None} :
          /\ (j # None) <=> (tap = "apply")
          /\ req' = [req EXCEPT ![r] = [at |-> "browse", tap |-> tap, job |-> j, resume |-> FALSE, had |-> reg = "cv"]]
    BY <1>3 DEF Begin
  <2> DEFINE n == [at |-> "browse", tap |-> tap, job |-> j, resume |-> FALSE, had |-> reg = "cv"]
  <2>2. n \in Full
    BY DEF Full, Places
  <2>3. Full \subseteq Request
    BY DEF Full, Request
  <2>4. n.at = "browse" /\ n.had = (reg = "cv") /\ n.job = j /\ n.tap = tap
    OBVIOUS
  <2> HIDE DEF n
  <2>5. req' = [req EXCEPT ![r] = n] /\ req \in [Requests -> Request] /\ req[r] = Idle
    BY <1>0, <1>3, <2>1, FullFacts DEF n, TypeOK, Begin, At, InFlight
  <2>6. req'[r] = n /\ Others(r)
    BY <2>2, <2>3, <2>5 DEF Others
  <2>7. Starts(r)
    BY <2>1, <2>2, <2>4, <2>5, <2>6, PlaceFacts DEF Starts
  <2>8. QED
    BY <2>6, <2>7
<1>4. ASSUME NEW state \in {apply, None}, Read(r, state) PROVE Result
  <2> DEFINE next == After(req[r].tap, state)
             jb   == IF req[r].tap = "apply" THEN req[r].job ELSE state
  <2>1. InFlight(r) /\ req[r].at = "browse"
    BY <1>4 DEF Read, At, InFlight
  <2>2. req[r].tap \in Taps /\ req[r].job \in Jobs \cup {None} /\ req[r].resume \in BOOLEAN /\ state \in Jobs \cup {None}
    BY <1>0, <1>4, <2>1, FullFacts DEF TypeOK
  <2>3. /\ next \in {"read", "idle", "look", "abandon", "cap"} /\ (next \in {"look", "read"} => req[r].tap # "apply")
        /\ (next = "cap" => req[r].tap = "apply") /\ (next = "read" => Upload(r)) /\ (req[r].tap = "apply" => next \in {"abandon", "cap"})
    BY <2>2, AfterFacts DEF Upload
  <2>4. CASE next = "idle"
    BY <1>1, <1>4, <2>1, <2>4 DEF Read
  <2>5. CASE next # "idle"
    <3>1. req' = [req EXCEPT ![r].at = next, ![r].job = jb]
      BY <1>4, <2>5 DEF Read
    <3>2. jb \in Jobs \cup {None} /\ req[r] \in Full /\ req \in [Requests -> Request]
      BY <1>0, <2>1, <2>2, FullFacts DEF TypeOK
    <3> HIDE DEF next, jb
    <3>3. req' = [req EXCEPT ![r].at = next, ![r].job = jb, ![r].resume = req[r].resume]
      <4>1. [req[r] EXCEPT !.at = next, !.job = jb] = [req[r] EXCEPT !.at = next, !.job = jb, !.resume = req[r].resume]
        BY <3>2 DEF Full
      <4>2. QED
        BY <3>1, <3>2, <4>1
    <3>4. next \in Places
      BY <2>3, <2>5 DEF Places
    <3>5. /\ Others(r) /\ req'[r] \in Full
          /\ req'[r].at = next /\ req'[r].tap = req[r].tap /\ req'[r].job = jb
          /\ req'[r].had = req[r].had /\ req'[r].resume = req[r].resume
      BY ZenonT(30), <1>0, <2>1, <2>2, <3>2, <3>3, <3>4, Rewrites
    <3>6. Goes(r)
      BY <1>4, <2>1, <2>3, <2>5, <3>5 DEF Goes, jb, Asking, Chosen
    <3>7. QED
      BY <2>1, <3>5, <3>6
  <2>6. QED
    BY <2>4, <2>5
<1>5. CASE LookAnswer(r)
  <2> DEFINE jb == IF reg = "absent" THEN None ELSE req[r].job
             p  == "clear"
             b  == Built(r)
  <2>1. /\ InFlight(r) /\ req[r].at = "look"
        /\ req' = [req EXCEPT ![r].at = p, ![r].job = jb, ![r].resume = b]
    <3>1. InFlight(r) /\ req[r].at = "look"
      BY <1>5 DEF LookAnswer, At, InFlight
    <3>2. req[r] \in Full
      BY <1>0, <3>1, FullFacts
    <3>3. QED
      BY <1>5, <3>1, <3>2 DEF LookAnswer, Full
  <2>2. jb \in Jobs \cup {None} /\ b \in BOOLEAN /\ req[r].tap # "apply" /\ p \in Places
    BY <1>0, <2>1, FullFacts DEF Built, PlaceInv, Places, Asking
  <2>3. jb \in {req[r].job, None} /\ p = "clear" /\ b = Built(r)
    OBVIOUS
  <2> HIDE DEF jb, p, b
  <2>4. /\ Others(r) /\ req'[r] \in Full
        /\ req'[r].at = p /\ req'[r].tap = req[r].tap /\ req'[r].job = jb
        /\ req'[r].had = req[r].had /\ req'[r].resume = b
    BY <1>0, <2>1, <2>2, Rewrites
  <2>5. Goes(r)
    BY <2>1, <2>2, <2>3, <2>4 DEF Goes, Asking, Chosen
  <2>6. QED
    BY <2>1, <2>4, <2>5
<1>6. CASE LookUpload(r)
  <2> DEFINE jb == IF reg = "absent" THEN None ELSE req[r].job
             p  == IF Job(r) # None /\ reg # "absent" THEN "stage" ELSE "keep"
  <2>1. /\ InFlight(r) /\ req[r].at = "read"
        /\ req' = [req EXCEPT ![r].at = p, ![r].job = jb, ![r].resume = TRUE]
    <3>1. InFlight(r) /\ req[r].at = "read"
      BY <1>6 DEF LookUpload, At, InFlight
    <3>2. req[r] \in Full
      BY <1>0, <3>1, FullFacts
    <3>3. QED
      BY ZenonT(30), <1>6, <3>1, <3>2 DEF LookUpload, Full
  <2>2. jb \in Jobs \cup {None} /\ req[r].tap # "apply" /\ p \in Places /\ p \in {"stage", "keep"}
    BY <1>0, <2>1, FullFacts DEF PlaceInv, Places, Asking
  <2>3. jb \in {req[r].job, None} /\ (p = "stage" => jb \in Jobs)
    BY <2>2 DEF Job
  <2>4. Upload(r)
    BY <1>0, <2>1 DEF PlaceInv
  <2> HIDE DEF jb, p
  <2>5. /\ Others(r) /\ req'[r] \in Full
        /\ req'[r].at = p /\ req'[r].tap = req[r].tap /\ req'[r].job = jb
        /\ req'[r].had = req[r].had /\ req'[r].resume = TRUE
    BY <1>0, <2>1, <2>2, Rewrites
  <2>6. Goes(r)
    BY <2>1, <2>2, <2>3, <2>4, <2>5 DEF Goes, Asking, Chosen
  <2>7. QED
    BY <2>1, <2>5, <2>6
<1>7. ASSUME NEW c \in BOOLEAN, Abandon(r, c) PROVE Result
  <2>1. InFlight(r) /\ At(r, "abandon") /\ IF req[r].tap = "apply" THEN Goto(r, "cap") ELSE Finish(r)
    BY <1>7 DEF Abandon, At, InFlight
  <2>2. QED
    BY <1>1, <1>2, <2>1 DEF Places, Asking, Chosen
<1>8. CASE CheckCap(r) \/ CheckCapFails(r)
  <2>1. InFlight(r) /\ At(r, "cap") /\ (Goto(r, "profile") \/ Finish(r))
    BY <1>8 DEF CheckCap, CheckCapFails, At, InFlight
  <2>2. QED
    BY <1>1, <1>2, <2>1 DEF Places, Asking, Chosen
<1>9. ASSUME NEW present \in BOOLEAN, Profile(r, present) PROVE Result
  <2>1. InFlight(r) /\ At(r, "profile") /\ (Goto(r, "prompt") \/ Finish(r))
    BY <1>9 DEF Profile, At, InFlight
  <2>2. QED
    BY <1>1, <1>2, <2>1 DEF Places, Asking, Chosen
<1>10. ASSUME NEW stored \in BOOLEAN, Prompt(r, stored) PROVE Result
  <2>1. InFlight(r) /\ Finish(r)
    BY <1>10 DEF Prompt, At, InFlight
  <2>2. QED
    BY <1>1, <2>1
<1>11. ASSUME NEW c \in BOOLEAN, ClearAnswered(r, c) PROVE Result
  <2>1. InFlight(r) /\ At(r, "clear") /\ IF Job(r) = None THEN Finish(r) ELSE Goto(r, "stage")
    BY <1>11 DEF ClearAnswered, At, InFlight
  <2>2. Job(r) \in Jobs \cup {None} /\ req[r].tap # "apply"
    BY <1>0, <2>1, FullFacts DEF Job, PlaceInv, At, Asking
  <2>3. QED
    BY <1>1, <1>2, <2>1, <2>2 DEF Places, Asking, Chosen, At
<1>12. CASE Stage(r)
  <2>1. InFlight(r) /\ At(r, "stage") /\ Goto(r, IF req[r].tap = "skip" THEN "insert" ELSE "keep")
    BY <1>12 DEF Stage, At, InFlight
  <2>2. Job(r) \in Jobs /\ req[r].tap # "apply"
    BY <1>0, <2>1 DEF PlaceInv, At, Asking, Chosen
  <2>3. QED
    BY <1>2, <2>1, <2>2 DEF Places, Asking, Chosen, At
<1>13. CASE Keep(r)
  <2>1. /\ InFlight(r) /\ At(r, "keep")
        /\ IF Job(r) = None THEN Finish(r) ELSE Goto(r, IF Upload(r) THEN "clear_web" ELSE "insert")
    BY <1>13 DEF Keep, At, InFlight
  <2>2. Job(r) \in Jobs \cup {None} /\ req[r].tap # "apply"
    BY <1>0, <2>1, FullFacts DEF Job, PlaceInv, At, Asking
  <2>3. QED
    BY <1>1, <1>2, <2>1, <2>2 DEF Places, Asking, Chosen, At
<1>14. CASE ClearUploaded(r)
  <2>1. InFlight(r) /\ At(r, "clear_web") /\ Goto(r, "insert")
    BY <1>14 DEF ClearUploaded, At, InFlight
  <2>2. Job(r) \in Jobs /\ req[r].tap # "apply"
    BY <1>0, <2>1 DEF PlaceInv, At, Asking, Chosen
  <2>3. QED
    BY <1>2, <2>1, <2>2 DEF Places, Asking, Chosen, At
<1>15. CASE StageFails(r)
  <2>1. InFlight(r) /\ req[r].at \in {"stage", "keep", "clear_web"} /\ IF Upload(r) THEN Finish(r) ELSE Goto(r, "insert")
    BY <1>15 DEF StageFails, InFlight
  <2>2. (~Upload(r) => Job(r) \in Jobs) /\ req[r].tap # "apply"
    BY <1>0, <2>1 DEF PlaceInv, Asking, Chosen
  <2>3. QED
    BY <1>1, <1>2, <2>1, <2>2 DEF Places, Asking, Chosen, At
<1>16. CASE Insert(r) \/ InsertSkipped(r) \/ InsertFails(r) \/ Fail(r)
  <2>1. InFlight(r) /\ Finish(r)
    BY <1>16 DEF Insert, InsertSkipped, InsertFails, Fail, At, InFlight
  <2>2. QED
    BY <1>1, <2>1
<1>17. QED
  BY <1>3, <1>4, <1>5, <1>6, <1>7, <1>8, <1>9, <1>10, <1>11, <1>12, <1>13, <1>14, <1>15, <1>16
     DEF Step, LoadApply, LoadApplyFails, Clears, ClearFails, LoadProfile, LoadProfileFails, AskResume, AskResumeFails
LEMMA PlaceStep ==
  ASSUME TypeInv, [Next]_vars
  PROVE  PlaceInv' /\ req' \in [Requests -> Request]
<1>0. TypeOK /\ PlaceInv /\ req \in [Requests -> Request]
  BY DEF TypeInv, TypeOK
<1>1. ASSUME UNCHANGED req PROVE PlaceInv' /\ req' \in [Requests -> Request]
  BY <1>0, <1>1 DEF PlaceInv, InFlight, Job, Upload
<1>2. ASSUME NEW r \in Requests, Step(r) PROVE PlaceInv' /\ req' \in [Requests -> Request]
  <2>1. Others(r) /\ (Starts(r) \/ (InFlight(r) /\ (req'[r] = Idle \/ Goes(r))))
    BY <1>2, ReqStep
  <2>2. SUFFICES ASSUME NEW q \in Requests, req'[q].at # "idle"
                 PROVE  /\ req'[q].tap = "apply" => req'[q].job \in Jobs /\ req'[q].at \in {"browse", "abandon"} \cup Asking
                        /\ req'[q].at \in Asking => req'[q].tap = "apply"
                        /\ req'[q].at = "read" => req'[q].tap = "upload"
                        /\ req'[q].at \in Chosen \/ (req'[q].at = "keep" /\ req'[q].tap # "upload") => req'[q].job \in Jobs
    BY <2>1 DEF PlaceInv, InFlight, Job, Upload, Others
  <2>3. CASE q # r
    BY <1>0, <2>1, <2>2, <2>3 DEF Others, PlaceInv, InFlight, Job, Upload
  <2>4. CASE q = r /\ Starts(r)
    BY <2>2, <2>4 DEF Starts, Asking, Chosen
  <2>5. CASE q = r /\ req'[r] = Idle
    BY <2>2, <2>5 DEF Idle
  <2>6. CASE q = r /\ Goes(r) /\ InFlight(r)
    BY <1>0, <2>2, <2>6 DEF Goes, PlaceInv, Job, Upload
  <2>7. QED
    BY <2>1, <2>3, <2>4, <2>5, <2>6
<1>3. QED
  BY <1>1, <1>2 DEF Next, OtherApplies, GoLive, Expire, vars

(* Whatever its resume, a row is added to a job's and none is taken away;  *)
(* a second one only for a seeker without a profile.                       *)
LEMMA Writes ==
  ASSUME TypeOK, NEW j \in Jobs, NEW row \in Row, Write(j, row)
  PROVE  /\ rows' \in [Jobs -> Seq(Row)]
         /\ \A k \in Jobs \ {j} : rows'[k] = rows[k]
         /\ \/ rows'[j] = rows[j] /\ profiled
            \/ /\ Len(rows'[j]) = Len(rows[j]) + 1 /\ rows'[j][Len(rows[j]) + 1] = row
               /\ \A i \in DOMAIN rows[j] : rows'[j][i] = rows[j][i]
               /\ DOMAIN rows'[j] = DOMAIN rows[j] \cup {Len(rows[j]) + 1}
               /\ profiled => Len(rows[j]) = 0
         /\ rows'[j] # <<>>
<1>1. rows \in [Jobs -> Seq(Row)] /\ rows[j] \in Seq(Row)
  BY DEF TypeOK
<1>2. CASE profiled /\ rows[j] # <<>>
  BY <1>1, <1>2 DEF Write
<1>3. CASE ~(profiled /\ rows[j] # <<>>)
  <2>1. rows' = [rows EXCEPT ![j] = Append(rows[j], row)]
    BY <1>3 DEF Write
  <2>2. rows'[j] = Append(rows[j], row) /\ Append(rows[j], row) \in Seq(Row) /\ Len(rows[j]) \in Nat
    BY <1>1, <2>1
  <2>3. /\ Len(rows'[j]) = Len(rows[j]) + 1 /\ rows'[j][Len(rows[j]) + 1] = row
        /\ DOMAIN rows[j] = 1..Len(rows[j]) /\ DOMAIN rows'[j] = 1..Len(rows[j]) + 1
        /\ \A i \in 1..Len(rows[j]) : rows'[j][i] = rows[j][i]
    BY <1>1, <2>2
  <2>4. profiled => Len(rows[j]) = 0
    BY <1>1, <1>3
  <2>5. rows'[j] # <<>>
    BY <2>2, <2>3
  <2>6. rows' \in [Jobs -> Seq(Row)] /\ \A k \in Jobs \ {j} : rows'[k] = rows[k]
    BY <1>1, <2>1, <2>2
  <2>7. 1..Len(rows[j]) + 1 = 1..Len(rows[j]) \cup {Len(rows[j]) + 1}
    BY <2>2
  <2>8. DOMAIN rows'[j] = DOMAIN rows[j] \cup {Len(rows[j]) + 1}
    BY <2>3, <2>7
  <2>9. \A i \in DOMAIN rows[j] : rows'[j][i] = rows[j][i]
    BY <2>3
  <2>10. QED
    BY <2>3, <2>4, <2>5, <2>6, <2>8, <2>9
<1>4. QED
  BY <1>2, <1>3

LEMMA InsertFacts ==
  ASSUME TypeInv, NEW r \in Requests, Insert(r)
  PROVE  /\ Job(r) \in Jobs /\ InFlight(r) /\ req[r].at = "insert" /\ req[r].tap # "apply"
         /\ [resume |-> req[r].resume, had |-> req[r].had] \in Row
         /\ Write(Job(r), [resume |-> req[r].resume, had |-> req[r].had])
<1>1. InFlight(r) /\ req[r].at = "insert"
  BY DEF Insert, At, InFlight
<1>2. Job(r) \in Jobs /\ req[r].tap # "apply" /\ req[r].resume \in BOOLEAN /\ req[r].had \in BOOLEAN
  BY <1>1, FullFacts DEF TypeInv, PlaceInv, Chosen, Asking
<1>3. QED
  BY <1>1, <1>2 DEF Insert, Row

(* What a step leaves of the type invariant to be shown, part by part.     *)
LEMMA TypeParts ==
  ASSUME TypeInv, [Next]_vars
  PROVE  /\ apply' \in Jobs \cup {None} /\ reg' \in Staged
         /\ staged' \subseteq Jobs /\ admitted' \subseteq Jobs /\ told' \subseteq Jobs
         /\ rows' \in [Jobs -> Seq(Row)]
         /\ live' \in BOOLEAN /\ profiled' \in BOOLEAN /\ linked' \in BOOLEAN /\ skipped' \subseteq Jobs
         /\ others' \in 0..DailyCap /\ begun' \in 0..MaxRequests
         /\ faults' \in [FaultKinds -> 0..MaxFaults]
<1>0. TypeOK /\ PlaceInv
  BY DEF TypeInv
<1>1. ASSUME NEW r \in Requests, Step(r)
      PROVE  /\ apply' \in {apply, None} \/ (At(r, "prompt") /\ apply' = Job(r))
             /\ reg' \in {reg, "cv"}
             /\ staged' = staged \/ (At(r, "stage") /\ staged' = staged \cup {Job(r)})
             /\ admitted' = admitted \/ (At(r, "cap") /\ admitted' = admitted \cup {Job(r)})
             /\ \/ told' = told
                \/ told' = told \cup ({Job(r)} \ {None}) /\ InFlight(r)
                \/ At(r, "insert") /\ told' = told \cup {Job(r)}
             /\ skipped' = skipped \/ (At(r, "insert") /\ skipped' = skipped \cup {Job(r)})
             /\ rows' = rows \/ Insert(r)
             /\ live' = live /\ profiled' = profiled /\ linked' \in {linked, TRUE} /\ others' = others
             /\ begun' = begun \/ (begun < MaxRequests /\ begun' = begun + 1)
             /\ UNCHANGED faults \/ \E k \in FaultKinds : Fault(k)
  BY <1>1 DEF Step, Begin, LoadApply, LoadApplyFails, Read, Clears, ClearFails, Clear, Abandon, ClearAnswered,
     CheckCap, CheckCapFails, LoadProfile, LoadProfileFails, Profile, AskResume, AskResumeFails, Prompt,
     LookAnswer, LookUpload, Stage, Keep, ClearUploaded, StageFails, Insert, InsertSkipped, InsertFails, Fail,
     redis, board, ghosts, fixed, seeker, InFlight, At
<1>2. ASSUME NEW r \in Requests, Step(r)
      PROVE  /\ apply' \in Jobs \cup {None} /\ reg' \in Staged
             /\ staged' \subseteq Jobs /\ admitted' \subseteq Jobs /\ told' \subseteq Jobs
             /\ rows' \in [Jobs -> Seq(Row)]
             /\ live' \in BOOLEAN /\ profiled' \in BOOLEAN /\ linked' \in BOOLEAN /\ skipped' \subseteq Jobs
             /\ others' \in 0..DailyCap /\ begun' \in 0..MaxRequests
             /\ faults' \in [FaultKinds -> 0..MaxFaults]
  <2>1. \A p \in Asking \cup Chosen : At(r, p) => Job(r) \in Jobs
    BY <1>0 DEF PlaceInv, InFlight, At, Asking, Chosen
  <2>2. InFlight(r) => Job(r) \in Jobs \cup {None}
    BY <1>0, FullFacts DEF Job
  <2>3. apply' \in Jobs \cup {None} /\ reg' \in Staged
    BY <1>0, <1>1, <1>2, <2>1 DEF TypeOK, Asking, Staged
  <2>4. staged' \subseteq Jobs /\ admitted' \subseteq Jobs
    BY <1>0, <1>1, <1>2, <2>1 DEF TypeOK, Asking, Chosen
  <2>5. told' \subseteq Jobs /\ skipped' \subseteq Jobs
    BY <1>0, <1>1, <1>2, <2>1, <2>2 DEF TypeOK, Chosen
  <2>6. rows' \in [Jobs -> Seq(Row)]
    BY <1>0, <1>1, <1>2, InsertFacts, Writes DEF TypeOK
  <2>7. live' \in BOOLEAN /\ profiled' \in BOOLEAN /\ linked' \in BOOLEAN /\ others' \in 0..DailyCap
    BY <1>0, <1>1, <1>2 DEF TypeOK
  <2>8. begun' \in 0..MaxRequests
    <3>1. begun \in 0..MaxRequests /\ MaxRequests \in Nat
      BY <1>0, BoundsAssumption DEF TypeOK
    <3>2. begun' = begun \/ (begun < MaxRequests /\ begun' = begun + 1)
      BY <1>1, <1>2
    <3>3. QED
      BY <3>1, <3>2
  <2>9. faults' \in [FaultKinds -> 0..MaxFaults]
    BY <1>0, <1>1, <1>2, FaultEffect DEF TypeOK
  <2>10. QED
    BY <2>3, <2>4, <2>5, <2>6, <2>7, <2>8, <2>9
<1>3. ASSUME OtherApplies
      PROVE  others' \in 0..DailyCap /\ UNCHANGED <<apply, reg, staged, rows, live, profiled, begun, linked, faults, admitted, told, skipped>>
  <2>1. Used \in Nat /\ others \in Nat /\ Used < DailyCap /\ DailyCap \in Nat
    BY <1>0, <1>3, UsedNat, BoundsAssumption DEF OtherApplies, TypeOK
  <2>2. Used = others + Cardinality(Applications) /\ Cardinality(Applications) \in Nat
    BY <1>0, UsedNat DEF Used
  <2>3. others < DailyCap
    BY <2>1, <2>2
  <2>4. QED
    BY <1>3, <2>1, <2>3 DEF OtherApplies, redis, fixed, seeker, ghosts
<1>4. ASSUME Expire
      PROVE  /\ apply' \in Jobs \cup {None} /\ reg' \in Staged /\ faults' \in [FaultKinds -> 0..MaxFaults]
             /\ UNCHANGED <<staged, rows, others, live, profiled, begun, linked, admitted, told, skipped>>
  BY <1>0, <1>4, FaultEffect DEF Expire, board, fixed, seeker, ghosts, TypeOK, Staged
<1>5. ASSUME GoLive
      PROVE  /\ live' \in BOOLEAN
             /\ UNCHANGED <<apply, reg, staged, rows, others, profiled, begun, linked, faults, admitted, told, skipped>>
  BY <1>5 DEF GoLive, redis, board, ghosts
<1>6. QED
  BY <1>0, <1>2, <1>3, <1>4, <1>5 DEF Next, vars, TypeOK

LEMMA TypeStep ==
  ASSUME TypeInv, [Next]_vars
  PROVE  TypeInv'
BY PlaceStep, TypeParts DEF TypeInv, TypeOK

LEMMA TypeInit == Init => TypeInv
<1> SUFFICES ASSUME Init PROVE TypeInv
  OBVIOUS
<1>1. rows \in [Jobs -> Seq(Row)] /\ req \in [Requests -> Request] /\ faults \in [FaultKinds -> 0..MaxFaults]
  BY BoundsAssumption DEF Init, Request
<1>2. TypeOK
  <2>1. others \in 0..DailyCap /\ begun \in 0..MaxRequests
    BY BoundsAssumption DEF Init
  <2>2. QED
    BY <1>1, <2>1 DEF Init, TypeOK
<1>3. PlaceInv
  BY DEF Init, PlaceInv, InFlight, Idle
<1>4. QED
  BY <1>2, <1>3 DEF TypeInv
-----------------------------------------------------------------------------
(* One application for a job                                               *)

LEMMA OnceStep ==
  ASSUME TypeInv, OneApplication, [Next]_vars
  PROVE  OneApplication'
<1>0. TypeOK /\ rows \in [Jobs -> Seq(Row)]
  BY DEF TypeInv, TypeOK
<1>1. UNCHANGED profiled
  BY DEF Next, Step, Begin, LoadApply, LoadApplyFails, Read, Clears, ClearFails, Abandon, ClearAnswered,
     CheckCap, CheckCapFails, LoadProfile, LoadProfileFails, Profile, AskResume, AskResumeFails, Prompt,
     LookAnswer, LookUpload, Stage, Keep, ClearUploaded, StageFails, Insert, InsertSkipped, InsertFails, Fail,
     OtherApplies, GoLive, Expire, fixed, seeker, vars
<1>2. ASSUME UNCHANGED rows PROVE OneApplication'
  BY <1>1, <1>2 DEF OneApplication
<1>3. ASSUME NEW r \in Requests, Insert(r) PROVE OneApplication'
  <2>1. SUFFICES ASSUME profiled, NEW j \in Jobs PROVE Len(rows'[j]) <= 1
    BY <1>1 DEF OneApplication
  <2>2. Len(rows[j]) <= 1 /\ Len(rows[j]) \in Nat
    BY <1>0, <2>1 DEF OneApplication
  <2> DEFINE row == [resume |-> req[r].resume, had |-> req[r].had]
  <2>3. Job(r) \in Jobs /\ row \in Row /\ Write(Job(r), row)
    BY <1>3, InsertFacts
  <2> HIDE DEF row
  <2>4. rows'[j] = rows[j] \/ (Len(rows[j]) = 0 /\ Len(rows'[j]) = Len(rows[j]) + 1)
    BY <1>0, <2>1, <2>3, Writes
  <2>5. QED
    BY <2>2, <2>4
<1>4. UNCHANGED rows \/ \E r \in Requests : Insert(r)
  BY DEF Next, Step, Begin, LoadApply, LoadApplyFails, Read, Clears, ClearFails, Abandon, ClearAnswered,
     CheckCap, CheckCapFails, LoadProfile, LoadProfileFails, Profile, AskResume, AskResumeFails, Prompt,
     LookAnswer, LookUpload, Stage, Keep, ClearUploaded, StageFails, InsertSkipped, InsertFails, Fail,
     OtherApplies, GoLive, Expire, board, vars
<1>5. QED
  BY <1>2, <1>3, <1>4

-----------------------------------------------------------------------------
(* The resume on file                                                      *)

(* A profile with a resume keeps it, and every answer to it carries one.   *)
Carrying  == {"clear", "keep"} \cup Chosen
ResumeInv ==
  faults["expiry"] = 0 =>
    /\ \A r \in Requests : InFlight(r) /\ req[r].had =>
         reg = "cv" /\ (req[r].at \in Carrying => req[r].resume)
    /\ \A j \in Jobs : \A i \in DOMAIN rows[j] : rows[j][i].had => rows[j][i].resume

LEMMA ResumeStep ==
  ASSUME TypeInv, ResumeInv, [Next]_vars
  PROVE  ResumeInv'
<1>0. TypeOK /\ req \in [Requests -> Request] /\ rows \in [Jobs -> Seq(Row)] /\ faults["expiry"] \in Nat
  BY DEF TypeInv, TypeOK
<1>1. ASSUME NEW r \in Requests, Step(r) PROVE ResumeInv'
  <2>1. /\ reg' = reg \/ (reg # "absent" /\ reg' = "cv")
        /\ UNCHANGED rows \/ Insert(r)
        /\ UNCHANGED faults \/ \E k \in FaultKinds \ {"expiry"} : Fault(k)
    BY <1>1 DEF Step, Begin, LoadApply, LoadApplyFails, Read, Clears, ClearFails, Abandon, ClearAnswered,
       CheckCap, CheckCapFails, LoadProfile, LoadProfileFails, Profile, AskResume, AskResumeFails, Prompt,
       LookAnswer, LookUpload, Stage, Keep, ClearUploaded, StageFails, Insert, InsertSkipped, InsertFails, Fail, board, redis
  <2>2. faults'["expiry"] = faults["expiry"]
    BY <1>0, <2>1, FaultEffect
  <2>3. SUFFICES ASSUME faults["expiry"] = 0
                 PROVE  /\ \A q \in Requests : req'[q].at # "idle" /\ req'[q].had =>
                             reg' = "cv" /\ (req'[q].at \in Carrying => req'[q].resume)
                        /\ \A j \in Jobs : \A i \in DOMAIN rows'[j] : rows'[j][i].had => rows'[j][i].resume
    BY <2>2 DEF ResumeInv, InFlight
  <2>4. ASSUME NEW q \in Requests, req'[q].at # "idle", req'[q].had
        PROVE  reg' = "cv" /\ (req'[q].at \in Carrying => req'[q].resume)
    <3>1. Others(r) /\ (Starts(r) \/ (InFlight(r) /\ (req'[r] = Idle \/ Goes(r))))
      BY <1>1, ReqStep
    <3>2. CASE q # r
      BY <2>1, <2>3, <2>4, <3>1, <3>2 DEF Others, ResumeInv, InFlight
    <3>3. CASE q = r /\ Starts(r)
      <4>1. reg = "cv" /\ req'[q].at = "browse"
        BY <2>4, <3>3 DEF Starts
      <4>2. QED
        BY <2>1, <4>1 DEF Carrying, Chosen
    <3>4. CASE q = r /\ req'[r] = Idle
      BY <2>4, <3>4 DEF Idle
    <3>5. CASE q = r /\ Goes(r) /\ InFlight(r)
      <4>1. reg = "cv" /\ req[r].had
        BY <2>3, <2>4, <3>5 DEF Goes, ResumeInv
      <4>2. req[r].at \in Carrying => req[r].resume
        BY <2>3, <3>5, <4>1 DEF ResumeInv
      <4>3. Built(r)
        BY <4>1 DEF Built
      <4>4. req'[r].at \in Carrying => req'[r].resume
        BY <3>5, <4>2, <4>3 DEF Goes, Carrying
      <4>5. QED
        BY <2>1, <3>5, <4>1, <4>4
    <3>6. QED
      BY <3>1, <3>2, <3>3, <3>4, <3>5
  <2>5. ASSUME NEW j \in Jobs, NEW i \in DOMAIN rows'[j], rows'[j][i].had PROVE rows'[j][i].resume
    <3>1. CASE UNCHANGED rows
      BY <2>3, <2>5, <3>1 DEF ResumeInv
    <3>2. CASE Insert(r)
      <4> DEFINE row == [resume |-> req[r].resume, had |-> req[r].had]
      <4>1. /\ Job(r) \in Jobs /\ InFlight(r) /\ req[r].at = "insert" /\ row \in Row /\ Write(Job(r), row)
        BY <3>2, InsertFacts
      <4>2. row.had => row.resume
        BY <2>3, <4>1 DEF ResumeInv, Carrying, Chosen
      <4> HIDE DEF row
      <4>3. \/ i \in DOMAIN rows[j] /\ rows'[j][i] = rows[j][i]
           \/ rows'[j][i] = row
        BY <1>0, <2>5, <4>1, Writes
      <4>4. QED
        BY <2>3, <2>5, <4>2, <4>3 DEF ResumeInv
    <3>3. QED
      BY <2>1, <3>1, <3>2
  <2>6. QED
    BY <2>4, <2>5
<1>2. CASE Expire
  <2>1. faults'["expiry"] = faults["expiry"] + 1
    BY <1>0, <1>2, FaultEffect DEF Expire
  <2>2. QED
    BY <1>0, <2>1 DEF ResumeInv
<1>3. CASE OtherApplies \/ GoLive \/ UNCHANGED vars
  <2>1. UNCHANGED <<reg, rows, req, faults>>
    BY <1>3 DEF OtherApplies, GoLive, vars, redis, board
  <2>2. QED
    BY <2>1 DEF ResumeInv, InFlight
<1>4. QED
  BY <1>1, <1>2, <1>3 DEF Next
-----------------------------------------------------------------------------
(* The cap's check                                                         *)

(* A request past the check, and the jobs the flow has come to past it.    *)
Past(r) == InFlight(r) /\ (req[r].tap = "apply" => req[r].at \in {"profile", "prompt"})
Reached == {j \in Jobs : apply = j \/ rows[j] # <<>> \/ \E r \in Requests : Past(r) /\ Job(r) = j}

(* But for one per failed check, all of them were admitted.                *)
CapInv == Cardinality(Reached \ admitted) <= faults["cap"]

LEMMA Smaller ==
  ASSUME NEW S, NEW T, S \subseteq Jobs, T \subseteq Jobs
  PROVE  /\ IsFiniteSet(S) /\ Cardinality(S) \in Nat /\ Cardinality(T) \in Nat
         /\ T \subseteq S => Cardinality(T) <= Cardinality(S)
         /\ \A j \in Jobs : T \subseteq S \cup {j} => Cardinality(T) <= Cardinality(S) + 1
<1>1. IsFiniteSet(S) /\ IsFiniteSet(T)
  BY JobsAssumption, FS_Subset
<1>2. Cardinality(S) \in Nat /\ Cardinality(T) \in Nat
  BY <1>1, FS_CardinalityType
<1>3. T \subseteq S => Cardinality(T) <= Cardinality(S)
  BY <1>1, FS_Subset
<1>4. ASSUME NEW j \in Jobs, T \subseteq S \cup {j} PROVE Cardinality(T) <= Cardinality(S) + 1
  <2>1. IsFiniteSet(S \cup {j}) /\ Cardinality(S \cup {j}) \in {Cardinality(S), Cardinality(S) + 1}
    BY <1>1, FS_AddElement
  <2>2. Cardinality(T) <= Cardinality(S \cup {j})
    BY <1>4, <2>1, FS_Subset
  <2>3. QED
    BY <1>2, <2>1, <2>2
<1>5. QED
  BY <1>1, <1>2, <1>3, <1>4

LEMMA ReachedStep ==
  ASSUME TypeInv, NEW r \in Requests, Step(r), NEW j \in Jobs, j \in Reached', j \notin Reached
  PROVE  At(r, "cap") /\ req'[r] # Idle /\ j = Job(r)
<1>0. TypeOK /\ PlaceInv /\ req \in [Requests -> Request] /\ rows \in [Jobs -> Seq(Row)] /\ j # None
  BY PlaceFacts DEF TypeInv, TypeOK
<1>1. Others(r) /\ (Starts(r) \/ (InFlight(r) /\ (req'[r] = Idle \/ Goes(r))))
  BY ReqStep
<1>2. /\ apply' \in {apply, None} \/ (At(r, "prompt") /\ apply' = Job(r))
      /\ rows' = rows \/ Insert(r)
  BY DEF Step, Begin, LoadApply, LoadApplyFails, Read, Clears, ClearFails, Clear, Abandon, ClearAnswered,
     CheckCap, CheckCapFails, LoadProfile, LoadProfileFails, Profile, AskResume, AskResumeFails, Prompt,
     LookAnswer, LookUpload, Stage, Keep, ClearUploaded, StageFails, Insert, InsertSkipped, InsertFails, Fail, redis, board
<1>3. apply # j /\ rows[j] = <<>> /\ \A q \in Requests : Past(q) => Job(q) # j
  BY DEF Reached
<1>4. apply' # j
  BY <1>0, <1>2, <1>3 DEF Past, InFlight, At
<1>5. rows'[j] = <<>>
  <2>1. ASSUME Insert(r) PROVE rows'[j] = <<>>
    <3> DEFINE row == [resume |-> req[r].resume, had |-> req[r].had]
    <3>1. /\ Job(r) \in Jobs /\ InFlight(r) /\ req[r].tap # "apply" /\ row \in Row /\ Write(Job(r), row)
      BY <2>1, InsertFacts
    <3>2. Job(r) # j
      BY <1>3, <3>1 DEF Past
    <3> HIDE DEF row
    <3>3. QED
      BY <1>0, <1>3, <3>1, <3>2, Writes
  <2>2. QED
    BY <1>2, <1>3, <2>1
<1>6. PICK q \in Requests : Past(q)' /\ req'[q].job = j
  BY <1>4, <1>5 DEF Reached, Job
<1>7. q = r
  BY <1>1, <1>3, <1>6 DEF Others, Past, InFlight, Job
<1>8. ~Starts(r) /\ req'[r] # Idle
  BY <1>6, <1>7 DEF Starts, Past, InFlight, Idle
<1>9. Goes(r) /\ InFlight(r)
  BY <1>1, <1>8
<1>10. CASE req[r].tap = "apply"
  BY <1>3, <1>6, <1>7, <1>8, <1>9, <1>10 DEF Goes, Past, InFlight, Job, At
<1>11. CASE req[r].tap # "apply"
  BY <1>0, <1>3, <1>6, <1>7, <1>9, <1>11 DEF Goes, Past, Job
<1>12. QED
  BY <1>10, <1>11

LEMMA CapStep ==
  ASSUME TypeInv, CapInv, [Next]_vars
  PROVE  CapInv'
<1> DEFINE S == Reached \ admitted
           T == (Reached \ admitted)'
<1>0. /\ TypeOK /\ PlaceInv /\ faults["cap"] \in Nat /\ S \subseteq Jobs /\ T \subseteq Jobs
      /\ Cardinality(S) <= faults["cap"]
  BY DEF TypeInv, TypeOK, CapInv, Reached
<1>1. ASSUME NEW r \in Requests, Step(r), ~CheckCapFails(r) PROVE T \subseteq S
  <2>1. admitted \subseteq admitted'
    BY <1>1 DEF Step, Begin, LoadApply, LoadApplyFails, Read, Clears, ClearFails, Abandon, ClearAnswered,
       CheckCap, LoadProfile, LoadProfileFails, Profile, AskResume, AskResumeFails, Prompt,
       LookAnswer, LookUpload, Stage, Keep, ClearUploaded, StageFails, Insert, InsertSkipped, InsertFails, Fail, ghosts
  <2>2. ASSUME At(r, "cap"), req'[r] # Idle PROVE Job(r) \in admitted'
    <3>1. ~Finish(r)
      BY <1>0, <2>2, Finishes
    <3>2. CheckCap(r)
      BY <1>1, <2>2, <3>1 DEF Step, Begin, LoadApply, LoadApplyFails, Read, Clears, ClearFails, Abandon, ClearAnswered,
         LoadProfile, LoadProfileFails, Profile, AskResume, AskResumeFails, Prompt,
         LookAnswer, LookUpload, Stage, Keep, ClearUploaded, StageFails, Insert, InsertSkipped, InsertFails, Fail, At
    <3>3. ~(Used >= DailyCap)
      BY <3>1, <3>2 DEF CheckCap, CapReached
    <3>4. Used < DailyCap
      BY <1>0, <3>3, UsedNat, BoundsAssumption
    <3>5. QED
      BY <3>2, <3>4 DEF CheckCap
  <2>3. ASSUME NEW j \in T PROVE j \in S
    <3>1. j \in Jobs /\ j \in Reached' /\ j \notin admitted'
      BY DEF Reached
    <3>2. j \in Reached
      BY <1>1, <2>2, <3>1, ReachedStep
    <3>3. QED
      BY <2>1, <3>1, <3>2
  <2>4. QED
    BY <2>3
<1>2. ASSUME NEW r \in Requests, CheckCapFails(r) PROVE CapInv'
  <2>1. faults'["cap"] = faults["cap"] + 1 /\ UNCHANGED admitted
    BY <1>0, <1>2, FaultEffect DEF CheckCapFails, ghosts
  <2>2. Job(r) \in Jobs
    BY <1>0, <1>2 DEF CheckCapFails, At, PlaceInv, InFlight, Asking
  <2>3. \A j \in T : j \in S \/ j = Job(r)
    BY <1>2, <2>1, ReachedStep DEF Step, Reached
  <2>4. T \subseteq S \cup {Job(r)}
    BY <2>3
  <2> HIDE DEF S, T
  <2>5. Cardinality(T) <= Cardinality(S) + 1 /\ Cardinality(S) \in Nat /\ Cardinality(T) \in Nat
    BY <1>0, <2>2, <2>4, Smaller
  <2>6. Cardinality(T) <= faults'["cap"]
    BY <1>0, <2>1, <2>5
  <2>7. QED
    BY <2>6 DEF CapInv, T
<1>3. ASSUME T \subseteq S, UNCHANGED faults \/ \E k \in FaultKinds : Fault(k) PROVE CapInv'
  <2>1. faults'["cap"] \in Nat /\ faults'["cap"] >= faults["cap"]
    BY <1>0, <1>3, FaultEffect
  <2> HIDE DEF S, T
  <2>2. Cardinality(T) <= Cardinality(S) /\ Cardinality(S) \in Nat /\ Cardinality(T) \in Nat
    BY <1>0, <1>3, Smaller
  <2>3. Cardinality(T) <= faults'["cap"]
    BY <1>0, <2>1, <2>2
  <2>4. QED
    BY <2>3 DEF CapInv, T
<1>4. ASSUME NEW r \in Requests, Step(r) PROVE UNCHANGED faults \/ \E k \in FaultKinds : Fault(k)
  BY <1>4 DEF Step, Begin, LoadApply, LoadApplyFails, Read, Clears, ClearFails, Abandon, ClearAnswered,
     CheckCap, CheckCapFails, LoadProfile, LoadProfileFails, Profile, AskResume, AskResumeFails, Prompt,
     LookAnswer, LookUpload, Stage, Keep, ClearUploaded, StageFails, Insert, InsertSkipped, InsertFails, Fail
<1>5. CASE OtherApplies \/ GoLive \/ Expire \/ UNCHANGED vars
  <2>1. UNCHANGED <<rows, req, admitted>> /\ apply' \in {apply, None} /\ (UNCHANGED faults \/ \E k \in FaultKinds : Fault(k))
    BY <1>5 DEF OtherApplies, GoLive, Expire, vars, redis, board, ghosts
  <2>2. \A q \in Requests : Past(q)' = Past(q) /\ Job(q)' = Job(q)
    BY <2>1 DEF Past, InFlight, Job
  <2>3. Reached' \subseteq Reached
    BY <2>1, <2>2, PlaceFacts DEF Reached
  <2>4. T \subseteq S
    BY <2>1, <2>3
  <2>5. QED
    BY <1>3, <2>1, <2>4
<1>6. QED
  BY <1>1, <1>2, <1>3, <1>4, <1>5 DEF Next

-----------------------------------------------------------------------------
(* What the seeker was told                                                *)

Missing == {j \in told \ skipped : rows[j] = <<>>}
ToldInv == Cardinality(Missing) <= faults["redis"] + faults["db"]

LEMMA ToldStep ==
  ASSUME TypeInv, ToldInv, [Next]_vars
  PROVE  ToldInv'
<1> DEFINE S == Missing
           T == Missing'
           a == faults["redis"]
           b == faults["db"]
           c == faults'["redis"]
           d == faults'["db"]
<1>0. /\ TypeOK /\ TypeOK' /\ PlaceInv /\ rows \in [Jobs -> Seq(Row)] /\ a \in Nat /\ b \in Nat /\ S \subseteq Jobs /\ T \subseteq Jobs
      /\ c \in Nat /\ d \in Nat /\ Cardinality(S) <= a + b
  BY SMTT(30), TypeStep DEF TypeInv, TypeOK, ToldInv, Missing
<1>1. ASSUME UNCHANGED faults \/ \E k \in FaultKinds : Fault(k)
      PROVE  c >= a /\ d >= b
  BY <1>0, <1>1, FaultEffect
<1>2. \A j \in Jobs : rows[j] # <<>> => rows'[j] # <<>>
  <2>1. ASSUME NEW r \in Requests, Insert(r) PROVE \A j \in Jobs : rows[j] # <<>> => rows'[j] # <<>>
    <3> DEFINE row == [resume |-> req[r].resume, had |-> req[r].had]
    <3>1. Job(r) \in Jobs /\ row \in Row /\ Write(Job(r), row)
      BY <2>1, InsertFacts
    <3> HIDE DEF row
    <3>2. QED
      BY <1>0, <3>1, Writes
  <2>2. UNCHANGED rows \/ \E r \in Requests : Insert(r)
    BY DEF Next, Step, Begin, LoadApply, LoadApplyFails, Read, Clears, ClearFails, Abandon, ClearAnswered,
       CheckCap, CheckCapFails, LoadProfile, LoadProfileFails, Profile, AskResume, AskResumeFails, Prompt,
       LookAnswer, LookUpload, Stage, Keep, ClearUploaded, StageFails, InsertSkipped, InsertFails, Fail,
       OtherApplies, GoLive, Expire, board, vars
  <2>3. QED
    BY <2>1, <2>2
<1>3. ASSUME T \subseteq S, UNCHANGED faults \/ \E k \in FaultKinds : Fault(k) PROVE ToldInv'
  <2>1. c >= a /\ d >= b
    BY <1>1, <1>3
  <2> HIDE DEF S, T, a, b, c, d
  <2>2. Cardinality(T) <= Cardinality(S) /\ Cardinality(S) \in Nat /\ Cardinality(T) \in Nat
    BY <1>0, <1>3, Smaller
  <2>3. Cardinality(T) <= c + d
    BY <1>0, <2>1, <2>2
  <2>4. QED
    BY <2>3 DEF ToldInv, T, c, d
<1>4. ASSUME NEW j \in Jobs, T \subseteq S \cup {j}, Fault("redis") \/ Fault("db") PROVE ToldInv'
  <2>1. (c = a + 1 /\ d = b) \/ (c = a /\ d = b + 1)
    BY <1>0, <1>4, FaultEffect
  <2> HIDE DEF S, T, a, b, c, d
  <2>2. Cardinality(T) <= Cardinality(S) + 1 /\ Cardinality(S) \in Nat /\ Cardinality(T) \in Nat
    BY <1>0, <1>4, Smaller
  <2>3. Cardinality(T) <= c + d
    BY <1>0, <2>1, <2>2
  <2>4. QED
    BY <2>3 DEF ToldInv, T, c, d
<1>5. ASSUME UNCHANGED <<told, skipped>>, UNCHANGED faults \/ \E k \in FaultKinds : Fault(k) PROVE ToldInv'
  <2>1. T \subseteq S
    BY <1>0, <1>2, <1>5 DEF Missing, TypeOK
  <2>2. QED
    BY <1>3, <1>5, <2>1
<1>6. ASSUME NEW r \in Requests, Insert(r) PROVE ToldInv'
  <2>1. Job(r) \in Jobs /\ rows'[Job(r)] # <<>>
    <3> DEFINE row == [resume |-> req[r].resume, had |-> req[r].had]
    <3>1. Job(r) \in Jobs /\ row \in Row /\ Write(Job(r), row)
      BY <1>6, InsertFacts
    <3> HIDE DEF row
    <3>2. QED
      BY <1>0, <3>1, Writes
  <2>2. told' = told \cup {Job(r)} /\ UNCHANGED <<faults, skipped>>
    BY <1>6 DEF Insert
  <2>3. T \subseteq S
    BY <1>0, <1>2, <2>1, <2>2 DEF Missing, TypeOK
  <2>4. QED
    BY <1>3, <2>2, <2>3
<1>7. ASSUME NEW r \in Requests, InsertFails(r) PROVE ToldInv'
  <2>1. told' = told \cup {Job(r)} /\ skipped' = skipped /\ Fault("db") /\ Job(r) \in Jobs
    BY <1>0, <1>7 DEF InsertFails, At, InFlight, PlaceInv, Chosen
  <2>2. T \subseteq S \cup {Job(r)}
    BY <1>0, <1>2, <2>1 DEF Missing, TypeOK
  <2>3. QED
    BY <1>4, <2>1, <2>2
<1>8. ASSUME NEW r \in Requests, StageFails(r) PROVE ToldInv'
  <2>1. Fault("redis") /\ skipped' = skipped /\ (told' = told \/ told' = told \cup ({Job(r)} \ {None})) /\ Job(r) \in Jobs \cup {None}
    BY <1>0, <1>8, FullFacts DEF StageFails, InFlight, Job
  <2>2. CASE Job(r) \in Jobs
    <3>1. T \subseteq S \cup {Job(r)}
      BY <1>0, <1>2, <2>1 DEF Missing, TypeOK
    <3>2. QED
      BY <1>4, <2>1, <2>2, <3>1
  <2>3. CASE Job(r) \notin Jobs
    BY <1>5, <2>1, <2>3
  <2>4. QED
    BY <2>2, <2>3
<1>9. ASSUME NEW r \in Requests, Step(r), ~Insert(r), ~InsertSkipped(r), ~InsertFails(r), ~StageFails(r)
      PROVE  UNCHANGED <<told, skipped>> /\ (UNCHANGED faults \/ \E k \in FaultKinds : Fault(k))
  BY <1>9 DEF Step, Begin, LoadApply, LoadApplyFails, Read, Clears, ClearFails, Abandon, ClearAnswered,
     CheckCap, CheckCapFails, LoadProfile, LoadProfileFails, Profile, AskResume, AskResumeFails, Prompt,
     LookAnswer, LookUpload, Stage, Keep, ClearUploaded, Fail, ghosts
<1>10. CASE OtherApplies \/ GoLive \/ Expire \/ UNCHANGED vars
  BY <1>5, <1>10 DEF OtherApplies, GoLive, Expire, vars, ghosts
<1>11. ASSUME NEW r \in Requests, InsertSkipped(r) PROVE ToldInv'
  <2>1. told' = told \cup {Job(r)} /\ skipped' = skipped \cup {Job(r)} /\ UNCHANGED faults
    BY <1>11 DEF InsertSkipped
  <2>2. T \subseteq S
    BY <1>0, <1>2, <2>1 DEF Missing
  <2>3. QED
    BY <1>3, <2>1, <2>2
<1>12. QED
  BY <1>5, <1>6, <1>7, <1>8, <1>9, <1>10, <1>11 DEF Next

(* A seeker whose row is not in the job board has no application.          *)
StrangerInv == ~live => \A j \in Jobs : rows[j] = <<>>

LEMMA StrangerStep ==
  ASSUME StrangerInv, [Next]_vars
  PROVE  StrangerInv'
<1>1. (UNCHANGED live \/ live') /\ (UNCHANGED rows \/ live)
  BY DEF Next, Step, Begin, LoadApply, LoadApplyFails, Read, Clears, ClearFails, Abandon, ClearAnswered,
     CheckCap, CheckCapFails, LoadProfile, LoadProfileFails, Profile, AskResume, AskResumeFails, Prompt,
     LookAnswer, LookUpload, Stage, Keep, ClearUploaded, StageFails, Insert, InsertSkipped, InsertFails, Fail,
     OtherApplies, GoLive, Expire, board, fixed, seeker, vars
<1>2. QED
  BY <1>1 DEF StrangerInv

-----------------------------------------------------------------------------
(* The theorems *)

IndInv == TypeInv /\ OneApplication /\ ResumeInv /\ CapInv /\ ToldInv /\ StrangerInv

LEMMA Inductive == Spec => []IndInv
<1>1. Init => IndInv
  <2> SUFFICES ASSUME Init PROVE IndInv
    OBVIOUS
  <2>1. /\ apply = None /\ told = {} /\ (\A j \in Jobs : rows[j] = <<>>) /\ \A r \in Requests : ~InFlight(r)
        /\ \A k \in FaultKinds : faults[k] = 0
    BY DEF Init, InFlight, Idle
  <2>2. OneApplication /\ ResumeInv /\ StrangerInv
    BY <2>1 DEF OneApplication, ResumeInv, StrangerInv
  <2>3. Reached = {}
    BY <2>1, PlaceFacts DEF Reached, Past
  <2>4. CapInv
    <3>1. Reached \ admitted = {} /\ faults["cap"] = 0
      BY <2>1, <2>3
    <3>2. QED
      BY <3>1, FS_EmptySet DEF CapInv
  <2>5. ToldInv
    <3>1. Missing = {} /\ faults["redis"] = 0 /\ faults["db"] = 0
      BY <2>1 DEF Missing
    <3>2. QED
      BY <3>1, FS_EmptySet DEF ToldInv
  <2>6. QED
    BY <2>2, <2>4, <2>5, TypeInit DEF IndInv
<1>2. IndInv /\ [Next]_vars => IndInv'
  BY TypeStep, OnceStep, ResumeStep, CapStep, ToldStep, StrangerStep DEF IndInv
<1>3. QED
  BY <1>1, <1>2, PTL DEF Spec

(* The chat's and the upload page's steps keep every variable of its type. *)
THEOREM TypeCorrect == Spec => []TypeOK
<1>1. IndInv => TypeOK
  BY DEF IndInv, TypeInv
<1>2. QED
  BY <1>1, Inductive, PTL

(* ApplicationRepository.create leaves one row per job to a seeker with a  *)
(* profile, however many chat answers and uploads finish the same one.     *)
THEOREM AppliedOnce == Spec => []OneApplication
<1>1. IndInv => OneApplication
  BY DEF IndInv
<1>2. QED
  BY <1>1, Inductive, PTL

(* A row needs a tap that came before the cap, or a check that failed; it  *)
(* carries the resume on file; and a seeker told to have applied is in the *)
(* employer's list, but for a failed write or a seeker who was then not in *)
(* the job board, and who until then has no application at all.            *)
THEOREM ApplicationsStaySound == Spec => []ApplicationsSound
<1>1. ASSUME IndInv PROVE ApplicationsSound
  <2>1. TypeOK /\ ResumeInv /\ CapInv /\ ToldInv /\ StrangerInv /\ faults["cap"] \in Nat
    BY <1>1 DEF IndInv, TypeInv, TypeOK
  <2>2. Cardinality({j \in Jobs : rows[j] # <<>>} \ admitted) <= faults["cap"]
    <3> DEFINE S == Reached \ admitted
               T == {j \in Jobs : rows[j] # <<>>} \ admitted
    <3>1. T \subseteq S /\ S \subseteq Jobs /\ T \subseteq Jobs /\ Cardinality(S) <= faults["cap"]
      BY <2>1 DEF Reached, CapInv
    <3> HIDE DEF S, T
    <3>2. Cardinality(T) <= Cardinality(S) /\ Cardinality(S) \in Nat /\ Cardinality(T) \in Nat
      BY <3>1, Smaller
    <3>3. Cardinality(T) <= faults["cap"]
      BY <2>1, <3>1, <3>2
    <3>4. QED
      BY <3>3 DEF T
  <2>3. RowsSound
    BY <2>1, <2>2 DEF RowsSound, ResumeInv
  <2>4. AppliedIsRecorded
    BY <2>1 DEF AppliedIsRecorded, ToldInv, Missing, StrangerInv
  <2>5. QED
    BY <2>3, <2>4 DEF ApplicationsSound
<1>2. QED
  BY <1>1, Inductive, PTL
=============================================================================
