----------------------------- MODULE JobPosting -----------------------------
(***************************************************************************)
(* Posting jobs for one employer: the form stages a draft under the link's *)
(* token, the activate route posts it against the wallet or the plan, and  *)
(* a shortfall of job credits is bought through Razorpay, after which the  *)
(* verify route credits the purchase and posts the draft.                  *)
(*                                                                         *)
(* A request is a process with one action per awaited operation. Both      *)
(* routes quote the job first and charge it later, reading the plan's free *)
(* slots, the draft and the wallet anew.                                   *)
(*                                                                         *)
(* The live writes are on (job_post_in_db, credits_purchase_in_db); with   *)
(* payments_in_db off an order lives in Redis only (CreditPurchase models  *)
(* the other case). The plan, when there is one, is active throughout.     *)
(***************************************************************************)
EXTENDS Integers, Sequences, FiniteSets

CONSTANTS
  Jobs,          (* submitted job forms; each submission builds a new job id     *)
  Tokens,        (* "Post a Job" links                                           *)
  Link,          (* the link each form was submitted through                     *)
  Districts,     (* candidate districts of each job: its price in credits        *)
  Orders,        (* executions of the credits/order route, and their orders      *)
  Requests,      (* executions of the activate and of the verify route           *)
  Opening,       (* credits in both wallets at the start                         *)
  Slots,         (* maxActiveJobs of the active plan, 0 without a plan           *)
  MaxLocations,  (* maxLocationsPerJob of the plan                               *)
  NoJob, NoToken, NoOrder, NoRecord,
  MaxFaults      (* bound on each kind of fault in a behaviour                   *)

FaultKinds == {"crash", "db", "recordLost"}
Actors     == Orders \cup Requests

EmployerRecord == [credits: Nat, listed: [Jobs -> Nat]]
LedgerRow == [kind: {"purchase", "post"}, ref: Orders \cup Jobs, amount: Nat, balance: Nat]

ASSUME LinkAssumption      == Link \in [Jobs -> Tokens]
ASSUME DistrictsAssumption == Districts \in [Jobs -> Nat \ {0}]
ASSUME CountsAssumption    == Opening \in Nat /\ Slots \in Nat /\ MaxLocations \in Nat
ASSUME ActorsAssumption    == Orders \cap Requests = {} /\ Orders \cap Jobs = {}
ASSUME NoneAssumption      == /\ NoJob \notin Jobs /\ NoToken \notin Tokens
                              /\ NoOrder \notin Orders /\ NoRecord \notin EmployerRecord
ASSUME LimitsAssumption    == MaxFaults \in [FaultKinds -> Nat]

VARIABLES
  draft,       (* the job staged under each link                                 *)
  submitted,   (* jobs whose form has been submitted                             *)
  employer,    (* the employer record in Redis                                   *)
  live,        (* credit_wallets.jobCredits                                      *)
  ledger,      (* credit_ledger rows, oldest first                               *)
  posted,      (* ids in private_jobs                                            *)
  creditsUsed, (* private_jobs.creditsUsed of the posted jobs                    *)
  paid,        (* orders whose payment was captured                              *)
  buy,         (* credits in each order's context                                *)
  pending,     (* orders whose context can still be loaded                       *)
  pc,          (* each actor: its next awaited operation                         *)
  token, order,(* each actor: the link and the order it works on                 *)
  job, need,   (* each actor: the draft it has read and its price                *)
  snap,        (* each actor: the record it read and has not written back        *)
  faults,      (* faults so far, by kind                                         *)
  collided,    (* history: two read-modify-writes of the record met              *)
  overlapped   (* history: two routes were in progress at once                   *)

liveVars  == <<live, ledger, posted, creditsUsed>>
orderVars == <<paid, buy, pending>>
actorVars == <<token, order, job, need>>
history   == <<collided, overlapped>>
vars == <<draft, submitted, employer, liveVars, orderVars, pc, actorVars, snap, faults, history>>

Updates == {"credit", "debit", "list", "last"}
Steps   == {"plan", "balance", "load", "purchase", "purchaseApply", "finalize", "cover",
            "clearDraft", "bill", "billApply", "clearOrder"} \cup Updates
Resting == {"idle", "refused", "offered", "sufficient", "unknown", "done", "crashed"}

InProgress(a) == pc[a] \in Steps
Purchases == {i \in 1..Len(ledger) : ledger[i].kind = "purchase"}
Posts     == {i \in 1..Len(ledger) : ledger[i].kind = "post"}

Init ==
  /\ draft = [t \in Tokens |-> NoJob]
  /\ submitted = {}
  /\ employer = [credits |-> Opening, listed |-> [j \in Jobs |-> 0]]
  /\ live = Opening
  /\ ledger = <<>>
  /\ posted = {}
  /\ creditsUsed = [j \in Jobs |-> 0]
  /\ paid = {}
  /\ buy = [o \in Orders |-> 0]
  /\ pending = {}
  /\ pc = [a \in Actors |-> "idle"]
  /\ token = [a \in Actors |-> NoToken]
  /\ order = [a \in Actors |-> NoOrder]
  /\ job = [a \in Actors |-> NoJob]
  /\ need = [a \in Actors |-> 0]
  /\ snap = [a \in Actors |-> NoRecord]
  /\ faults = [k \in FaultKinds |-> 0]
  /\ collided = FALSE
  /\ overlapped = FALSE

Goto(a, step) == pc' = [pc EXCEPT ![a] = step]

Fault(k) ==
  /\ faults[k] < MaxFaults[k]
  /\ faults' = [faults EXCEPT ![k] = @ + 1]

(* A route starts, whatever else is in progress. *)
Serve(a) ==
  /\ pc[a] = "idle"
  /\ overlapped' = (overlapped \/ \E b \in Actors : InProgress(b))

-----------------------------------------------------------------------------
(* POST /employer/post-job/submit                                          *)

(* stage_job_draft replaces what the link had staged. The wallet is seeded *)
(* already, so ensure_wallet only reads.                                   *)
Submit(j) ==
  /\ j \notin submitted
  /\ employer # NoRecord
  /\ submitted' = submitted \cup {j}
  /\ draft' = [draft EXCEPT ![Link[j]] = j]
  /\ UNCHANGED <<employer, liveVars, orderVars, pc, actorVars, snap, faults, history>>

-----------------------------------------------------------------------------
(* The environment *)

(* Razorpay checkout of an offered order: the payment is captured. *)
Pay(o) ==
  /\ pc[o] = "offered"
  /\ o \notin paid
  /\ paid' = paid \cup {o}
  /\ UNCHANGED <<draft, submitted, employer, liveVars, buy, pending, pc, actorVars, snap, faults, history>>

(* The employer record expires or is evicted. *)
LoseRecord ==
  /\ employer # NoRecord
  /\ Fault("recordLost")
  /\ employer' = NoRecord
  /\ UNCHANGED <<draft, submitted, liveVars, orderVars, pc, actorVars, snap, history>>

-----------------------------------------------------------------------------
(* The quote, shared by post-job/activate and post-job/credits/order *)

(* get_job_draft: a link without a draft is answered "expired". *)
Quote(a, t) ==
  /\ Serve(a)
  /\ draft[t] # NoJob
  /\ job' = [job EXCEPT ![a] = draft[t]]
  /\ token' = [token EXCEPT ![a] = t]
  /\ Goto(a, "plan")
  /\ UNCHANGED <<draft, submitted, employer, liveVars, orderVars, order, need, snap, faults, collided>>

(* Mutant: the last slot is handed out twice. *)
PlanCoversOneMore(j, used) ==
  /\ employer # NoRecord
  /\ Districts[j] <= MaxLocations
  /\ used <= Slots

(* _plan_covers_post: the plan has a free slot and allows the districts.   *)
(* Without the record the employer id, and so the plan, is unknown.        *)
PlanCovers(j, used) ==
  /\ employer # NoRecord
  /\ Districts[j] <= MaxLocations
  /\ used < Slots

(* count_active_for_employer counts the rows of private_jobs. *)
CoveredNow(j) == PlanCovers(j, Cardinality(posted))

(* A failing read of the plan means no plan; one of the count means 0. *)
CoveredBlindly(j) == {FALSE, PlanCovers(j, 0)}

(* A covered post needs no credits. *)
Quoted(a, covered) ==
  /\ pc[a] = "plan"
  /\ Goto(a, IF ~covered THEN "balance" ELSE IF a \in Orders THEN "sufficient" ELSE "finalize")
  /\ UNCHANGED <<draft, submitted, employer, liveVars, orderVars, actorVars, snap, history>>

QuotePlan(a) == Quoted(a, CoveredNow(job[a])) /\ UNCHANGED faults

QuotePlanFails(a) ==
  /\ pc[a] = "plan"
  /\ Fault("db")
  /\ \E c \in CoveredBlindly(job[a]) : Quoted(a, c)

(* The quote: the wallet suffices, the activation is refused, or an order  *)
(* for the shortfall is created, staged and offered.                       *)
Answer(a, have) ==
  \/ /\ Districts[job[a]] <= have
     /\ Goto(a, IF a \in Orders THEN "sufficient" ELSE "finalize")
     /\ UNCHANGED orderVars
  \/ /\ Districts[job[a]] > have /\ a \in Requests
     /\ Goto(a, "refused")
     /\ UNCHANGED orderVars
  \/ /\ Districts[job[a]] > have /\ a \in Orders
     /\ Goto(a, "offered")
     /\ buy' = [buy EXCEPT ![a] = Districts[job[a]] - have]
     /\ pending' = pending \cup {a}
     /\ UNCHANGED paid

(* The live balance decides. *)
QuoteBalance(a) ==
  /\ pc[a] = "balance"
  /\ Answer(a, IF employer = NoRecord THEN 0 ELSE live)
  /\ UNCHANGED <<draft, submitted, employer, liveVars, actorVars, snap, faults, history>>

(* The read fails and counts as "no live wallet": Redis is believed. *)
QuoteBalanceFails(a) ==
  /\ pc[a] = "balance"
  /\ Fault("db")
  /\ Answer(a, IF employer = NoRecord THEN 0 ELSE employer.credits)
  /\ UNCHANGED <<draft, submitted, employer, liveVars, actorVars, snap, history>>

-----------------------------------------------------------------------------
(* Read-modify-writes of the employer record *)

(* What follows an update, done or skipped for lack of a record. *)
After(a) ==
  CASE pc[a] = "credit" -> "purchase"
    [] pc[a] = "debit"  -> "list"
    [] pc[a] = "list"   -> "last"
    [] pc[a] = "last"   -> "clearDraft"

OthersInUpdate(a) == \E b \in Actors \ {a} : snap[b] # NoRecord

(* get_employer inside grant_credits, add_employer_job, update_employer. *)
ReadRecord(a) ==
  /\ pc[a] \in Updates
  /\ snap[a] = NoRecord
  /\ IF employer = NoRecord
     THEN Goto(a, After(a)) /\ UNCHANGED <<snap, history>>
     ELSE /\ snap' = [snap EXCEPT ![a] = employer]
          /\ collided' = (collided \/ OthersInUpdate(a))
          /\ UNCHANGED pc
  /\ UNCHANGED <<draft, submitted, employer, liveVars, orderVars, actorVars, faults, overlapped>>

(* max(0, credits - need) *)
Debited(credits, n) == IF n <= credits THEN credits - n ELSE 0

(* Mutant: the debit is not floored. *)
EditUnfloored(a, rec) ==
  CASE pc[a] = "credit" -> [rec EXCEPT !.credits = @ + buy[order[a]]]
    [] pc[a] = "debit"  -> [rec EXCEPT !.credits = @ - need[a]]
    [] pc[a] = "list"   -> [rec EXCEPT !.listed[job[a]] = @ + 1]
    [] pc[a] = "last"   -> rec

(* What the update changes; lastActivated is display only. *)
Edit(a, rec) ==
  CASE pc[a] = "credit" -> [rec EXCEPT !.credits = @ + buy[order[a]]]
    [] pc[a] = "debit"  -> [rec EXCEPT !.credits = Debited(@, need[a])]
    [] pc[a] = "list"   -> [rec EXCEPT !.listed[job[a]] = @ + 1]
    [] pc[a] = "last"   -> rec

(* save_employer: the whole record is written back. *)
WriteRecord(a) ==
  /\ pc[a] \in Updates
  /\ snap[a] # NoRecord
  /\ employer' = Edit(a, snap[a])
  /\ snap' = [snap EXCEPT ![a] = NoRecord]
  /\ Goto(a, After(a))
  /\ UNCHANGED <<draft, submitted, liveVars, orderVars, actorVars, faults, history>>

-----------------------------------------------------------------------------
(* POST /employer/post-job/credits/verify, up to _finalize_job *)

(* verify_payment accepts a captured payment. *)
Verify(r, o) ==
  /\ Serve(r)
  /\ o \in paid
  /\ order' = [order EXCEPT ![r] = o]
  /\ token' = [token EXCEPT ![r] = token[o]]
  /\ Goto(r, "load")
  /\ UNCHANGED <<draft, submitted, employer, liveVars, orderVars, job, need, snap, faults, collided>>

(* _load_pending_order. *)
LoadPending(r) ==
  /\ pc[r] = "load"
  /\ Goto(r, IF order[r] \in pending THEN "credit" ELSE "unknown")
  /\ UNCHANGED <<draft, submitted, employer, liveVars, orderVars, actorVars, snap, faults, history>>

Bought(o) == \E i \in Purchases : ledger[i].ref = o

(* record_purchase looks for the payment; without a record the employer id *)
(* is unknown and the purchase is not recorded.                            *)
PurchaseCheck(r) ==
  /\ pc[r] = "purchase"
  /\ Goto(r, IF employer # NoRecord /\ ~Bought(order[r]) THEN "purchaseApply" ELSE "finalize")
  /\ UNCHANGED <<draft, submitted, employer, liveVars, orderVars, actorVars, snap, faults, history>>

PurchaseApply(r) ==
  LET o == order[r] IN
  /\ pc[r] = "purchaseApply"
  /\ live' = live + buy[o]
  /\ ledger' = Append(ledger, [kind |-> "purchase", ref |-> o, amount |-> buy[o],
                               balance |-> live + buy[o]])
  /\ Goto(r, "finalize")
  /\ UNCHANGED <<draft, submitted, employer, posted, creditsUsed, orderVars, actorVars, snap,
                 faults, history>>

PurchaseFails(r) ==
  /\ pc[r] = "purchaseApply"
  /\ Fault("db")
  /\ Goto(r, "finalize")
  /\ UNCHANGED <<draft, submitted, employer, liveVars, orderVars, actorVars, snap, history>>

-----------------------------------------------------------------------------
(* _finalize_job *)

(* What follows _finalize_job. *)
Finished(r) == IF order[r] = NoOrder THEN "done" ELSE "clearOrder"

(* get_job_draft again; the link may have been submitted anew, or used. *)
Finalize(r) ==
  /\ pc[r] = "finalize"
  /\ IF draft[token[r]] = NoJob
     THEN Goto(r, Finished(r)) /\ UNCHANGED job
     ELSE Goto(r, "cover") /\ job' = [job EXCEPT ![r] = draft[token[r]]]
  /\ UNCHANGED <<draft, submitted, employer, liveVars, orderVars, token, order, need, snap,
                 faults, history>>

(* _plan_covers_post again. *)
Covered(r, covered) ==
  /\ pc[r] = "cover"
  /\ need' = [need EXCEPT ![r] = IF covered THEN 0 ELSE Districts[job[r]]]
  /\ Goto(r, IF covered THEN "list" ELSE "debit")
  /\ UNCHANGED <<draft, submitted, employer, liveVars, orderVars, token, order, job, snap, history>>

Cover(r) == Covered(r, CoveredNow(job[r])) /\ UNCHANGED faults

CoverFails(r) ==
  /\ pc[r] = "cover"
  /\ Fault("db")
  /\ \E c \in CoveredBlindly(job[r]) : Covered(r, c)

(* Mutant: the draft outlives its activation. *)
ClearDraftLater(r) ==
  /\ pc[r] = "clearDraft"
  /\ Goto(r, "bill")
  /\ UNCHANGED <<draft, submitted, employer, liveVars, orderVars, actorVars, snap, faults, history>>

ClearDraft(r) ==
  /\ pc[r] = "clearDraft"
  /\ draft' = [draft EXCEPT ![token[r]] = NoJob]
  /\ Goto(r, "bill")
  /\ UNCHANGED <<submitted, employer, liveVars, orderVars, actorVars, snap, faults, history>>

(* post_job_with_billing: SELECT 1 FROM private_jobs. *)
BillCheck(r) ==
  /\ pc[r] = "bill"
  /\ Goto(r, IF job[r] \in posted THEN Finished(r) ELSE "billApply")
  /\ UNCHANGED <<draft, submitted, employer, liveVars, orderVars, actorVars, snap, faults, history>>

Charge(j, n) ==
  /\ live' = Debited(live, n)
  /\ posted' = posted \cup {j}
  /\ creditsUsed' = [creditsUsed EXCEPT ![j] = n]
  /\ ledger' = IF n = 0 THEN ledger
               ELSE Append(ledger, [kind |-> "post", ref |-> j, amount |-> n,
                                    balance |-> Debited(live, n)])

(* Mutant: a second row for the job is not refused. *)
BillApplyAnyway(r) ==
  /\ pc[r] = "billApply"
  /\ Charge(job[r], need[r])
  /\ Goto(r, Finished(r))
  /\ UNCHANGED <<draft, submitted, employer, orderVars, actorVars, snap, faults, history>>

(* The debit, the row and its ledger entry, in one transaction. The        *)
(* primary key of private_jobs refuses a second row for the job and rolls  *)
(* the debit back.                                                         *)
BillApply(r) ==
  /\ pc[r] = "billApply"
  /\ IF job[r] \in posted THEN UNCHANGED liveVars ELSE Charge(job[r], need[r])
  /\ Goto(r, Finished(r))
  /\ UNCHANGED <<draft, submitted, employer, orderVars, actorVars, snap, faults, history>>

BillFails(r) ==
  /\ pc[r] \in {"bill", "billApply"}
  /\ Fault("db")
  /\ Goto(r, Finished(r))
  /\ UNCHANGED <<draft, submitted, employer, liveVars, orderVars, actorVars, snap, history>>

-----------------------------------------------------------------------------
(* The end of the verify route *)

ClearOrder(r) ==
  /\ pc[r] = "clearOrder"
  /\ pending' = pending \ {order[r]}
  /\ Goto(r, "done")
  /\ UNCHANGED <<draft, submitted, employer, liveVars, paid, buy, actorVars, snap, faults, history>>

(* The worker dies, or a Redis command raises. *)
Crash(a) ==
  /\ InProgress(a)
  /\ Fault("crash")
  /\ snap' = [snap EXCEPT ![a] = NoRecord]
  /\ Goto(a, "crashed")
  /\ UNCHANGED <<draft, submitted, employer, liveVars, orderVars, actorVars, history>>

-----------------------------------------------------------------------------
Route(a) ==
  \/ \E t \in Tokens : Quote(a, t)
  \/ QuotePlan(a) \/ QuotePlanFails(a) \/ QuoteBalance(a) \/ QuoteBalanceFails(a)
  \/ Crash(a)

(* Requests only: an order route ends with its answer. *)
Posting(r) ==
  \/ \E o \in Orders : Verify(r, o)
  \/ LoadPending(r) \/ PurchaseCheck(r) \/ PurchaseApply(r) \/ PurchaseFails(r)
  \/ Finalize(r) \/ Cover(r) \/ CoverFails(r)
  \/ ReadRecord(r) \/ WriteRecord(r)
  \/ ClearDraft(r) \/ BillCheck(r) \/ BillApply(r) \/ BillFails(r)
  \/ ClearOrder(r)

Next ==
  \/ \E j \in Jobs : Submit(j)
  \/ \E o \in Orders : Pay(o)
  \/ LoseRecord
  \/ \E a \in Actors : Route(a)
  \/ \E r \in Requests : Posting(r)

Spec == Init /\ [][Next]_vars

-----------------------------------------------------------------------------
(* Properties *)

(* Type invariant. *)
TypeOK ==
  /\ draft \in [Tokens -> Jobs \cup {NoJob}]
  /\ submitted \in SUBSET Jobs
  /\ employer \in EmployerRecord \cup {NoRecord}
  /\ live \in Nat
  /\ ledger \in Seq(LedgerRow)
  /\ posted \in SUBSET Jobs
  /\ creditsUsed \in [Jobs -> Nat]
  /\ paid \in SUBSET Orders
  /\ buy \in [Orders -> Nat]
  /\ pending \in SUBSET Orders
  /\ pc \in [Actors -> Steps \cup Resting]
  /\ token \in [Actors -> Tokens \cup {NoToken}]
  /\ order \in [Actors -> Orders \cup {NoOrder}]
  /\ job \in [Actors -> Jobs \cup {NoJob}]
  /\ need \in [Actors -> Nat]
  /\ snap \in [Actors -> EmployerRecord \cup {NoRecord}]
  /\ faults \in [FaultKinds -> Nat]
  /\ collided \in BOOLEAN /\ overlapped \in BOOLEAN

(* post_job_with_billing is "Idempotent on the job": however many requests *)
(* activate a draft, the live wallet is debited for it once, by the amount *)
(* its private_jobs row shows, and never without a row. The floor at 0 of  *)
(* _apply_delta forgives a part of it only where a fault intervened, where *)
(* another post was charged before, where the form was submitted again     *)
(* under the link, or where an overlapping route took the plan's free slot *)
(* that the quote counted on: after the quote nobody asks what the post    *)
(* costs and what there is.                                                *)
ChargedOnce ==
  /\ \A i, k \in Posts : ledger[i].ref = ledger[k].ref => i = k
  /\ \A j \in Jobs :
       (j \in posted /\ creditsUsed[j] > 0) <=>
         \E i \in Posts : ledger[i].ref = j /\ ledger[i].amount = creditsUsed[j]
  /\ \A i \in Posts :
       \/ ledger[i].amount <= IF i = 1 THEN Opening ELSE ledger[i-1].balance
       \/ \E k \in Posts : k < i
       \/ \E j \in submitted \ {ledger[i].ref} : Link[j] = Link[ledger[i].ref]
       \/ overlapped /\ \E j \in posted : creditsUsed[j] = 0
       \/ \E k \in FaultKinds : faults[k] > 0

(* A plan covers a post only while "the employer is under their plan's     *)
(* maxActiveJobs slot cap" (_plan_covers_post): never more free posts than *)
(* slots, while routes are served one at a time, and one more at most for  *)
(* each failing read, which counts the jobs as none.                       *)
CoveredWithinSlots ==
  ~overlapped => Cardinality({j \in posted : creditsUsed[j] = 0}) <= Slots + faults["db"]

(* A posted job is in the employer's job list in Redis, unless the record  *)
(* was lost or two updates of it met. Served one at a time, a draft enters *)
(* the list once, and once more at most for every crash: clear_job_draft   *)
(* takes it away before the next activation can read it.                   *)
ListedOncePerCrash ==
  employer # NoRecord =>
    /\ ~collided /\ faults["recordLost"] = 0 => \A j \in posted : employer.listed[j] > 0
    /\ ~overlapped => \A j \in Jobs : employer.listed[j] <= 1 + faults["crash"]
=============================================================================
