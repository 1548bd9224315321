--------------------------- MODULE CreditPurchase ---------------------------
(***************************************************************************)
(* Buying credits for one employer: the order route, the Razorpay checkout *)
(* and the verify route, which grants the credits to the employer record   *)
(* in Redis and records the purchase in the live billing tables.           *)
(*                                                                         *)
(* Every `await` on Redis, Postgres or Razorpay is a place where another   *)
(* request may run (one asyncio worker) or is running (two workers), so a  *)
(* verify request is a process with one action per awaited operation.      *)
(* Nothing serialises two requests for the same order.                     *)
(*                                                                         *)
(* A pack or bundle may touch three buckets (job, unlock, boost) at once,  *)
(* always in one SETEX or one transaction; the model has a single bucket.  *)
(***************************************************************************)
EXTENDS Integers, Sequences

CONSTANTS
  Orders,         (* Razorpay orders; an order has at most one captured payment *)
  Requests,       (* executions of the verify route                             *)
  Grant,          (* credits bought by each order                               *)
  WelcomeCredits, (* WELCOME_JOB_CREDITS, the opening balance                   *)
  NoOrder,        (* "no order": nothing bought yet, or a foreign ledger row    *)
  NoRecord,       (* Redis holds no record for the employer                     *)
  PaymentsInDb,   (* settings.payments_in_db                                    *)
  PurchaseInDb,   (* settings.credits_purchase_in_db                            *)
  MaxFaults       (* bound on each kind of fault in a behaviour                 *)

FaultKinds == {"crash", "db", "orderLost", "recordLost", "foreign"}

EmployerRecord == [credits: Nat, lastPurchase: Orders \cup {NoOrder}]
LedgerRow      == [ref: Orders \cup {NoOrder}, amount: Int, balance: Nat]

ASSUME GrantAssumption   == Grant \in [Orders -> Nat \ {0}]
ASSUME WelcomeAssumption == WelcomeCredits \in Nat
ASSUME NoOrderAssumption == NoOrder \notin Orders
ASSUME NoRecordAssumption == NoRecord \notin EmployerRecord
ASSUME FlagsAssumption   == /\ PaymentsInDb \in BOOLEAN
                            /\ PurchaseInDb \in BOOLEAN
ASSUME FaultsAssumption  == MaxFaults \in [FaultKinds -> Nat]

VARIABLES
  phase,       (* how far the order route got                                   *)
  staged,      (* orders whose context is in Redis (employer:payorder:<id>)     *)
  linked,      (* orders whose context carries an employer_id                   *)
  payment,     (* private_payments.status of the order's row                    *)
  checkout,    (* what Razorpay answers for the order's payment                 *)
  employer,    (* the employer record in Redis                                  *)
  live,        (* credit_wallets balance                                        *)
  ledger,      (* credit_ledger rows, oldest first                              *)
  pc, target,  (* each request: its next await, and the order it verifies       *)
  snap,        (* each request: the record it read and has not written back     *)
  granted,     (* each request: grant_credits returned balances (bal)           *)
  faults,      (* faults so far, by kind                                        *)
  redisGrants, (* history: grants of each order written to Redis                *)
  redisTotal,  (* history: the credits of those grants, all orders together     *)
  blemishes,   (* history: requests that granted, then crashed or failed to mark*)
  collided,    (* history: a read-modify-write of the record met another one    *)
  contested    (* history: orders verified again while a verify was in progress *)

routeVars   == <<phase, staged, linked>>
billingVars == <<payment, live, ledger>>
requestVars == <<pc, target, snap, granted>>
history     == <<redisGrants, redisTotal, blemishes, collided, contested>>
vars == <<routeVars, checkout, employer, billingVars, requestVars, faults, history>>

Resting == {"idle", "rejected", "unknown", "ok", "crashed"}
Steps   == {"load", "loadDb", "grantRead", "grantWrite", "updateRead", "updateWrite",
            "record", "recordApply", "mark", "clear"}

InProgress(r) == pc[r] \in Steps

(* A request whose grant has been written to Redis and is not yet answered. *)
HasGranted(r) == granted[r] /\ InProgress(r)

(* The newest balance of the live wallet according to its ledger. *)
LedgerBalance == IF ledger = <<>> THEN WelcomeCredits ELSE ledger[Len(ledger)].balance

(* SELECT 1 FROM credit_ledger WHERE "referenceId" = :r *)
Recorded(o) == \E i \in 1..Len(ledger) : ledger[i].ref = o

Init ==
  /\ phase = [o \in Orders |-> "none"]
  /\ staged = {}
  /\ linked = {}
  /\ payment = [o \in Orders |-> "absent"]
  /\ checkout = [o \in Orders |-> "unpaid"]
  /\ employer = [credits |-> WelcomeCredits, lastPurchase |-> NoOrder]
  /\ live = WelcomeCredits
  /\ ledger = <<>>
  /\ pc = [r \in Requests |-> "idle"]
  /\ target = [r \in Requests |-> NoOrder]
  /\ snap = [r \in Requests |-> NoRecord]
  /\ granted = [r \in Requests |-> FALSE]
  /\ faults = [k \in FaultKinds |-> 0]
  /\ redisGrants = [o \in Orders |-> 0]
  /\ redisTotal = 0
  /\ blemishes = [o \in Orders |-> 0]
  /\ collided = FALSE
  /\ contested = {}

Fault(k) ==
  /\ faults[k] < MaxFaults[k]
  /\ faults' = [faults EXCEPT ![k] = @ + 1]

-----------------------------------------------------------------------------
(* POST /employer/buy-credits/order *)

(* rzp.create_order succeeded; the order id exists at Razorpay only. *)
CreateOrder(o) ==
  /\ phase[o] = "none"
  /\ phase' = [phase EXCEPT ![o] = "created"]
  /\ UNCHANGED <<staged, linked, checkout, employer, billingVars, requestVars, faults, history>>

(* get_employer for the employer_id, then stage_payment_order. *)
StageOrder(o) ==
  /\ phase[o] = "created"
  /\ phase' = [phase EXCEPT ![o] = "staged"]
  /\ staged' = staged \cup {o}
  /\ linked' = IF employer = NoRecord THEN linked ELSE linked \cup {o}
  /\ UNCHANGED <<checkout, employer, billingVars, requestVars, faults, history>>

(* _persist_payment_order, then the response that tells the client the id. *)
PersistOrder(o) ==
  /\ phase[o] = "staged"
  /\ phase' = [phase EXCEPT ![o] = "offered"]
  /\ payment' = IF PaymentsInDb /\ o \in linked /\ payment[o] = "absent"
                THEN [payment EXCEPT ![o] = "PAYMENT_PENDING"]
                ELSE payment
  /\ UNCHANGED <<staged, linked, checkout, employer, live, ledger, requestVars, faults, history>>

(* The insert fails; the error is logged and the order is offered anyway. *)
PersistOrderFails(o) ==
  /\ phase[o] = "staged"
  /\ PaymentsInDb
  /\ Fault("db")
  /\ phase' = [phase EXCEPT ![o] = "offered"]
  /\ UNCHANGED <<staged, linked, checkout, employer, billingVars, requestVars, history>>

-----------------------------------------------------------------------------
(* The environment *)

(* Razorpay checkout: a failed attempt may be followed by a captured one. *)
Pay(o) ==
  /\ phase[o] = "offered"
  /\ \/ checkout[o] = "unpaid" /\ checkout' = [checkout EXCEPT ![o] = "failed"]
     \/ checkout[o] # "captured" /\ checkout' = [checkout EXCEPT ![o] = "captured"]
  /\ UNCHANGED <<routeVars, employer, billingVars, requestVars, faults, history>>

(* The order key expires or is evicted (Redis runs allkeys-lru without     *)
(* persistence).                                                           *)
LoseOrder(o) ==
  /\ o \in staged
  /\ Fault("orderLost")
  /\ staged' = staged \ {o}
  /\ UNCHANGED <<phase, linked, checkout, employer, billingVars, requestVars, history>>

(* The employer record expires or is evicted. *)
LoseRecord ==
  /\ employer # NoRecord
  /\ Fault("recordLost")
  /\ employer' = NoRecord
  /\ UNCHANGED <<routeVars, checkout, billingVars, requestVars, history>>

(* The employer fills the registration form again: save_employer stages a  *)
(* record without wallet fields, which every reader takes as 0.            *)
Register ==
  /\ employer = NoRecord
  /\ employer' = [credits |-> 0, lastPurchase |-> NoOrder]
  /\ UNCHANGED <<routeVars, checkout, billingVars, requestVars, faults, history>>

(* The job board itself spends or grants credits of the same wallet. *)
ForeignWriter(d) ==
  /\ live + d >= 0
  /\ Fault("foreign")
  /\ live' = live + d
  /\ ledger' = Append(ledger, [ref |-> NoOrder, amount |-> d, balance |-> live + d])
  /\ UNCHANGED <<routeVars, checkout, employer, payment, requestVars, history>>

-----------------------------------------------------------------------------
(* POST /employer/buy-credits/verify *)

Goto(r, step) == pc' = [pc EXCEPT ![r] = step]

(* The order, if a verify of it is in progress. *)
Contended(o) == {p \in {o} : \E q \in Requests : InProgress(q) /\ target[q] = p}

(* Mutant: the status Razorpay answers is not looked at. *)
VerifyAnyStatus(r, o) ==
  /\ pc[r] = "idle"
  /\ phase[o] = "offered"
  /\ checkout[o] # "unpaid"
  /\ target' = [target EXCEPT ![r] = o]
  /\ Goto(r, "load")
  /\ contested' = contested \cup Contended(o)
  /\ UNCHANGED <<routeVars, checkout, employer, billingVars, snap, granted, faults,
                 redisGrants, redisTotal, blemishes, collided>>

(* verify_payment: the signature exists once Razorpay has processed an     *)
(* attempt; then fetch_payment and the status check.                       *)
Verify(r, o) ==
  /\ pc[r] = "idle"
  /\ phase[o] = "offered"
  /\ checkout[o] # "unpaid"
  /\ target' = [target EXCEPT ![r] = o]
  /\ Goto(r, IF checkout[o] = "captured" THEN "load" ELSE "rejected")
  /\ contested' = contested \cup Contended(o)
  /\ UNCHANGED <<routeVars, checkout, employer, billingVars, snap, granted, faults,
                 redisGrants, redisTotal, blemishes, collided>>

(* _load_pending_order, the Redis half. *)
LoadPending(r) ==
  /\ pc[r] = "load"
  /\ Goto(r, IF target[r] \in staged THEN "grantRead"
             ELSE IF PaymentsInDb THEN "loadDb" ELSE "unknown")
  /\ UNCHANGED <<routeVars, checkout, employer, billingVars, target, snap, granted, faults, history>>

(* Mutant: any row of private_payments is reconciled. *)
UnconsumedAnyStatus(o) == payment[o] # "absent"

(* The reconciliation from private_payments: only an unconsumed order. *)
Unconsumed(o) == payment[o] = "PAYMENT_PENDING"

LoadFromDb(r) ==
  /\ pc[r] = "loadDb"
  /\ Goto(r, IF Unconsumed(target[r]) THEN "grantRead" ELSE "unknown")
  /\ UNCHANGED <<routeVars, checkout, employer, billingVars, target, snap, granted, faults, history>>

(* get_context swallows a read error and returns None. *)
LoadFromDbFails(r) ==
  /\ pc[r] = "loadDb"
  /\ Fault("db")
  /\ Goto(r, "unknown")
  /\ UNCHANGED <<routeVars, checkout, employer, billingVars, target, snap, granted, history>>

(* Somebody else is between the read and the write of the record. *)
OthersInUpdate(r) == \E q \in Requests \ {r} : pc[q] \in {"grantWrite", "updateWrite"}

(* get_employer inside grant_credits; without a record bal is None. *)
GrantRead(r) ==
  /\ pc[r] = "grantRead"
  /\ snap' = [snap EXCEPT ![r] = employer]
  /\ Goto(r, IF employer = NoRecord THEN "updateRead" ELSE "grantWrite")
  /\ collided' = (collided \/ (employer # NoRecord /\ OthersInUpdate(r)))
  /\ UNCHANGED <<routeVars, checkout, employer, billingVars, target, granted, faults,
                 redisGrants, redisTotal, blemishes, contested>>

(* Mutants: the grant replaces the balance; the grant has the wrong sign. *)
GrantWriteReplaces(r) ==
  /\ pc[r] = "grantWrite"
  /\ employer' = [snap[r] EXCEPT !.credits = Grant[target[r]]]
  /\ snap' = [snap EXCEPT ![r] = NoRecord]
  /\ granted' = [granted EXCEPT ![r] = TRUE]
  /\ redisGrants' = [redisGrants EXCEPT ![target[r]] = @ + 1]
  /\ redisTotal' = redisTotal + Grant[target[r]]
  /\ Goto(r, "updateRead")
  /\ UNCHANGED <<routeVars, checkout, billingVars, target, faults, blemishes, collided,
                 contested>>

GrantWriteDebits(r) ==
  /\ pc[r] = "grantWrite"
  /\ employer' = [snap[r] EXCEPT !.credits = @ - Grant[target[r]]]
  /\ snap' = [snap EXCEPT ![r] = NoRecord]
  /\ granted' = [granted EXCEPT ![r] = TRUE]
  /\ redisGrants' = [redisGrants EXCEPT ![target[r]] = @ + 1]
  /\ redisTotal' = redisTotal + Grant[target[r]]
  /\ Goto(r, "updateRead")
  /\ UNCHANGED <<routeVars, checkout, billingVars, target, faults, blemishes, collided,
                 contested>>

(* save_employer inside grant_credits: the whole record is written back. *)
GrantWrite(r) ==
  /\ pc[r] = "grantWrite"
  /\ employer' = [snap[r] EXCEPT !.credits = @ + Grant[target[r]]]
  /\ snap' = [snap EXCEPT ![r] = NoRecord]
  /\ granted' = [granted EXCEPT ![r] = TRUE]
  /\ redisGrants' = [redisGrants EXCEPT ![target[r]] = @ + 1]
  /\ redisTotal' = redisTotal + Grant[target[r]]
  /\ Goto(r, "updateRead")
  /\ UNCHANGED <<routeVars, checkout, billingVars, target, faults, blemishes, collided,
                 contested>>

(* update_employer({"lastPurchase": ...}): a second read-modify-write. *)
UpdateRead(r) ==
  /\ pc[r] = "updateRead"
  /\ snap' = [snap EXCEPT ![r] = employer]
  /\ Goto(r, IF employer = NoRecord THEN "record" ELSE "updateWrite")
  /\ collided' = (collided \/ (employer # NoRecord /\ OthersInUpdate(r)))
  /\ UNCHANGED <<routeVars, checkout, employer, billingVars, target, granted, faults,
                 redisGrants, redisTotal, blemishes, contested>>

UpdateWrite(r) ==
  /\ pc[r] = "updateWrite"
  /\ employer' = [snap[r] EXCEPT !.lastPurchase = target[r]]
  /\ snap' = [snap EXCEPT ![r] = NoRecord]
  /\ Goto(r, "record")
  /\ UNCHANGED <<routeVars, checkout, billingVars, target, granted, faults, history>>

(* record_purchase is called, and finds no row with this payment id. *)
MustRecord(r) == PurchaseInDb /\ granted[r] /\ target[r] \in linked

(* Mutant: record_purchase does not look for an earlier row. *)
RecordCheckBlind(r) ==
  /\ pc[r] = "record"
  /\ Goto(r, IF MustRecord(r) THEN "recordApply" ELSE "mark")
  /\ UNCHANGED <<routeVars, checkout, employer, billingVars, target, snap, granted, faults, history>>

RecordCheck(r) ==
  /\ pc[r] = "record"
  /\ Goto(r, IF MustRecord(r) /\ ~Recorded(target[r]) THEN "recordApply" ELSE "mark")
  /\ UNCHANGED <<routeVars, checkout, employer, billingVars, target, snap, granted, faults, history>>

(* Mutants: the live balance is copied from Redis; the row carries the      *)
(* balance read before the UPDATE.                                         *)
RecordApplyMirror(r) ==
  LET o == target[r]
      b == IF employer = NoRecord THEN 0 ELSE employer.credits
  IN
  /\ pc[r] = "recordApply"
  /\ live' = b
  /\ ledger' = Append(ledger, [ref |-> o, amount |-> Grant[o], balance |-> b])
  /\ Goto(r, "mark")
  /\ UNCHANGED <<routeVars, checkout, employer, payment, target, snap, granted, faults, history>>

RecordApplyOldBalance(r) ==
  LET o == target[r] IN
  /\ pc[r] = "recordApply"
  /\ live' = live + Grant[o]
  /\ ledger' = Append(ledger, [ref |-> o, amount |-> Grant[o], balance |-> live])
  /\ Goto(r, "mark")
  /\ UNCHANGED <<routeVars, checkout, employer, payment, target, snap, granted, faults, history>>

(* UPDATE credit_wallets ... RETURNING, INSERT credit_ledger, COMMIT. The  *)
(* UPDATE holds the wallet's row lock until the commit and nothing else    *)
(* reads uncommitted rows, so the three are one step.                      *)
RecordApply(r) ==
  LET o == target[r] IN
  /\ pc[r] = "recordApply"
  /\ live' = live + Grant[o]
  /\ ledger' = Append(ledger, [ref |-> o, amount |-> Grant[o], balance |-> live + Grant[o]])
  /\ Goto(r, "mark")
  /\ UNCHANGED <<routeVars, checkout, employer, payment, target, snap, granted, faults, history>>

(* The transaction fails anywhere before its commit and is rolled back. *)
RecordFails(r) ==
  /\ \/ pc[r] = "record" /\ MustRecord(r)
     \/ pc[r] = "recordApply"
  /\ Fault("db")
  /\ Goto(r, "mark")
  /\ UNCHANGED <<routeVars, checkout, employer, billingVars, target, snap, granted, history>>

(* _mark_payment_success; nobody looks at the result. *)
MarkSuccess(r) ==
  /\ pc[r] = "mark"
  /\ payment' = IF PaymentsInDb /\ Unconsumed(target[r])
                THEN [payment EXCEPT ![target[r]] = "SUCCESS"]
                ELSE payment
  /\ Goto(r, "clear")
  /\ UNCHANGED <<routeVars, checkout, employer, live, ledger, target, snap, granted, faults, history>>

Blemish(r) == blemishes' = IF granted[r] THEN [blemishes EXCEPT ![target[r]] = @ + 1]
                                         ELSE blemishes

MarkFails(r) ==
  /\ pc[r] = "mark"
  /\ PaymentsInDb
  /\ Fault("db")
  /\ Blemish(r)
  /\ Goto(r, "clear")
  /\ UNCHANGED <<routeVars, checkout, employer, billingVars, target, snap, granted,
                 redisGrants, redisTotal, collided, contested>>

(* clear_payment_order, then the response. *)
ClearOrder(r) ==
  /\ pc[r] = "clear"
  /\ staged' = staged \ {target[r]}
  /\ Goto(r, "ok")
  /\ UNCHANGED <<phase, linked, checkout, employer, billingVars, target, snap, granted, faults, history>>

(* The worker dies, or a Redis command raises and the request ends in a    *)
(* 500. A transaction in progress is rolled back.                          *)
Crash(r) ==
  /\ InProgress(r)
  /\ Fault("crash")
  /\ Blemish(r)
  /\ snap' = [snap EXCEPT ![r] = NoRecord]
  /\ Goto(r, "crashed")
  /\ UNCHANGED <<routeVars, checkout, employer, billingVars, target, granted,
                 redisGrants, redisTotal, collided, contested>>

-----------------------------------------------------------------------------
OrderRoute(o) == CreateOrder(o) \/ StageOrder(o) \/ PersistOrder(o) \/ PersistOrderFails(o)

VerifyRoute(r) ==
  \/ \E o \in Orders : Verify(r, o)
  \/ LoadPending(r) \/ LoadFromDb(r) \/ LoadFromDbFails(r)
  \/ GrantRead(r) \/ GrantWrite(r) \/ UpdateRead(r) \/ UpdateWrite(r)
  \/ RecordCheck(r) \/ RecordApply(r) \/ RecordFails(r)
  \/ MarkSuccess(r) \/ MarkFails(r) \/ ClearOrder(r)
  \/ Crash(r)

Environment ==
  \/ \E o \in Orders : Pay(o) \/ LoseOrder(o)
  \/ LoseRecord
  \/ Register
  \/ \E d \in {-1, 1} : ForeignWriter(d)

Next ==
  \/ \E o \in Orders : OrderRoute(o)
  \/ \E r \in Requests : VerifyRoute(r)
  \/ Environment

Spec == Init /\ [][Next]_vars

-----------------------------------------------------------------------------
(* Properties *)

(* Type invariant. *)
TypeOK ==
  /\ phase \in [Orders -> {"none", "created", "staged", "offered"}]
  /\ staged \in SUBSET Orders
  /\ linked \in SUBSET Orders
  /\ payment \in [Orders -> {"absent", "PAYMENT_PENDING", "SUCCESS"}]
  /\ checkout \in [Orders -> {"unpaid", "failed", "captured"}]
  /\ employer \in EmployerRecord \cup {NoRecord}
  /\ live \in Nat
  /\ ledger \in Seq(LedgerRow)
  /\ pc \in [Requests -> Resting \cup Steps]
  /\ target \in [Requests -> Orders \cup {NoOrder}]
  /\ snap \in [Requests -> EmployerRecord \cup {NoRecord}]
  /\ granted \in [Requests -> BOOLEAN]
  /\ faults \in [FaultKinds -> Nat]
  /\ redisGrants \in [Orders -> Nat] /\ redisTotal \in Nat
  /\ blemishes \in [Orders -> Nat]
  /\ collided \in BOOLEAN
  /\ contested \in SUBSET Orders

(* record_purchase is "Idempotent on payment_id", whoever calls it when:    *)
(* the live ledger has at most one purchase row for an order's payment.    *)
IdempotentOnPaymentId ==
  \A i, j \in 1..Len(ledger) :
    ledger[i].ref = ledger[j].ref /\ ledger[i].ref # NoOrder => i = j

(* Nothing serialises the check and the INSERT of record_purchase, so only *)
(* an order verified again while a verify of it is in progress may have a  *)
(* second purchase row: crashes, retries, lost orders, failed marks and    *)
(* reconciliations from private_payments never add one.                    *)
LiveIdempotent ==
  \A i, j \in 1..Len(ledger) :
    ledger[i].ref = ledger[j].ref /\ ledger[i].ref \notin contested \cup {NoOrder} => i = j

(* The live ledger replays to the live balance: each row's balance is the  *)
(* previous row's plus its amount, and the last one is the wallet's, so no *)
(* writer is overwritten ("added on top, never overwritten").              *)
LedgerReplays ==
  /\ live = LedgerBalance
  /\ \A i \in 1..Len(ledger) :
       ledger[i].balance =
         (IF i = 1 THEN WelcomeCredits ELSE ledger[i-1].balance) + ledger[i].amount

(* Credits reach either wallet only for a payment Razorpay has captured,   *)
(* and the live wallet only after Redis has been granted the same order.   *)
OnlyPaidOrdersGranted ==
  /\ \A o \in Orders : redisGrants[o] > 0 => checkout[o] = "captured"
  /\ \A o \in Orders : Recorded(o) => redisGrants[o] > 0

(* Redis is granted an order again only if an earlier request that had     *)
(* granted it crashed or failed to mark the payment, one extra grant per   *)
(* such accident at most, or if two requests verified it side by side.     *)
RegrantsAreBlemishes ==
  \A o \in Orders \ contested : redisGrants[o] <= 1 + blemishes[o]

(* The Redis mirror holds exactly the credits of the grants written to it, *)
(* as long as no record was lost and no two read-modify-writes of the      *)
(* record met: the only ways a paid grant disappears from Redis.           *)
MirrorConserved ==
  (~collided /\ faults["recordLost"] = 0 /\ employer # NoRecord) =>
    employer.credits = WelcomeCredits + redisTotal

(* Neither wallet's balance is anything but what was added to it: the two  *)
(* together.                                                               *)
WalletsSound == LedgerReplays /\ MirrorConserved

-----------------------------------------------------------------------------
(* What a purchase promises, see PaidOnce: each captured payment is added  *)
(* to the live wallet once unless its verifies contended. The ledger says  *)
(* which ones were.                                                        *)
Promise == INSTANCE PaidOnce WITH
  paid     <- {o \in Orders : checkout[o] = "captured"},
  credited <- {o \in Orders : Recorded(o)},
  balance  <- live

(* The purchase implements PaidOnce, however its requests interleave.      *)
ImplementsPaidOnce == Promise!Spec
=============================================================================
