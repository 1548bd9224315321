---------------------------- MODULE Subscription ----------------------------
(***************************************************************************)
(* The subscription of one employer: activation of a free or a paid plan,  *)
(* lazy expiry, cancellation and the lazy monthly re-grant of credits.     *)
(*                                                                         *)
(* There is no scheduler: a plan expires and renews when some request asks *)
(* for the entitlement. A request is a process whose actions are the       *)
(* statements of the READ COMMITTED transactions and the awaited reads and *)
(* writes of the employer record in Redis. subscriptions_in_db is on.      *)
(*                                                                         *)
(* The row a request inserts carries the request's name. The two buckets   *)
(* a plan grants (unlock, boost) are one.                                  *)
(***************************************************************************)
EXTENDS Integers, FiniteSets, FiniteSetsExt

CONSTANTS
  Requests,     (* requests that activate, cancel or ask for the entitlement     *)
  Plans,        (* the catalog                                                   *)
  Payments,     (* captured payments of subscription orders                      *)
  PlanOf,       (* the plan each payment buys; other plans are free              *)
  Validity,     (* days of each plan's billing cycle, in ticks                   *)
  Monthly,      (* credits each plan grants per cycle                            *)
  Cycle,        (* cycle_days, in ticks                                          *)
  PaymentsInDb, (* settings.payments_in_db                                       *)
  NoPlan, NoPayment, NoRecord, NoRow,
  MaxTime,      (* bound on the clock                                            *)
  MaxFaults     (* bound on crashes, failing database calls and evicted orders   *)

Paid == {PlanOf[p] : p \in Payments}
FaultKinds == {"crash", "db", "orderLost"}

ASSUME PlanAssumption     == /\ PlanOf \in [Payments -> Plans]
                             /\ Validity \in [Plans -> Nat \ {0}]
                             /\ Monthly \in [Plans -> Nat \ {0}]
ASSUME TimeAssumption     == Cycle \in Nat \ {0} /\ MaxTime \in Nat
ASSUME NoneAssumption     == NoPlan \notin Plans /\ NoPayment \notin Payments /\ NoRow \notin Requests
ASSUME SwitchesAssumption == /\ PaymentsInDb \in BOOLEAN
                             /\ MaxFaults \in [FaultKinds -> Nat]

VARIABLES
  now,       (* the database's clock                                             *)
  rows,      (* the subscriptions table                                          *)
  live,      (* credit_wallets, the bucket the plans grant                       *)
  redis,     (* the employer record: cached subscription and wallet              *)
  staged,    (* payments whose order is in Redis (employer:payorder:<id>)        *)
  payment,   (* private_payments.status of the order's row, absent if none       *)
  pc,        (* each request: its next statement                                 *)
  plan, pay, (* each activation: what it activates                               *)
  key,       (* each activation: the id of the payment's row, NoPayment for NULL *)
  retiring,  (* each activation: the ACTIVE rows its UPDATE has locked           *)
  row,       (* each renewal or entitlement: the row it works on                 *)
  snap,      (* each request: the record it read and has not written back        *)
  faults,    (* faults so far, by kind                                           *)
  claims,    (* history: renewals claimed for each row                           *)
  mirrored,  (* history: renewals of each row added to the live wallet           *)
  dropped,   (* history: renewals of each row claimed and then given up          *)
  stumbled,  (* history: requests that crashed or could not mark the payment     *)
  overlapped (* history: an activation or cancellation began during another      *)

history == <<claims, mirrored, dropped, stumbled>>
orders  == <<staged, payment>>
locals  == <<plan, pay, key, retiring, row>>
vars == <<now, rows, live, redis, orders, pc, locals, snap, faults, history, overlapped>>

Activating == {"load", "loadDb", "cacheRead", "cacheWrite", "payRow", "dup", "retire", "insert",
               "mark", "clear"}
Cancelling == {"cancel", "uncacheRead", "uncacheWrite"}
Renewing   == {"claim", "grantRead", "grantWrite", "mirror"}
Entitling  == {"select", "flip", "notify"}
Steps      == Activating \cup Cancelling \cup Renewing \cup Entitling
InProgress(r) == pc[r] \in Steps

Row == [status: {"none", "ACTIVE", "EXPIRED", "CANCELLED"}, plan: Plans \cup {NoPlan},
        paymentId: Payments \cup {NoPayment}, start: Nat, end: Nat, lastGrant: Nat]

Absent == [status |-> "none", plan |-> NoPlan, paymentId |-> NoPayment, start |-> 0,
           end |-> 0, lastGrant |-> 0]
Made(s) == rows[s].status # "none"
Active == {s \in Requests : rows[s].status = "ACTIVE"}

(* _persist_payment_order is best effort: an offered order may have no row.*)
OrderRow == IF PaymentsInDb THEN {"absent", "PAYMENT_PENDING"} ELSE {"absent"}

Init ==
  /\ now = 0
  /\ rows = [s \in Requests |-> Absent]
  /\ live = 0
  /\ redis = [sub |-> NoPlan, credits |-> 0]
  /\ staged = Payments
  /\ payment \in [Payments -> OrderRow]
  /\ pc = [r \in Requests |-> "idle"]
  /\ plan = [r \in Requests |-> NoPlan]
  /\ pay = [r \in Requests |-> NoPayment]
  /\ key = [r \in Requests |-> NoPayment]
  /\ retiring = [r \in Requests |-> {}]
  /\ row = [r \in Requests |-> NoRow]
  /\ snap = [r \in Requests |-> NoRecord]
  /\ faults = [k \in FaultKinds |-> 0]
  /\ claims = [s \in Requests |-> 0]
  /\ mirrored = [s \in Requests |-> 0]
  /\ dropped = [s \in Requests |-> 0]
  /\ stumbled = {}
  /\ overlapped = FALSE

Goto(r, step) == pc' = [pc EXCEPT ![r] = step]

Fault(k) ==
  /\ faults[k] < MaxFaults[k]
  /\ faults' = [faults EXCEPT ![k] = @ + 1]

(* Rows locked by an UPDATE that has not committed. *)
Locked == UNION {retiring[r] : r \in Requests}

Tick ==
  /\ now < MaxTime
  /\ now' = now + 1
  /\ UNCHANGED <<rows, live, redis, orders, pc, locals, snap, faults, history, overlapped>>

-----------------------------------------------------------------------------
(* Read-modify-writes of the employer record *)

ReadRecord(r, write) ==
  /\ snap' = [snap EXCEPT ![r] = redis]
  /\ Goto(r, write)
  /\ UNCHANGED <<now, rows, live, redis, orders, locals, faults, history, overlapped>>

WriteRecord(r, rec, next) ==
  /\ redis' = rec
  /\ snap' = [snap EXCEPT ![r] = NoRecord]
  /\ Goto(r, next)
  /\ UNCHANGED <<now, rows, live, orders, locals, faults, history, overlapped>>

-----------------------------------------------------------------------------
(* Activation: subscribe/order of a free plan, subscribe/verify of a paid one *)

Alone == \A q \in Requests : pc[q] \notin Activating \cup Cancelling

Begin(r, p, y) ==
  /\ pc[r] = "idle"
  /\ overlapped' = (overlapped \/ ~Alone)
  /\ plan' = [plan EXCEPT ![r] = p]
  /\ pay' = [pay EXCEPT ![r] = y]
  /\ Goto(r, "load")
  /\ UNCHANGED <<now, rows, live, redis, orders, key, retiring, row, snap, faults, history>>

ActivateFree(r) == \E p \in Plans \ Paid : Begin(r, p, NoPayment)
Verify(r)       == \E y \in Payments : Begin(r, PlanOf[y], y)

(* _load_pending_order, the Redis half; a free plan has no order. *)
LoadPending(r) ==
  /\ pc[r] = "load"
  /\ Goto(r, IF pay[r] \in staged \cup {NoPayment} THEN "cacheRead" ELSE "loadDb")
  /\ UNCHANGED <<now, rows, live, redis, orders, locals, snap, faults, history, overlapped>>

(* The reconciliation from private_payments: only an unconsumed order. *)
Unconsumed(y) == payment[y] = "PAYMENT_PENDING"

LoadFromDb(r) ==
  /\ pc[r] = "loadDb"
  /\ Goto(r, IF Unconsumed(pay[r]) THEN "cacheRead" ELSE "unknown")
  /\ UNCHANGED <<now, rows, live, redis, orders, locals, snap, faults, history, overlapped>>

(* get_context swallows a read error and returns None. *)
LoadFromDbFails(r) ==
  /\ pc[r] = "loadDb"
  /\ PaymentsInDb
  /\ Fault("db")
  /\ Goto(r, "unknown")
  /\ UNCHANGED <<now, rows, live, redis, orders, locals, snap, history, overlapped>>

(* activate_subscription grants in Redis whether or not the plan is new. *)
CacheRead(r) == pc[r] = "cacheRead" /\ ReadRecord(r, "cacheWrite")

CacheWrite(r) ==
  /\ pc[r] = "cacheWrite"
  /\ WriteRecord(r, [sub |-> plan[r], credits |-> snap[r].credits + Monthly[plan[r]]], "payRow")

(* What follows the database's part of an activation. *)
Activated(r) == IF pay[r] = NoPayment THEN "done" ELSE "mark"

(* id_for_order: the private_payments row of the order. A free plan has no *)
(* order; an order whose row was never written, and a read that fails,     *)
(* yield None.                                                             *)
Found(r) == IF pay[r] # NoPayment /\ payment[pay[r]] # "absent" THEN pay[r] ELSE NoPayment

PaymentRow(r) ==
  /\ pc[r] = "payRow"
  /\ key' = [key EXCEPT ![r] = Found(r)]
  /\ Goto(r, "dup")
  /\ UNCHANGED <<now, rows, live, redis, orders, plan, pay, retiring, row, snap, faults, history, overlapped>>

PaymentRowFails(r) ==
  /\ pc[r] = "payRow"
  /\ pay[r] # NoPayment
  /\ Fault("db")
  /\ Goto(r, "dup")
  /\ UNCHANGED <<now, rows, live, redis, orders, locals, snap, history, overlapped>>

(* Mutant: a paid subscription is looked for among the ACTIVE ones. *)
DuplicateActive(r) ==
  IF key[r] # NoPayment
  THEN \E s \in Active : rows[s].paymentId = key[r]
  ELSE \E s \in Active : rows[s].plan = plan[r]

(* A paid subscription is keyed on its payment row; a free one, or one     *)
(* whose payment row was not found, on an ACTIVE row of the same plan.     *)
Duplicate(r) ==
  IF key[r] # NoPayment
  THEN \E s \in Requests : rows[s].paymentId = key[r]
  ELSE \E s \in Active : rows[s].plan = plan[r]

FindDuplicate(r) ==
  /\ pc[r] = "dup"
  /\ Goto(r, IF Duplicate(r) THEN Activated(r) ELSE "retire")
  /\ UNCHANGED <<now, rows, live, redis, orders, locals, snap, faults, history, overlapped>>

(* Mutant: only rows of the same plan are retired. *)
RetireSamePlan(r) ==
  /\ pc[r] = "retire"
  /\ retiring' = [retiring EXCEPT ![r] = {s \in Active : rows[s].plan = plan[r]}]
  /\ Goto(r, "insert")
  /\ UNCHANGED <<now, rows, live, redis, orders, plan, pay, key, row, snap, faults, history, overlapped>>

(* UPDATE ... EXPIRED WHERE ACTIVE: the rows committed by now. *)
RetirePrior(r) ==
  /\ pc[r] = "retire"
  /\ retiring' = [retiring EXCEPT ![r] = Active]
  /\ Goto(r, "insert")
  /\ UNCHANGED <<now, rows, live, redis, orders, plan, pay, key, row, snap, faults, history, overlapped>>

(* Mutant: a new row counts as not yet granted. *)
InsertUngranted(r) ==
  /\ pc[r] = "insert"
  /\ rows' = [s \in Requests |->
                IF s = r
                THEN [status |-> "ACTIVE", plan |-> plan[r], paymentId |-> key[r], start |-> now,
                      end |-> now + Validity[plan[r]], lastGrant |-> now - Cycle]
                ELSE IF s \in retiring[r] \cap Active
                THEN [rows[s] EXCEPT !.status = "EXPIRED"]
                ELSE rows[s]]
  /\ retiring' = [retiring EXCEPT ![r] = {}]
  /\ live' = live + Monthly[plan[r]]
  /\ Goto(r, Activated(r))
  /\ UNCHANGED <<now, redis, orders, plan, pay, key, row, snap, faults, history, overlapped>>

(* INSERT, the grant to the live wallet with its ledger rows, COMMIT. *)
InsertRow(r) ==
  /\ pc[r] = "insert"
  /\ rows' = [s \in Requests |->
                IF s = r
                THEN [status |-> "ACTIVE", plan |-> plan[r], paymentId |-> key[r], start |-> now,
                      end |-> now + Validity[plan[r]], lastGrant |-> now]
                ELSE IF s \in retiring[r] \cap Active
                THEN [rows[s] EXCEPT !.status = "EXPIRED"]
                ELSE rows[s]]
  /\ retiring' = [retiring EXCEPT ![r] = {}]
  /\ live' = live + Monthly[plan[r]]
  /\ Goto(r, Activated(r))
  /\ UNCHANGED <<now, redis, orders, plan, pay, key, row, snap, faults, history, overlapped>>

(* The read of the employer before it, or the transaction, fails; it rolls *)
(* back and the activation goes on.                                        *)
ActivateFails(r) ==
  /\ pc[r] \in {"payRow", "dup", "retire", "insert"}
  /\ Fault("db")
  /\ retiring' = [retiring EXCEPT ![r] = {}]
  /\ Goto(r, Activated(r))
  /\ UNCHANGED <<now, rows, live, redis, orders, plan, pay, key, row, snap, history, overlapped>>

(* _mark_payment_success; nobody looks at the result. *)
MarkSuccess(r) ==
  /\ pc[r] = "mark"
  /\ payment' = IF Unconsumed(pay[r]) THEN [payment EXCEPT ![pay[r]] = "SUCCESS"] ELSE payment
  /\ Goto(r, "clear")
  /\ UNCHANGED <<now, rows, live, redis, staged, locals, snap, faults, history, overlapped>>

MarkFails(r) ==
  /\ pc[r] = "mark"
  /\ PaymentsInDb
  /\ Fault("db")
  /\ stumbled' = stumbled \cup {r}
  /\ Goto(r, "clear")
  /\ UNCHANGED <<now, rows, live, redis, orders, locals, snap, claims, mirrored, dropped, overlapped>>

(* Mutant: the order stays in Redis. *)
ClearNothing(r) ==
  /\ pc[r] = "clear"
  /\ Goto(r, "done")
  /\ UNCHANGED <<now, rows, live, redis, orders, locals, snap, faults, history, overlapped>>

(* clear_payment_order, then the response. *)
ClearOrder(r) ==
  /\ pc[r] = "clear"
  /\ staged' = staged \ {pay[r]}
  /\ Goto(r, "done")
  /\ UNCHANGED <<now, rows, live, redis, payment, locals, snap, faults, history, overlapped>>

(* The order key expires or is evicted (allkeys-lru, no persistence). *)
LoseOrder(y) ==
  /\ y \in staged
  /\ Fault("orderLost")
  /\ staged' = staged \ {y}
  /\ UNCHANGED <<now, rows, live, redis, payment, pc, locals, snap, history, overlapped>>

-----------------------------------------------------------------------------
(* POST /employer/subscribe/cancel/confirm *)

StartCancel(r) ==
  /\ pc[r] = "idle"
  /\ overlapped' = (overlapped \/ ~Alone)
  /\ Goto(r, "cancel")
  /\ UNCHANGED <<now, rows, live, redis, orders, locals, snap, faults, history>>

(* One UPDATE of every ACTIVE row; it waits for rows that are locked. *)
Cancel(r) ==
  /\ pc[r] = "cancel"
  /\ Active \cap Locked = {}
  /\ rows' = [s \in Requests |-> IF s \in Active THEN [rows[s] EXCEPT !.status = "CANCELLED"]
                                 ELSE rows[s]]
  /\ Goto(r, IF Active = {} THEN "done" ELSE "uncacheRead")
  /\ UNCHANGED <<now, live, redis, orders, locals, snap, faults, history, overlapped>>

UncacheRead(r)  == pc[r] = "uncacheRead" /\ ReadRecord(r, "uncacheWrite")
UncacheWrite(r) == pc[r] = "uncacheWrite" /\ WriteRecord(r, [snap[r] EXCEPT !.sub = NoPlan], "done")

-----------------------------------------------------------------------------
(* _plan_covers_post and the wallet page: _apply_due_renewal, then         *)
(* _resolve_entitlement                                                    *)

StartEntitlement(r) ==
  /\ pc[r] = "idle"
  /\ Goto(r, "claim")
  /\ UNCHANGED <<now, rows, live, redis, orders, locals, snap, faults, history, overlapped>>

(* Mutant: the date of the last grant is not part of the guard. *)
DueAnyTime(s) == rows[s].status = "ACTIVE" /\ now < rows[s].end

(* ACTIVE, before its end, and a whole cycle since the last grant. *)
Due(s) ==
  /\ rows[s].status = "ACTIVE"
  /\ now < rows[s].end
  /\ rows[s].lastGrant + Cycle <= now

(* claim_due_renewal: one UPDATE claims every due row, and the caller      *)
(* grants one of them.                                                     *)
ClaimRenewal(r) ==
  LET due == {s \in Requests : Due(s)} IN
  /\ pc[r] = "claim"
  /\ due \cap Locked = {}
  /\ rows' = [s \in Requests |-> IF s \in due THEN [rows[s] EXCEPT !.lastGrant = now] ELSE rows[s]]
  /\ claims' = [s \in Requests |-> IF s \in due THEN claims[s] + 1 ELSE claims[s]]
  /\ IF due = {}
     THEN Goto(r, "select") /\ UNCHANGED <<row, dropped>>
     ELSE \E s \in due :
            /\ row' = [row EXCEPT ![r] = s]
            /\ dropped' = [x \in Requests |-> IF x \in due \ {s} THEN dropped[x] + 1 ELSE dropped[x]]
            /\ Goto(r, "grantRead")
  /\ UNCHANGED <<now, live, redis, orders, plan, pay, key, retiring, snap, faults, mirrored, stumbled, overlapped>>

(* grant_credits *)
GrantRead(r)  == pc[r] = "grantRead" /\ ReadRecord(r, "grantWrite")
GrantWrite(r) ==
  /\ pc[r] = "grantWrite"
  /\ WriteRecord(r, [snap[r] EXCEPT !.credits = @ + Monthly[rows[row[r]].plan]], "mirror")

(* Mutant: the mirror is tried again after it succeeded. *)
MirrorRenewalAgain(r) ==
  /\ pc[r] = "mirror"
  /\ live' = live + Monthly[rows[row[r]].plan]
  /\ mirrored' = [mirrored EXCEPT ![row[r]] = @ + 1]
  /\ \E next \in {"mirror", "select"} : Goto(r, next)
  /\ UNCHANGED <<now, rows, redis, orders, locals, snap, faults, claims, dropped, stumbled,
                 overlapped>>

(* record_renewal_grant, one transaction. *)
MirrorRenewal(r) ==
  /\ pc[r] = "mirror"
  /\ live' = live + Monthly[rows[row[r]].plan]
  /\ mirrored' = [mirrored EXCEPT ![row[r]] = @ + 1]
  /\ Goto(r, "select")
  /\ UNCHANGED <<now, rows, redis, orders, locals, snap, faults, claims, dropped, stumbled,
                 overlapped>>

(* claim_due_renewal or record_renewal_grant fails; the error is logged.   *)
RenewalFails(r) ==
  /\ pc[r] \in {"claim", "mirror"}
  /\ Fault("db")
  /\ dropped' = IF pc[r] = "mirror" THEN [dropped EXCEPT ![row[r]] = @ + 1] ELSE dropped
  /\ Goto(r, "select")
  /\ UNCHANGED <<now, rows, live, redis, orders, locals, snap, claims, mirrored, stumbled,
                 overlapped>>

(* get_entitlement: SELECT the ACTIVE row with the latest end; a row past  *)
(* its end is to be flipped.                                               *)
SelectActive(r) ==
  LET latest == {s \in Active : \A x \in Active : rows[x].end <= rows[s].end} IN
  /\ pc[r] = "select"
  /\ IF latest = {}
     THEN Goto(r, "done") /\ UNCHANGED row
     ELSE \E s \in latest :
            /\ row' = [row EXCEPT ![r] = s]
            /\ Goto(r, IF rows[s].end < now THEN "flip" ELSE "done")
  /\ UNCHANGED <<now, rows, live, redis, orders, plan, pay, key, retiring, snap, faults, history, overlapped>>

(* The status-guarded UPDATE; RETURNING tells whether this request did it. *)
FlipExpired(r) ==
  /\ pc[r] = "flip"
  /\ row[r] \notin Locked
  /\ IF row[r] \in Active
     THEN rows' = [rows EXCEPT ![row[r]].status = "EXPIRED"] /\ Goto(r, "notify")
     ELSE UNCHANGED rows /\ Goto(r, "done")
  /\ UNCHANGED <<now, live, redis, orders, locals, snap, faults, history, overlapped>>

Notify(r) ==
  /\ pc[r] = "notify"
  /\ Goto(r, "done")
  /\ UNCHANGED <<now, rows, live, redis, orders, locals, snap, faults, history, overlapped>>

(* The worker dies or Redis fails: transactions roll back, and a renewal   *)
(* that was claimed and not yet mirrored is given up.                      *)
Crash(r) ==
  /\ InProgress(r)
  /\ Fault("crash")
  /\ retiring' = [retiring EXCEPT ![r] = {}]
  /\ snap' = [snap EXCEPT ![r] = NoRecord]
  /\ dropped' = IF pc[r] \in {"grantRead", "grantWrite", "mirror"}
                THEN [dropped EXCEPT ![row[r]] = @ + 1] ELSE dropped
  /\ stumbled' = stumbled \cup {r}
  /\ Goto(r, "crashed")
  /\ UNCHANGED <<now, rows, live, redis, orders, plan, pay, key, row, claims, mirrored, overlapped>>

-----------------------------------------------------------------------------
Activation(r) ==
  \/ ActivateFree(r) \/ Verify(r) \/ LoadPending(r) \/ LoadFromDb(r) \/ LoadFromDbFails(r)
  \/ CacheRead(r) \/ CacheWrite(r) \/ PaymentRow(r) \/ PaymentRowFails(r)
  \/ FindDuplicate(r) \/ RetirePrior(r) \/ InsertRow(r) \/ ActivateFails(r)
  \/ MarkSuccess(r) \/ MarkFails(r) \/ ClearOrder(r)

Cancellation(r) == StartCancel(r) \/ Cancel(r) \/ UncacheRead(r) \/ UncacheWrite(r)

Entitlement(r) ==
  \/ StartEntitlement(r) \/ ClaimRenewal(r) \/ GrantRead(r) \/ GrantWrite(r)
  \/ MirrorRenewal(r) \/ RenewalFails(r) \/ SelectActive(r) \/ FlipExpired(r) \/ Notify(r)

Next ==
  \/ Tick
  \/ \E y \in Payments : LoseOrder(y)
  \/ \E r \in Requests : Activation(r) \/ Cancellation(r) \/ Entitlement(r) \/ Crash(r)

Spec == Init /\ [][Next]_vars

-----------------------------------------------------------------------------
(* Properties *)

(* Type invariant. *)
TypeOK ==
  /\ now \in 0..MaxTime
  /\ rows \in [Requests -> Row]
  /\ live \in Nat
  /\ redis \in [sub: Plans \cup {NoPlan}, credits: Nat]
  /\ staged \in SUBSET Payments
  /\ payment \in [Payments -> {"absent", "PAYMENT_PENDING", "SUCCESS"}]
  /\ pc \in [Requests -> Steps \cup {"idle", "done", "unknown", "crashed"}]
  /\ plan \in [Requests -> Plans \cup {NoPlan}]
  /\ pay \in [Requests -> Payments \cup {NoPayment}]
  /\ key \in [Requests -> Payments \cup {NoPayment}]
  /\ retiring \in [Requests -> SUBSET Requests]
  /\ row \in [Requests -> Requests \cup {NoRow}]
  /\ snap \in [Requests -> [sub: Plans \cup {NoPlan}, credits: Nat] \cup {NoRecord}]
  /\ faults \in [FaultKinds -> Nat]
  /\ claims \in [Requests -> Nat] /\ mirrored \in [Requests -> Nat]
  /\ dropped \in [Requests -> Nat]
  /\ stumbled \in SUBSET Requests
  /\ overlapped \in BOOLEAN

(* "One active subscription per employer" (activate): at most one row is   *)
(* ACTIVE, whatever cancellations, expiries and crashes happen, while      *)
(* activations do not overlap.                                             *)
OneActive == ~overlapped => Cardinality(Active) <= 1

(* "A paid sub is keyed on its payment row" (activate), so that one row    *)
(* follows from a payment however often it is verified. What the lookup of *)
(* that row leaves of it: while activations do not overlap, a payment has  *)
(* a second row only if a verify of it crashed or could not mark it, and   *)
(* one of the two did not find the payment's row, so that it was keyed on  *)
(* the plan instead.                                                       *)
OneRowPerPayment ==
  ~overlapped =>
    \A s, x \in Requests :
      Made(s) /\ Made(x) /\ pay[s] = pay[x] /\ pay[s] # NoPayment /\ s # x =>
        /\ NoPayment \in {rows[s].paymentId, rows[x].paymentId}
        /\ stumbled \cap {s, x} # {}

(* An employer has what was paid for, once but for those: the two together.*)
SingleSubscription == OneActive /\ OneRowPerPayment

(* "Credits are never granted twice in a cycle" (claim_due_renewal): a     *)
(* row's renewals are at least a cycle apart, so there are never more of   *)
(* them than whole cycles between its start and its last grant.            *)
NeverTwiceInCycle ==
  \A s \in Requests : claims[s] * Cycle <= rows[s].lastGrant - rows[s].start

(* A claimed renewal is on its way to the live wallet, has reached it, or  *)
(* was given up by a crash or a failing call: nothing else loses it, and   *)
(* nothing grants it twice.                                                *)
OnItsWay(s) == Cardinality({r \in Requests : row[r] = s /\ pc[r] \in {"grantRead", "grantWrite", "mirror"}})

RenewalsAccounted ==
  \A s \in Requests : claims[s] = mirrored[s] + dropped[s] + OnItsWay(s)

=============================================================================
