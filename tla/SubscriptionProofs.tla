-------------------------- MODULE SubscriptionProofs --------------------------
(***************************************************************************)
(* Proofs about Subscription, for every catalog, every number of requests  *)
(* and of payments, every cycle and every number of faults.                *)
(***************************************************************************)
EXTENDS Subscription, FiniteSetTheorems, TLAPS

USE DEF FaultKinds

States == Steps \cup {"idle", "done", "unknown", "crashed"}

PaymentStates == {"absent", "PAYMENT_PENDING", "SUCCESS"}

CachedRecord == [sub: Plans \cup {NoPlan}, credits: Nat]

(* A renewal that was claimed and is neither mirrored nor given up.        *)
Granting(r) == pc[r] \in {"grantRead", "grantWrite", "mirror"}

(* What a request works with is there when it needs it.                    *)
Equipped(r) ==
  /\ pc[r] \in {"cacheWrite", "uncacheWrite", "grantWrite"} => snap[r] \in CachedRecord
  /\ pc[r] \in Activating => plan[r] \in Plans
  /\ Granting(r) \/ pc[r] \in {"flip", "notify"} =>
       row[r] \in Requests /\ rows[row[r]].status # "none"

(* A request has no row before it inserts one.                             *)
Unborn(r) == pc[r] \in {"idle", "load", "loadDb", "cacheRead", "cacheWrite", "payRow", "dup", "retire",
                            "insert"}

TypeInv ==
  /\ TypeOK
  /\ \A r \in Requests : Equipped(r) /\ (Unborn(r) => rows[r].status = "none")
  /\ \A s \in Requests : rows[s].status # "none" => rows[s].plan \in Plans

LEMMA FaultType ==
  ASSUME TypeOK, NEW k \in FaultKinds, Fault(k)
  PROVE  faults' \in [FaultKinds -> Nat]
<1>1. faults' = [faults EXCEPT ![k] = @ + 1] /\ faults \in [FaultKinds -> Nat]
  BY DEF Fault, TypeOK
<1>2. QED
  BY <1>1

(* One request moves on, the others stay.                                  *)
LEMMA GotoType ==
  ASSUME TypeOK, NEW r \in Requests, NEW step \in States, Goto(r, step)
  PROVE  /\ pc' \in [Requests -> States] /\ pc'[r] = step
         /\ \A q \in Requests \ {r} : pc'[q] = pc[q]
BY DEF Goto, TypeOK, States

LEMMA StepNames ==
  /\ Activating \subseteq States /\ Cancelling \subseteq States
  /\ Renewing \subseteq States /\ Entitling \subseteq States
  /\ {"idle", "done", "unknown", "crashed"} \subseteq States
BY DEF States, Steps

LEMMA TypeInit == Init => TypeInv
<1> SUFFICES ASSUME Init PROVE TypeInv
  OBVIOUS
<1>1. TypeOK
  <2>1. now \in 0..MaxTime
    BY TimeAssumption DEF Init
  <2>2. Absent \in Row
    BY DEF Absent, Row
  <2>3. [sub |-> NoPlan, credits |-> 0] \in [sub: Plans \cup {NoPlan}, credits: Nat]
    OBVIOUS
  <2>4. rows \in [Requests -> Row]
    BY <2>2 DEF Init
  <2>5. payment \in [Payments -> {"absent", "PAYMENT_PENDING", "SUCCESS"}]
    BY DEF Init, OrderRow
  <2>6. QED
    BY <2>1, <2>3, <2>4, <2>5 DEF Init, TypeOK
<1>2. \A r \in Requests : Equipped(r) /\ rows[r].status = "none"
  BY DEF Init, Equipped, Absent, Granting, Activating
<1>3. QED
  BY <1>1, <1>2 DEF TypeInv

(* A step that leaves the rows and what the request has alone.             *)
LEMMA EquippedKept ==
  ASSUME TypeInv, NEW r \in Requests, \A q \in Requests \ {r} : pc'[q] = pc[q],
         \A s \in Requests : /\ rows[s].status # "none" => rows'[s].status # "none"
                             /\ rows'[s].status # "none" => rows'[s].plan \in Plans
                             /\ s # r => rows'[s].status = "none" <=> rows[s].status = "none",
         \A q \in Requests \ {r} : snap'[q] = snap[q] /\ plan'[q] = plan[q] /\ row'[q] = row[q],
         Equipped(r)', Unborn(r)' => rows'[r].status = "none",
         TypeOK'
  PROVE  TypeInv'
<1>1. \A q \in Requests \ {r} : Equipped(q)'
  BY DEF TypeInv, Equipped, Granting
<1>2. \A q \in Requests \ {r} : Unborn(q)' => rows'[q].status = "none"
  BY DEF TypeInv, Unborn
<1>3. QED
  BY <1>1, <1>2 DEF TypeInv

(* A step of one request that only moves it on, but for what no request    *)
(* has to be equipped with.                                                *)
LEMMA MoveKept ==
  ASSUME TypeInv, NEW r \in Requests, NEW step \in States, Goto(r, step),
         UNCHANGED <<now, rows, redis, plan, pay, row, snap>>,
         live' \in Nat, staged' \in SUBSET Payments,
         payment' \in [Payments -> PaymentStates], key' \in [Requests -> Payments \cup {NoPayment}],
         stumbled' \in SUBSET Requests,
         retiring' \in [Requests -> SUBSET Requests],
         faults' \in [FaultKinds -> Nat], overlapped' \in BOOLEAN,
         claims' \in [Requests -> Nat], mirrored' \in [Requests -> Nat],
         dropped' \in [Requests -> Nat],
         step \in {"cacheWrite", "uncacheWrite", "grantWrite"} => snap[r] \in CachedRecord,
         step \in Activating => plan[r] \in Plans,
         step \in {"grantRead", "grantWrite", "mirror", "flip", "notify"} =>
           row[r] \in Requests /\ rows[row[r]].status # "none",
         step \in {"idle", "load", "loadDb", "cacheRead", "cacheWrite", "payRow", "dup", "retire",
                            "insert"} => Unborn(r)
  PROVE  TypeInv'
<1>1. /\ pc' \in [Requests -> States] /\ pc'[r] = step
      /\ \A q \in Requests \ {r} : pc'[q] = pc[q]
  BY GotoType DEF TypeInv
<1>2. TypeOK'
  BY <1>1 DEF TypeInv, TypeOK, States, PaymentStates
<1>3. Equipped(r)'
  BY <1>1 DEF Equipped, Granting
<1>4. Unborn(r)' => rows'[r].status = "none"
  BY <1>1 DEF TypeInv, Unborn
<1>5. QED
  BY <1>1, <1>2, <1>3, <1>4, EquippedKept DEF TypeInv

LEMMA ReadKept ==
  ASSUME TypeInv, NEW r \in Requests, NEW step \in {"cacheWrite", "uncacheWrite", "grantWrite"},
         ReadRecord(r, step),
         step \in Activating => plan[r] \in Plans /\ Unborn(r),
         step = "grantWrite" => Granting(r)
  PROVE  TypeInv'
<1>1. /\ pc' \in [Requests -> States] /\ pc'[r] = step
      /\ \A q \in Requests \ {r} : pc'[q] = pc[q]
  BY GotoType DEF ReadRecord, TypeInv, States, Steps, Activating, Cancelling, Renewing
<1>2. snap' = [snap EXCEPT ![r] = redis] /\ redis \in CachedRecord
  BY DEF ReadRecord, TypeInv, TypeOK, CachedRecord
<1>3. /\ snap' \in [Requests -> CachedRecord \cup {NoRecord}] /\ snap'[r] \in CachedRecord
      /\ \A q \in Requests \ {r} : snap'[q] = snap[q]
  BY <1>2 DEF TypeInv, TypeOK, CachedRecord
<1>4. TypeOK'
  BY <1>1, <1>3 DEF ReadRecord, TypeInv, TypeOK, States, CachedRecord, locals, history, orders
<1>5. UNCHANGED <<rows, plan, row>>
  BY DEF ReadRecord, locals
<1>6. Equipped(r)' /\ (Unborn(r)' => rows'[r].status = "none")
  BY <1>1, <1>3, <1>5 DEF TypeInv, Equipped, Granting, Unborn, Activating
<1>7. QED
  BY <1>1, <1>3, <1>4, <1>5, <1>6, EquippedKept DEF TypeInv

LEMMA WriteKept ==
  ASSUME TypeInv, NEW r \in Requests, NEW step \in {"payRow", "done", "mirror"}, NEW rec \in CachedRecord,
         WriteRecord(r, rec, step),
         step = "payRow" => plan[r] \in Plans /\ Unborn(r),
         step = "mirror" => Granting(r)
  PROVE  TypeInv'
<1>1. /\ pc' \in [Requests -> States] /\ pc'[r] = step
      /\ \A q \in Requests \ {r} : pc'[q] = pc[q]
  BY GotoType DEF WriteRecord, TypeInv, States, Steps, Activating, Cancelling, Renewing
<1>2. snap' = [snap EXCEPT ![r] = NoRecord] /\ redis' \in CachedRecord
  BY DEF WriteRecord
<1>3. /\ snap' \in [Requests -> CachedRecord \cup {NoRecord}]
      /\ \A q \in Requests \ {r} : snap'[q] = snap[q]
  BY <1>2 DEF TypeInv, TypeOK, CachedRecord
<1>4. TypeOK'
  BY <1>1, <1>2, <1>3 DEF WriteRecord, TypeInv, TypeOK, States, CachedRecord, locals, history, orders
<1>5. UNCHANGED <<rows, plan, row>>
  BY DEF WriteRecord, locals
<1>6. Equipped(r)' /\ (Unborn(r)' => rows'[r].status = "none")
  BY <1>1, <1>5 DEF TypeInv, Equipped, Granting, Unborn, Activating
<1>7. QED
  BY <1>1, <1>3, <1>4, <1>5, <1>6, EquippedKept DEF TypeInv

(* An INSERT makes one row and expires others.                             *)
LEMMA InsertEffect ==
  ASSUME TypeInv, NEW r \in Requests, InsertRow(r)
  PROVE  /\ pc[r] = "insert" /\ plan[r] \in Plans
         /\ rows' \in [Requests -> Row]
         /\ rows'[r].status = "ACTIVE" /\ rows'[r].plan = plan[r] /\ rows'[r].paymentId = key[r]
         /\ rows'[r].start = now /\ rows'[r].lastGrant = now
         /\ \A s \in Requests \ {r} :
              /\ rows'[s].plan = rows[s].plan /\ rows'[s].paymentId = rows[s].paymentId
              /\ rows'[s].start = rows[s].start /\ rows'[s].lastGrant = rows[s].lastGrant
              /\ rows'[s].status = IF s \in retiring[r] /\ rows[s].status = "ACTIVE"
                                   THEN "EXPIRED" ELSE rows[s].status
<1> DEFINE new == [status |-> "ACTIVE", plan |-> plan[r], paymentId |-> key[r], start |-> now,
                   end |-> now + Validity[plan[r]], lastGrant |-> now]
<1>1. pc[r] = "insert" /\ plan[r] \in Plans /\ now \in Nat
  BY TimeAssumption DEF InsertRow, TypeInv, TypeOK, Equipped, Activating
<1>2. Validity[plan[r]] \in Nat
  BY <1>1, PlanAssumption
<1>3. new \in Row
  BY <1>1, <1>2 DEF Row, TypeInv, TypeOK
<1>4. rows \in [Requests -> Row]
  BY DEF TypeInv, TypeOK
<1>5. rows' = [s \in Requests |->
                 IF s = r THEN new
                 ELSE IF s \in retiring[r] \cap Active
                 THEN [rows[s] EXCEPT !.status = "EXPIRED"]
                 ELSE rows[s]]
  BY DEF InsertRow
<1>6. \A s \in Requests : s \in Active <=> rows[s].status = "ACTIVE"
  BY DEF Active
<1>7. \A s \in Requests :
        /\ [rows[s] EXCEPT !.status = "EXPIRED"] \in Row
        /\ [rows[s] EXCEPT !.status = "EXPIRED"].status = "EXPIRED"
        /\ [rows[s] EXCEPT !.status = "EXPIRED"].plan = rows[s].plan
        /\ [rows[s] EXCEPT !.status = "EXPIRED"].paymentId = rows[s].paymentId
        /\ [rows[s] EXCEPT !.status = "EXPIRED"].start = rows[s].start
        /\ [rows[s] EXCEPT !.status = "EXPIRED"].lastGrant = rows[s].lastGrant
  BY <1>4 DEF Row
<1>8. rows' \in [Requests -> Row]
  BY <1>3, <1>4, <1>5, <1>7
<1>9. rows'[r] = new
  BY <1>5
<1>10. \A s \in Requests \ {r} :
         rows'[s] = IF s \in retiring[r] /\ rows[s].status = "ACTIVE"
                    THEN [rows[s] EXCEPT !.status = "EXPIRED"] ELSE rows[s]
  BY <1>5, <1>6
<1>11. ASSUME NEW s \in Requests \ {r}
       PROVE  /\ rows'[s].plan = rows[s].plan /\ rows'[s].paymentId = rows[s].paymentId
              /\ rows'[s].start = rows[s].start /\ rows'[s].lastGrant = rows[s].lastGrant
              /\ rows'[s].status = IF s \in retiring[r] /\ rows[s].status = "ACTIVE"
                                   THEN "EXPIRED" ELSE rows[s].status
  <2>1. CASE s \in retiring[r] /\ rows[s].status = "ACTIVE"
    BY <1>7, <1>10, <2>1
  <2>2. CASE ~(s \in retiring[r] /\ rows[s].status = "ACTIVE")
    BY <1>10, <2>2
  <2>3. QED
    BY <2>1, <2>2
<1>12. QED
  BY <1>1, <1>8, <1>9, <1>11

LEMMA ActivationType ==
  ASSUME TypeInv, NEW r \in Requests, Activation(r)
  PROVE  TypeInv'
<1>0. TypeOK /\ rows \in [Requests -> Row] /\ pc \in [Requests -> States]
  BY DEF TypeInv, TypeOK, States
<1>1. CASE ActivateFree(r) \/ Verify(r)
  <2>1. PICK p \in Plans, y \in Payments \cup {NoPayment} : Begin(r, p, y)
    BY <1>1, PlanAssumption DEF ActivateFree, Verify
  <2>2. /\ pc' \in [Requests -> States] /\ pc'[r] = "load" /\ pc[r] = "idle"
        /\ \A q \in Requests \ {r} : pc'[q] = pc[q]
    BY <1>0, <2>1, GotoType, StepNames DEF Begin, Activating
  <2>3. /\ plan' \in [Requests -> Plans \cup {NoPlan}] /\ plan'[r] = p
        /\ \A q \in Requests \ {r} : plan'[q] = plan[q]
    BY <1>0, <2>1 DEF Begin, TypeOK
  <2>4. TypeOK'
    BY <1>0, <2>1, <2>2, <2>3 DEF Begin, TypeOK, States, history, orders
  <2>5. UNCHANGED <<rows, snap, row>>
    BY <2>1 DEF Begin
  <2>6. Equipped(r)' /\ rows'[r].status = "none"
    BY <2>2, <2>3, <2>5 DEF TypeInv, Equipped, Granting, Unborn
  <2>7. QED
    BY <2>2, <2>3, <2>4, <2>5, <2>6, EquippedKept DEF TypeInv
<1>2. ASSUME pc[r] \in Activating PROVE plan[r] \in Plans
  BY <1>2 DEF TypeInv, Equipped
<1>3. Activated(r) \in {"done", "mark"}
  BY DEF Activated
<1>4. CASE LoadPending(r) \/ LoadFromDb(r) \/ FindDuplicate(r)
  <2>1. PICK step \in {"loadDb", "cacheRead", "unknown", "done", "mark", "retire"} :
          /\ Goto(r, step) /\ Unborn(r) /\ pc[r] \in Activating
    BY <1>3, <1>4 DEF LoadPending, LoadFromDb, FindDuplicate, Unborn, Activating
  <2>2. step \in States
    BY StepNames DEF Activating
  <2>3. UNCHANGED <<now, rows, live, redis, staged, payment, plan, pay, key, retiring, row, snap, faults,
                    claims, mirrored, dropped, stumbled, overlapped>>
    BY <1>4 DEF LoadPending, LoadFromDb, FindDuplicate, locals, history, orders
  <2>4. QED
    BY <1>0, <1>2, <2>1, <2>2, <2>3, MoveKept DEF TypeOK, PaymentStates
<1>5. CASE CacheRead(r)
  BY <1>2, <1>5, ReadKept DEF CacheRead, Activating, Unborn
<1>6. CASE CacheWrite(r)
  <2>1. plan[r] \in Plans /\ snap[r] \in CachedRecord
    BY <1>2, <1>6 DEF CacheWrite, Activating, TypeInv, Equipped
  <2>2. [sub |-> plan[r], credits |-> snap[r].credits + Monthly[plan[r]]] \in CachedRecord
    BY <2>1, PlanAssumption DEF CachedRecord
  <2>3. QED
    BY <1>6, <2>1, <2>2, WriteKept DEF CacheWrite, Unborn
<1>7. CASE RetirePrior(r)
  <2>1. /\ Goto(r, "insert") /\ "insert" \in States /\ pc[r] = "retire"
        /\ UNCHANGED <<now, rows, live, redis, staged, payment, plan, pay, key, row, snap, faults,
                       claims, mirrored, dropped, stumbled, overlapped>>
    BY <1>7, StepNames DEF RetirePrior, Activating, history, orders
  <2>2. retiring' \in [Requests -> SUBSET Requests]
    BY <1>0, <1>7 DEF RetirePrior, Active, TypeOK
  <2>3. QED
    BY <1>0, <1>2, <2>1, <2>2, MoveKept DEF TypeOK, Activating, Unborn, PaymentStates
<1>8. CASE InsertRow(r)
  <2>1. /\ pc[r] = "insert" /\ plan[r] \in Plans
        /\ rows' \in [Requests -> Row]
        /\ rows'[r].status = "ACTIVE" /\ rows'[r].plan = plan[r]
        /\ \A s \in Requests \ {r} :
             /\ rows'[s].plan = rows[s].plan
             /\ rows'[s].status = "none" <=> rows[s].status = "none"
    BY <1>8, InsertEffect
  <2>2. /\ pc' \in [Requests -> States] /\ pc'[r] \in {"done", "mark"}
        /\ \A q \in Requests \ {r} : pc'[q] = pc[q]
    <3>1. Activated(r) \in States /\ Goto(r, Activated(r))
      BY <1>3, <1>8, StepNames DEF InsertRow, Activating
    <3>2. QED
      BY <1>0, <1>3, <3>1, GotoType
  <2>3. live' \in Nat /\ retiring' \in [Requests -> SUBSET Requests]
    BY <1>0, <1>8, <2>1, PlanAssumption DEF InsertRow, TypeOK
  <2>4. UNCHANGED <<now, redis, staged, payment, plan, pay, key, row, snap, faults, history, overlapped>>
    BY <1>8 DEF InsertRow, orders
  <2>5. TypeOK'
    BY <1>0, <2>1, <2>2, <2>3, <2>4 DEF TypeOK, States, history, orders
  <2>6. Equipped(r)' /\ ~Unborn(r)'
    BY <2>1, <2>2, <2>4 DEF Equipped, Granting, Unborn
  <2>7. QED
    BY <2>1, <2>2, <2>4, <2>5, <2>6, EquippedKept DEF TypeInv
<1>9. CASE ActivateFails(r) \/ LoadFromDbFails(r) \/ PaymentRowFails(r)
  <2>1. PICK step \in {"unknown", "dup", "done", "mark"} :
          /\ Goto(r, step) /\ pc[r] \in Activating
          /\ step = "dup" => Unborn(r)
    BY <1>3, <1>9 DEF ActivateFails, LoadFromDbFails, PaymentRowFails, Activating, Unborn
  <2>2. step \in States
    BY StepNames DEF Activating
  <2>3. UNCHANGED <<now, rows, live, redis, staged, payment, plan, pay, key, row, snap,
                    claims, mirrored, dropped, stumbled, overlapped>>
    BY <1>9 DEF ActivateFails, LoadFromDbFails, PaymentRowFails, locals, history, orders
  <2>4. retiring' \in [Requests -> SUBSET Requests] /\ faults' \in [FaultKinds -> Nat]
    <3>1. Fault("db") /\ (retiring' = retiring \/ retiring' = [retiring EXCEPT ![r] = {}])
      BY <1>9 DEF ActivateFails, LoadFromDbFails, PaymentRowFails, locals
    <3>2. QED
      BY <1>0, <3>1, FaultType DEF TypeOK
  <2>5. QED
    BY <1>0, <1>2, <2>1, <2>2, <2>3, <2>4, MoveKept DEF TypeOK, PaymentStates
<1>10. CASE ClearOrder(r) \/ MarkSuccess(r) \/ MarkFails(r)
  <2>1. PICK step \in {"clear", "done"} : Goto(r, step)
    BY <1>10 DEF ClearOrder, MarkSuccess, MarkFails
  <2>2. step \in States /\ pc[r] \in Activating
    BY <1>10, StepNames DEF Activating, ClearOrder, MarkSuccess, MarkFails
  <2>3. UNCHANGED <<now, rows, live, redis, plan, pay, key, row, retiring, snap,
                    claims, mirrored, dropped, overlapped>>
    BY <1>10 DEF ClearOrder, MarkSuccess, MarkFails, history, locals
  <2>4. staged' \in SUBSET Payments
    BY <1>0, <1>10 DEF ClearOrder, MarkSuccess, MarkFails, TypeOK, orders
  <2>5. payment' \in [Payments -> PaymentStates]
    BY <1>0, <1>10 DEF ClearOrder, MarkSuccess, MarkFails, TypeOK, orders, PaymentStates
  <2>6. stumbled' \in SUBSET Requests
    BY <1>0, <1>10 DEF ClearOrder, MarkSuccess, MarkFails, TypeOK, history
  <2>7. faults' \in [FaultKinds -> Nat]
    <3>1. CASE ClearOrder(r) \/ MarkSuccess(r)
      BY <1>0, <3>1 DEF ClearOrder, MarkSuccess, TypeOK
    <3>2. CASE MarkFails(r)
      BY <1>0, <3>2, FaultType DEF MarkFails
    <3>3. QED
      BY <1>10, <3>1, <3>2
  <2>8. QED
    BY <1>0, <1>2, <2>1, <2>2, <2>3, <2>4, <2>5, <2>6, <2>7, MoveKept DEF TypeOK
<1>11. CASE PaymentRow(r)
  <2>1. /\ Goto(r, "dup") /\ "dup" \in States /\ pc[r] = "payRow"
        /\ UNCHANGED <<now, rows, live, redis, staged, payment, plan, pay, row, retiring, snap, faults,
                       claims, mirrored, dropped, stumbled, overlapped>>
    BY <1>11, StepNames DEF PaymentRow, Activating, history, orders
  <2>2. key' \in [Requests -> Payments \cup {NoPayment}]
    BY <1>0, <1>11 DEF PaymentRow, Found, TypeOK
  <2>3. QED
    BY <1>0, <1>2, <2>1, <2>2, MoveKept DEF TypeOK, PaymentStates, Activating, Unborn
<1>12. QED
  BY <1>1, <1>4, <1>5, <1>6, <1>7, <1>8, <1>9, <1>10, <1>11 DEF Activation

(* Cancellations and expiries end rows, and do nothing else to them.       *)
LEMMA EndingEffect ==
  ASSUME TypeInv, NEW r \in Requests, Cancel(r) \/ FlipExpired(r)
  PROVE  /\ rows' \in [Requests -> Row]
         /\ \A s \in Requests :
              /\ rows'[s].plan = rows[s].plan /\ rows'[s].paymentId = rows[s].paymentId
              /\ rows'[s].start = rows[s].start /\ rows'[s].lastGrant = rows[s].lastGrant
              /\ \/ rows'[s].status = rows[s].status
                 \/ rows[s].status = "ACTIVE" /\ rows'[s].status \in {"EXPIRED", "CANCELLED"}
<1>1. rows \in [Requests -> Row]
  BY DEF TypeInv, TypeOK
<1>2. \A s \in Requests, end \in {"EXPIRED", "CANCELLED"} :
        /\ [rows[s] EXCEPT !.status = end] \in Row
        /\ [rows[s] EXCEPT !.status = end].status = end
        /\ [rows[s] EXCEPT !.status = end].plan = rows[s].plan
        /\ [rows[s] EXCEPT !.status = end].paymentId = rows[s].paymentId
        /\ [rows[s] EXCEPT !.status = end].start = rows[s].start
        /\ [rows[s] EXCEPT !.status = end].lastGrant = rows[s].lastGrant
  BY <1>1 DEF Row
<1>3. \E end \in {"EXPIRED", "CANCELLED"} : \A s \in Requests :
        \/ rows'[s] = rows[s]
        \/ rows[s].status = "ACTIVE" /\ rows'[s] = [rows[s] EXCEPT !.status = end]
  <2>1. CASE Cancel(r)
    BY <2>1 DEF Cancel, Active
  <2>2. CASE FlipExpired(r)
    <3>1. CASE row[r] \in Active
      <4>1. /\ rows' = [rows EXCEPT ![row[r]] = [rows[row[r]] EXCEPT !.status = "EXPIRED"]]
            /\ rows[row[r]].status = "ACTIVE"
        BY <2>2, <3>1 DEF FlipExpired, Active
      <4>2. QED
        BY <1>1, <4>1
    <3>2. CASE row[r] \notin Active
      BY <2>2, <3>2 DEF FlipExpired
    <3>3. QED
      BY <3>1, <3>2
  <2>3. QED
    BY <2>1, <2>2
<1>4. \E f : rows' = [s \in Requests |-> f[s]]
  <2>1. CASE Cancel(r)
    <3>1. rows' = [s \in Requests |-> rows'[s]]
      BY <2>1 DEF Cancel
    <3>2. QED
      BY <3>1
  <2>2. CASE FlipExpired(r)
    <3>1. rows' = [s \in Requests |-> rows'[s]]
      BY <1>1, <2>2 DEF FlipExpired
    <3>2. QED
      BY <3>1
  <2>3. QED
    BY <2>1, <2>2
<1>5. PICK end \in {"EXPIRED", "CANCELLED"} : \A s \in Requests :
        \/ rows'[s] = rows[s]
        \/ rows[s].status = "ACTIVE" /\ rows'[s] = [rows[s] EXCEPT !.status = end]
  BY <1>3
<1>6. ASSUME NEW s \in Requests
      PROVE  /\ rows'[s] \in Row
             /\ rows'[s].plan = rows[s].plan /\ rows'[s].paymentId = rows[s].paymentId
             /\ rows'[s].start = rows[s].start /\ rows'[s].lastGrant = rows[s].lastGrant
             /\ \/ rows'[s].status = rows[s].status
                \/ rows[s].status = "ACTIVE" /\ rows'[s].status \in {"EXPIRED", "CANCELLED"}
  <2>1. CASE rows'[s] = rows[s]
    BY <1>1, <2>1
  <2>2. CASE rows[s].status = "ACTIVE" /\ rows'[s] = [rows[s] EXCEPT !.status = end]
    <3> DEFINE x == [rows[s] EXCEPT !.status = end]
    <3>1. /\ x \in Row /\ x.status = end /\ x.plan = rows[s].plan /\ x.paymentId = rows[s].paymentId
          /\ x.start = rows[s].start /\ x.lastGrant = rows[s].lastGrant
      BY <1>2
    <3>2. rows'[s] = x /\ rows[s].status = "ACTIVE"
      BY <2>2
    <3> HIDE DEF x
    <3>3. QED
      BY <3>1, <3>2
  <2>3. QED
    BY <1>5, <2>1, <2>2
<1>7. rows' \in [Requests -> Row]
  BY <1>4, <1>6
<1>8. QED
  BY <1>6, <1>7

(* A claim moves the date of the last grant of the rows that are due.      *)
LEMMA ClaimEffect ==
  ASSUME TypeInv, NEW r \in Requests, ClaimRenewal(r)
  PROVE  /\ rows' \in [Requests -> Row]
         /\ \A s \in Requests :
              /\ rows'[s].plan = rows[s].plan /\ rows'[s].paymentId = rows[s].paymentId
              /\ rows'[s].start = rows[s].start /\ rows'[s].status = rows[s].status
              /\ rows'[s].lastGrant = IF Due(s) THEN now ELSE rows[s].lastGrant
              /\ claims'[s] = IF Due(s) THEN claims[s] + 1 ELSE claims[s]
         /\ claims' \in [Requests -> Nat]
<1>1. rows \in [Requests -> Row] /\ now \in Nat /\ claims \in [Requests -> Nat]
  BY TimeAssumption DEF TypeInv, TypeOK
<1>2. \A s \in Requests : 
        /\ [rows[s] EXCEPT !.lastGrant = now] \in Row
        /\ [rows[s] EXCEPT !.lastGrant = now].lastGrant = now
        /\ [rows[s] EXCEPT !.lastGrant = now].plan = rows[s].plan
        /\ [rows[s] EXCEPT !.lastGrant = now].paymentId = rows[s].paymentId
        /\ [rows[s] EXCEPT !.lastGrant = now].start = rows[s].start
        /\ [rows[s] EXCEPT !.lastGrant = now].status = rows[s].status
  BY <1>1 DEF Row
<1>3. PICK due \in SUBSET Requests :
        /\ \A s \in Requests : s \in due <=> Due(s)
        /\ rows' = [s \in Requests |-> IF s \in due THEN [rows[s] EXCEPT !.lastGrant = now] ELSE rows[s]]
        /\ claims' = [s \in Requests |-> IF s \in due THEN claims[s] + 1 ELSE claims[s]]
  <2> DEFINE due == {s \in Requests : Due(s)}
  <2>1. /\ due \in SUBSET Requests
        /\ \A s \in Requests : s \in due <=> Due(s)
    OBVIOUS
  <2>2. /\ rows' = [s \in Requests |-> IF s \in due THEN [rows[s] EXCEPT !.lastGrant = now] ELSE rows[s]]
        /\ claims' = [s \in Requests |-> IF s \in due THEN claims[s] + 1 ELSE claims[s]]
    BY DEF ClaimRenewal
  <2> HIDE DEF due
  <2>3. QED
    BY <2>1, <2>2
<1>4. rows' \in [Requests -> Row] /\ claims' \in [Requests -> Nat]
  BY <1>1, <1>2, <1>3
<1>5. ASSUME NEW s \in Requests
      PROVE  /\ rows'[s] = IF Due(s) THEN [rows[s] EXCEPT !.lastGrant = now] ELSE rows[s]
             /\ claims'[s] = IF Due(s) THEN claims[s] + 1 ELSE claims[s]
  BY <1>3
<1>6. ASSUME NEW s \in Requests
      PROVE  /\ rows'[s].plan = rows[s].plan /\ rows'[s].paymentId = rows[s].paymentId
             /\ rows'[s].start = rows[s].start /\ rows'[s].status = rows[s].status
             /\ rows'[s].lastGrant = IF Due(s) THEN now ELSE rows[s].lastGrant
  <2>1. CASE Due(s)
    BY <1>2, <1>5, <2>1
  <2>2. CASE ~Due(s)
    BY <1>5, <2>2
  <2>3. QED
    BY <2>1, <2>2
<1>7. QED
  BY <1>4, <1>5, <1>6

(* What becomes of the request that claimed.                               *)
LEMMA ClaimMove ==
  ASSUME TypeInv, NEW r \in Requests, ClaimRenewal(r)
  PROVE  /\ pc[r] = "claim"
         /\ UNCHANGED <<now, live, redis, staged, payment, plan, pay, key, retiring, snap, faults, mirrored, stumbled, overlapped>>
         /\ \/ /\ \A s \in Requests : ~Due(s)
               /\ Goto(r, "select") /\ UNCHANGED <<row, dropped>>
            \/ \E s \in Requests :
                 /\ Due(s) /\ Goto(r, "grantRead")
                 /\ row' = [row EXCEPT ![r] = s]
                 /\ dropped' = [x \in Requests |-> IF Due(x) /\ x # s THEN dropped[x] + 1 ELSE dropped[x]]
<1> DEFINE due == {s \in Requests : Due(s)}
<1>1. \A s \in Requests : s \in due <=> Due(s)
  OBVIOUS
<1>2. /\ pc[r] = "claim"
      /\ UNCHANGED <<now, live, redis, staged, payment, plan, pay, key, retiring, snap, faults, mirrored, stumbled, overlapped>>
  BY DEF ClaimRenewal, orders
<1>3. \/ due = {} /\ Goto(r, "select") /\ UNCHANGED <<row, dropped>>
      \/ \E s \in due :
           /\ row' = [row EXCEPT ![r] = s]
           /\ dropped' = [x \in Requests |-> IF x \in due \ {s} THEN dropped[x] + 1 ELSE dropped[x]]
           /\ Goto(r, "grantRead")
  BY DEF ClaimRenewal
<1>4. CASE due = {} /\ Goto(r, "select") /\ UNCHANGED <<row, dropped>>
  BY <1>1, <1>2, <1>4
<1>5. ASSUME NEW s \in due, row' = [row EXCEPT ![r] = s], Goto(r, "grantRead"),
             dropped' = [x \in Requests |-> IF x \in due \ {s} THEN dropped[x] + 1 ELSE dropped[x]]
      PROVE  /\ s \in Requests /\ Due(s)
             /\ dropped' = [x \in Requests |-> IF Due(x) /\ x # s THEN dropped[x] + 1 ELSE dropped[x]]
  BY <1>5
<1>6. QED
  BY <1>2, <1>3, <1>4, <1>5

LEMMA CancellationType ==
  ASSUME TypeInv, NEW r \in Requests, Cancellation(r)
  PROVE  TypeInv'
<1>0. TypeOK /\ rows \in [Requests -> Row] /\ pc \in [Requests -> States]
  BY DEF TypeInv, TypeOK, States
<1>1. CASE StartCancel(r)
  <2>1. /\ Goto(r, "cancel") /\ "cancel" \in States
        /\ UNCHANGED <<now, rows, live, redis, staged, payment, plan, pay, key, row, retiring, snap, faults,
                       claims, mirrored, dropped, stumbled>>
    BY <1>1, StepNames DEF StartCancel, Cancelling, locals, history, orders
  <2>2. overlapped' \in BOOLEAN
    BY <1>1 DEF StartCancel
  <2>3. QED
    BY <1>0, <2>1, <2>2, MoveKept DEF TypeOK, Activating, PaymentStates
<1>2. CASE Cancel(r)
  <2>1. /\ rows' \in [Requests -> Row]
        /\ \A s \in Requests : /\ rows'[s].plan = rows[s].plan
                               /\ rows'[s].status = "none" <=> rows[s].status = "none"
    BY <1>2, EndingEffect
  <2>2. /\ pc' \in [Requests -> States] /\ pc'[r] \in {"done", "uncacheRead"}
        /\ \A q \in Requests \ {r} : pc'[q] = pc[q]
    BY <1>0, <1>2, GotoType, StepNames DEF Cancel, Cancelling
  <2>3. UNCHANGED <<now, live, redis, staged, payment, plan, pay, key, row, retiring, snap, faults,
                    claims, mirrored, dropped, stumbled, overlapped>>
    BY <1>2 DEF Cancel, locals, history, orders
  <2>4. TypeOK'
    BY <1>0, <2>1, <2>2, <2>3 DEF TypeOK, States
  <2>5. Equipped(r)' /\ ~Unborn(r)'
    BY <2>2 DEF Equipped, Granting, Unborn, Activating
  <2>6. QED
    BY <2>1, <2>2, <2>3, <2>4, <2>5, EquippedKept DEF TypeInv
<1>3. CASE UncacheRead(r)
  BY <1>3, ReadKept DEF UncacheRead, Activating
<1>4. CASE UncacheWrite(r)
  <2>1. snap[r] \in CachedRecord
    BY <1>4 DEF UncacheWrite, TypeInv, Equipped
  <2>2. [snap[r] EXCEPT !.sub = NoPlan] \in CachedRecord
    BY <2>1 DEF CachedRecord
  <2>3. QED
    BY <1>4, <2>2, WriteKept DEF UncacheWrite
<1>5. QED
  BY <1>1, <1>2, <1>3, <1>4 DEF Cancellation

LEMMA EntitlementType ==
  ASSUME TypeInv, NEW r \in Requests, Entitlement(r)
  PROVE  TypeInv'
<1>0. TypeOK /\ rows \in [Requests -> Row] /\ pc \in [Requests -> States]
  BY DEF TypeInv, TypeOK, States
<1>1. ASSUME NEW step \in {"claim", "select", "done"}, Goto(r, step),
             UNCHANGED <<now, rows, live, redis, staged, payment, plan, pay, key, row, retiring, snap, faults,
                         claims, mirrored, dropped, stumbled, overlapped>>
      PROVE  TypeInv'
  <2>1. step \in States
    BY StepNames DEF Renewing, Entitling
  <2>2. QED
    BY <1>0, <1>1, <2>1, MoveKept DEF TypeOK, Activating, PaymentStates
<1>2. CASE StartEntitlement(r) \/ Notify(r)
  BY <1>1, <1>2 DEF StartEntitlement, Notify, locals, history, orders
<1>3. CASE ClaimRenewal(r)
  <2>1. /\ rows' \in [Requests -> Row] /\ claims' \in [Requests -> Nat]
        /\ \A s \in Requests : rows'[s].plan = rows[s].plan /\ rows'[s].status = rows[s].status
    BY <1>3, ClaimEffect
  <2>2. UNCHANGED <<now, live, redis, staged, payment, plan, pay, key, retiring, snap, faults, mirrored, stumbled, overlapped>>
    BY <1>3, ClaimMove
  <2>3. CASE Goto(r, "select") /\ UNCHANGED <<row, dropped>>
    <3>1. /\ pc' \in [Requests -> States] /\ pc'[r] = "select"
          /\ \A q \in Requests \ {r} : pc'[q] = pc[q]
      BY <1>0, <2>3, GotoType, StepNames DEF Entitling
    <3>2. TypeOK'
      BY <1>0, <2>1, <2>2, <2>3, <3>1 DEF TypeOK, States
    <3>3. Equipped(r)' /\ ~Unborn(r)'
      BY <3>1 DEF Equipped, Granting, Unborn, Activating
    <3>4. QED
      BY <2>1, <2>2, <2>3, <3>1, <3>2, <3>3, EquippedKept DEF TypeInv
  <2>4. ASSUME NEW s \in Requests, Due(s), Goto(r, "grantRead"), row' = [row EXCEPT ![r] = s],
               dropped' = [x \in Requests |-> IF Due(x) /\ x # s THEN dropped[x] + 1 ELSE dropped[x]]
        PROVE  TypeInv'
    <3>1. /\ pc' \in [Requests -> States] /\ pc'[r] = "grantRead"
          /\ \A q \in Requests \ {r} : pc'[q] = pc[q]
      BY <1>0, <2>4, GotoType, StepNames DEF Renewing
    <3>2. /\ row' \in [Requests -> Requests \cup {NoRow}] /\ row'[r] = s
          /\ \A q \in Requests \ {r} : row'[q] = row[q]
      BY <1>0, <2>4 DEF TypeOK
    <3>3. dropped' \in [Requests -> Nat]
      BY <1>0, <2>4 DEF TypeOK
    <3>4. TypeOK'
      BY <1>0, <2>1, <2>2, <3>1, <3>2, <3>3 DEF TypeOK, States
    <3>5. rows'[s].status # "none"
      BY <2>1, <2>4 DEF Due
    <3>6. Equipped(r)' /\ ~Unborn(r)'
      BY <3>1, <3>2, <3>5 DEF Equipped, Granting, Unborn, Activating
    <3>7. QED
      BY <2>1, <2>2, <3>1, <3>2, <3>4, <3>6, EquippedKept DEF TypeInv
  <2>5. QED
    BY <1>3, <2>3, <2>4, ClaimMove
<1>4. CASE GrantRead(r)
  BY <1>4, ReadKept DEF GrantRead, Activating, Granting
<1>5. Granting(r) => row[r] \in Requests /\ rows[row[r]].plan \in Plans
  BY DEF TypeInv, Equipped
<1>6. CASE GrantWrite(r)
  <2>1. snap[r] \in CachedRecord /\ Monthly[rows[row[r]].plan] \in Nat
    BY <1>5, <1>6, PlanAssumption DEF GrantWrite, Granting, TypeInv, Equipped
  <2>2. [snap[r] EXCEPT !.credits = @ + Monthly[rows[row[r]].plan]] \in CachedRecord
    BY <2>1 DEF CachedRecord
  <2>3. QED
    BY <1>6, <2>2, WriteKept DEF GrantWrite, Granting
<1>7. CASE MirrorRenewal(r)
  <2>1. /\ Goto(r, "select") /\ "select" \in States
        /\ UNCHANGED <<now, rows, redis, staged, payment, plan, pay, key, row, retiring, snap, faults,
                       claims, dropped, stumbled, overlapped>>
    BY <1>7, StepNames DEF MirrorRenewal, Entitling, locals, orders
  <2>2. live' \in Nat /\ mirrored' \in [Requests -> Nat]
    <3>1. Monthly[rows[row[r]].plan] \in Nat /\ row[r] \in Requests
      BY <1>5, <1>7, PlanAssumption DEF MirrorRenewal, Granting
    <3>2. live \in Nat /\ mirrored \in [Requests -> Nat]
      BY <1>0 DEF TypeOK
    <3>3. live' = live + Monthly[rows[row[r]].plan] /\ mirrored' = [mirrored EXCEPT ![row[r]] = @ + 1]
      BY <1>7 DEF MirrorRenewal
    <3>4. QED
      BY <3>1, <3>2, <3>3
  <2>3. QED
    BY <1>0, <2>1, <2>2, MoveKept DEF TypeOK, Activating, PaymentStates
<1>8. CASE RenewalFails(r)
  <2>1. /\ Goto(r, "select") /\ "select" \in States
        /\ UNCHANGED <<now, rows, live, redis, staged, payment, plan, pay, key, row, retiring, snap,
                       claims, mirrored, stumbled, overlapped>>
    BY <1>8, StepNames DEF RenewalFails, Entitling, locals, orders
  <2>2. dropped' \in [Requests -> Nat] /\ faults' \in [FaultKinds -> Nat]
    BY <1>0, <1>5, <1>8, FaultType DEF RenewalFails, TypeOK, Granting
  <2>3. QED
    BY <1>0, <2>1, <2>2, MoveKept DEF TypeOK, Activating, PaymentStates
<1>9. CASE SelectActive(r)
  <2>1. UNCHANGED <<now, rows, live, redis, staged, payment, plan, pay, key, retiring, snap, faults,
                    claims, mirrored, dropped, stumbled, overlapped>>
    BY <1>9 DEF SelectActive, history, orders
  <2>2. CASE Goto(r, "done") /\ UNCHANGED row
    BY <1>1, <2>1, <2>2
  <2>3. ASSUME NEW s \in Active, NEW step \in {"flip", "done"}, Goto(r, step),
               row' = [row EXCEPT ![r] = s]
        PROVE  TypeInv'
    <3>1. /\ pc' \in [Requests -> States] /\ pc'[r] = step
          /\ \A q \in Requests \ {r} : pc'[q] = pc[q]
      BY <1>0, <2>3, GotoType, StepNames DEF Entitling
    <3>2. s \in Requests /\ rows[s].status = "ACTIVE"
      BY DEF Active
    <3>3. /\ row' \in [Requests -> Requests \cup {NoRow}] /\ row'[r] = s
          /\ \A q \in Requests \ {r} : row'[q] = row[q]
      BY <1>0, <2>3, <3>2 DEF TypeOK
    <3>4. TypeOK'
      BY <1>0, <2>1, <3>1, <3>3 DEF TypeOK, States
    <3>5. Equipped(r)' /\ ~Unborn(r)'
      BY <2>1, <3>1, <3>2, <3>3 DEF Equipped, Granting, Unborn, Activating
    <3>6. QED
      BY <2>1, <3>1, <3>3, <3>4, <3>5, EquippedKept DEF TypeInv
  <2>4. QED
    BY <1>9, <2>2, <2>3 DEF SelectActive
<1>10. CASE FlipExpired(r)
  <2>1. /\ rows' \in [Requests -> Row]
        /\ \A s \in Requests : /\ rows'[s].plan = rows[s].plan
                               /\ rows'[s].status = "none" <=> rows[s].status = "none"
    BY <1>10, EndingEffect
  <2>2. /\ pc' \in [Requests -> States] /\ pc'[r] \in {"done", "notify"}
        /\ \A q \in Requests \ {r} : pc'[q] = pc[q]
    BY <1>0, <1>10, GotoType, StepNames DEF FlipExpired, Entitling
  <2>3. UNCHANGED <<now, live, redis, staged, payment, plan, pay, key, row, retiring, snap, faults,
                    claims, mirrored, dropped, stumbled, overlapped>>
    BY <1>10 DEF FlipExpired, locals, history, orders
  <2>4. TypeOK'
    BY <1>0, <2>1, <2>2, <2>3 DEF TypeOK, States
  <2>5. Equipped(r)' /\ ~Unborn(r)'
    <3>1. row[r] \in Requests /\ rows[row[r]].status # "none"
      BY <1>10 DEF FlipExpired, TypeInv, Equipped
    <3>2. QED
      BY <2>1, <2>2, <2>3, <3>1 DEF Equipped, Granting, Unborn, Activating
  <2>6. QED
    BY <2>1, <2>2, <2>3, <2>4, <2>5, EquippedKept DEF TypeInv
<1>11. QED
  BY <1>2, <1>3, <1>4, <1>6, <1>7, <1>8, <1>9, <1>10 DEF Entitlement

LEMMA TypeStep ==
  ASSUME TypeInv, [Next]_vars
  PROVE  TypeInv'
<1>0. TypeOK
  BY DEF TypeInv
<1>1. CASE Tick
  <2>1. now' \in 0..MaxTime
    BY <1>0, <1>1, TimeAssumption DEF Tick, TypeOK
  <2>2. UNCHANGED <<rows, live, redis, staged, payment, pc, plan, pay, key, retiring, row, snap, faults,
                    claims, mirrored, dropped, stumbled, overlapped>>
    BY <1>1 DEF Tick, locals, history, orders
  <2>3. QED
    BY <2>1, <2>2 DEF TypeInv, TypeOK, Equipped, Granting, Unborn
<1>2. ASSUME NEW r \in Requests, Crash(r) PROVE TypeInv'
  <2>1. /\ pc' \in [Requests -> States] /\ pc'[r] = "crashed"
        /\ \A q \in Requests \ {r} : pc'[q] = pc[q]
    BY <1>0, <1>2, GotoType, StepNames DEF Crash
  <2>2. UNCHANGED <<now, rows, live, redis, staged, payment, plan, pay, key, row, claims, mirrored, overlapped>>
    BY <1>2 DEF Crash, orders
  <2>3. /\ snap' \in [Requests -> [sub: Plans \cup {NoPlan}, credits: Nat] \cup {NoRecord}]
        /\ \A q \in Requests \ {r} : snap'[q] = snap[q]
    BY <1>0, <1>2 DEF Crash, TypeOK
  <2>4. /\ retiring' \in [Requests -> SUBSET Requests]
        /\ faults' \in [FaultKinds -> Nat]
    BY <1>0, <1>2, FaultType DEF Crash, TypeOK
  <2>5. dropped' \in [Requests -> Nat] /\ stumbled' \in SUBSET Requests
    BY <1>0, <1>2 DEF Crash, TypeOK, TypeInv, Equipped, Granting
  <2>6. TypeOK'
    BY <1>0, <2>1, <2>2, <2>3, <2>4, <2>5 DEF TypeOK, States
  <2>7. Equipped(r)' /\ ~Unborn(r)'
    BY <2>1 DEF Equipped, Granting, Unborn, Activating
  <2>8. QED
    BY <2>1, <2>2, <2>3, <2>6, <2>7, EquippedKept DEF TypeInv
<1>3. CASE UNCHANGED vars
  BY <1>3 DEF vars, locals, history, orders, TypeInv, TypeOK, Equipped, Granting, Unborn
<1>4. ASSUME NEW y \in Payments, LoseOrder(y) PROVE TypeInv'
  <2>1. staged' \in SUBSET Payments /\ faults' \in [FaultKinds -> Nat]
    BY <1>0, <1>4, FaultType DEF LoseOrder, TypeOK
  <2>2. UNCHANGED <<now, rows, live, redis, payment, pc, plan, pay, key, retiring, row, snap,
                    claims, mirrored, dropped, stumbled, overlapped>>
    BY <1>4 DEF LoseOrder, locals, history
  <2>3. QED
    BY <2>1, <2>2 DEF TypeInv, TypeOK, Equipped, Granting, Unborn
<1>5. QED
  BY <1>1, <1>2, <1>3, <1>4, ActivationType, CancellationType, EntitlementType DEF Next

LEMMA TypeInvariant == Spec => []TypeInv
BY TypeInit, TypeStep, PTL DEF Spec

(* Rows, caches and requests keep their types: a request that writes the   *)
(* record back has read it, and one that grants a renewal works on a row   *)
(* there is (_activate_subscription, _apply_due_renewal).                  *)
THEOREM TypeCorrect == Spec => []TypeOK
<1>1. TypeInv => TypeOK
  BY DEF TypeInv
<1>2. QED
  BY <1>1, TypeInvariant, PTL

-----------------------------------------------------------------------------
(* Renewals *)

(* The steps that change rows or claim renewals.                           *)
LEMMA RowSteps ==
  ASSUME TypeInv, [Next]_vars
  PROVE  \/ UNCHANGED <<rows, claims>>
         \/ \E r \in Requests : InsertRow(r) /\ UNCHANGED claims
         \/ \E r \in Requests : (Cancel(r) \/ FlipExpired(r)) /\ UNCHANGED claims
         \/ \E r \in Requests : ClaimRenewal(r)
<1>1. CASE Tick \/ UNCHANGED vars \/ \E y \in Payments : LoseOrder(y)
  BY <1>1 DEF Tick, LoseOrder, vars, history
<1>2. ASSUME NEW r \in Requests, Activation(r)
      PROVE  UNCHANGED <<rows, claims>> \/ (InsertRow(r) /\ UNCHANGED claims)
  BY <1>2 DEF Activation, ActivateFree, Verify, Begin, LoadPending, LoadFromDb, LoadFromDbFails,
     CacheRead, ReadRecord, CacheWrite, WriteRecord, PaymentRow, PaymentRowFails, FindDuplicate,
     RetirePrior, InsertRow, ActivateFails, MarkSuccess, MarkFails, ClearOrder, history
<1>3. ASSUME NEW r \in Requests, Cancellation(r)
      PROVE  UNCHANGED <<rows, claims>> \/ (Cancel(r) /\ UNCHANGED claims)
  BY <1>3 DEF Cancellation, StartCancel, Cancel, UncacheRead, ReadRecord, UncacheWrite, WriteRecord, history, orders
<1>4. ASSUME NEW r \in Requests, Entitlement(r)
      PROVE  \/ UNCHANGED <<rows, claims>>
             \/ ClaimRenewal(r)
             \/ FlipExpired(r) /\ UNCHANGED claims
  BY <1>4 DEF Entitlement, StartEntitlement, GrantRead, ReadRecord, GrantWrite, WriteRecord,
     MirrorRenewal, RenewalFails, SelectActive, FlipExpired, Notify, history, orders
<1>5. ASSUME NEW r \in Requests, Crash(r) PROVE UNCHANGED <<rows, claims>>
  BY <1>5 DEF Crash
<1>6. QED
  BY <1>1, <1>2, <1>3, <1>4, <1>5 DEF Next

CycleInv ==
  \A s \in Requests :
    /\ claims[s] * Cycle <= rows[s].lastGrant - rows[s].start
    /\ rows[s].status = "none" => claims[s] = 0

LEMMA RowNumbers ==
  ASSUME TypeOK, NEW s \in Requests
  PROVE  /\ rows[s].lastGrant \in Nat /\ rows[s].start \in Nat
         /\ now \in Nat /\ Cycle \in Nat \ {0} /\ claims[s] \in Nat
<1>1. rows[s] \in Row
  BY DEF TypeOK
<1>2. QED
  BY <1>1, TimeAssumption DEF Row, TypeOK

LEMMA CycleStep ==
  ASSUME TypeInv, CycleInv, [Next]_vars
  PROVE  CycleInv'
<1>0. TypeOK
  BY DEF TypeInv
<1>1. CASE UNCHANGED <<rows, claims>>
  BY <1>1 DEF CycleInv
<1>2. ASSUME NEW r \in Requests, InsertRow(r), UNCHANGED claims PROVE CycleInv'
  <2>1. /\ pc[r] = "insert" /\ rows'[r].status = "ACTIVE"
        /\ rows'[r].start = now /\ rows'[r].lastGrant = now
        /\ \A s \in Requests \ {r} :
             /\ rows'[s].start = rows[s].start /\ rows'[s].lastGrant = rows[s].lastGrant
             /\ rows'[s].status = "none" => rows[s].status = "none"
    BY <1>2, InsertEffect
  <2>2. claims[r] = 0
    BY <2>1 DEF TypeInv, Unborn, CycleInv
  <2>3. 0 * Cycle <= now - now
    BY <1>0, RowNumbers
  <2>4. QED
    BY <1>2, <2>1, <2>2, <2>3 DEF CycleInv
<1>3. ASSUME NEW r \in Requests, Cancel(r) \/ FlipExpired(r), UNCHANGED claims PROVE CycleInv'
  <2>1. \A s \in Requests :
          /\ rows'[s].start = rows[s].start /\ rows'[s].lastGrant = rows[s].lastGrant
          /\ rows'[s].status = "none" => rows[s].status = "none"
    BY <1>3, EndingEffect
  <2>2. QED
    BY <1>3, <2>1 DEF CycleInv
<1>4. ASSUME NEW r \in Requests, ClaimRenewal(r), NEW s \in Requests
      PROVE  /\ claims'[s] * Cycle <= rows'[s].lastGrant - rows'[s].start
             /\ rows'[s].status = "none" => claims'[s] = 0
  <2>1. /\ rows'[s].start = rows[s].start /\ rows'[s].status = rows[s].status
        /\ rows'[s].lastGrant = IF Due(s) THEN now ELSE rows[s].lastGrant
        /\ claims'[s] = IF Due(s) THEN claims[s] + 1 ELSE claims[s]
    BY <1>4, ClaimEffect
  <2>2. CASE ~Due(s)
    BY <2>1, <2>2 DEF CycleInv
  <2>3. CASE Due(s)
    <3>1. rows[s].lastGrant + Cycle <= now /\ rows[s].status = "ACTIVE"
      BY <2>3 DEF Due
    <3>2. claims[s] * Cycle <= rows[s].lastGrant - rows[s].start
      BY DEF CycleInv
    <3>3. (claims[s] + 1) * Cycle = claims[s] * Cycle + Cycle /\ claims[s] * Cycle \in Nat
      BY <1>0, RowNumbers
    <3>4. claims[s] * Cycle + Cycle <= now - rows[s].start
      BY <1>0, <3>1, <3>2, <3>3, RowNumbers
    <3>5. QED
      BY <2>1, <2>3, <3>1, <3>3, <3>4
  <2>4. QED
    BY <2>2, <2>3
<1>5. QED
  BY <1>1, <1>2, <1>3, <1>4, RowSteps DEF CycleInv

(* A row is never granted two renewals in a cycle, however many requests   *)
(* ask for the entitlement at once (claim_due_renewal).                    *)
THEOREM NeverTwice == Spec => []NeverTwiceInCycle
<1>1. Init => CycleInv
  <2> SUFFICES ASSUME Init PROVE CycleInv
    OBVIOUS
  <2>1. 0 * Cycle <= 0 - 0
    BY TimeAssumption
  <2>2. QED
    BY <2>1 DEF Init, CycleInv, Absent
<1>2. TypeInv /\ CycleInv /\ [Next]_vars => CycleInv'
  BY CycleStep
<1>3. CycleInv => NeverTwiceInCycle
  BY DEF CycleInv, NeverTwiceInCycle
<1>4. QED
  BY <1>1, <1>2, <1>3, TypeInvariant, PTL DEF Spec

(* The requests that have claimed a renewal of the row for its wallet.     *)
Way(s) == {r \in Requests : row[r] = s /\ pc[r] \in {"grantRead", "grantWrite", "mirror"}}

WayCounted(s) ==
  /\ IsFiniteSet(Way(s))
  /\ claims[s] = mirrored[s] + dropped[s] + Cardinality(Way(s))

WayInv == \A s \in Requests : WayCounted(s)

LEMMA WayKept ==
  ASSUME WayInv, UNCHANGED <<claims, mirrored, dropped>>, NEW r \in Requests,
         \A q \in Requests \ {r} : pc'[q] = pc[q] /\ row'[q] = row[q],
         \/ ~Granting(r) /\ ~Granting(r)'
         \/ Granting(r) /\ Granting(r)' /\ row'[r] = row[r]
  PROVE  WayInv'
<1>1. \A s \in Requests : Way(s)' = Way(s)
  BY DEF Way, Granting
<1>2. QED
  BY <1>1 DEF WayInv, WayCounted

(* A renewal is mirrored or given up.                                      *)
LEMMA WayLeft ==
  ASSUME TypeInv, WayInv, NEW r \in Requests, Granting(r), ~Granting(r)',
         UNCHANGED <<claims, row>>, \A q \in Requests \ {r} : pc'[q] = pc[q],
         \/ mirrored' = [mirrored EXCEPT ![row[r]] = @ + 1] /\ UNCHANGED dropped
         \/ dropped' = [dropped EXCEPT ![row[r]] = @ + 1] /\ UNCHANGED mirrored
  PROVE  WayInv'
<1> SUFFICES ASSUME NEW s \in Requests PROVE WayCounted(s)'
  BY DEF WayInv
<1>1. /\ mirrored \in [Requests -> Nat] /\ dropped \in [Requests -> Nat]
      /\ claims[s] \in Nat /\ WayCounted(s)
  BY DEF TypeInv, TypeOK, WayInv
<1>2. IsFiniteSet(Way(s)) /\ Cardinality(Way(s)) \in Nat
  BY <1>1, FS_CardinalityType DEF WayCounted
<1>3. CASE s # row[r]
  <2>1. Way(s)' = Way(s)
    BY <1>3 DEF Way, Granting
  <2>2. mirrored'[s] = mirrored[s] /\ dropped'[s] = dropped[s]
    BY <1>1, <1>3
  <2>3. QED
    BY <1>1, <2>1, <2>2 DEF WayCounted
<1>4. CASE s = row[r]
  <2>1. r \in Way(s) /\ Way(s)' = Way(s) \ {r}
    BY <1>4 DEF Way, Granting
  <2>2. IsFiniteSet(Way(s)') /\ Cardinality(Way(s)') = Cardinality(Way(s)) - 1
    BY <1>2, <2>1, FS_RemoveElement
  <2>3. \/ mirrored'[s] = mirrored[s] + 1 /\ dropped'[s] = dropped[s]
        \/ dropped'[s] = dropped[s] + 1 /\ mirrored'[s] = mirrored[s]
    BY <1>1, <1>4
  <2>4. QED
    BY <1>1, <1>2, <2>2, <2>3 DEF WayCounted
<1>5. QED
  BY <1>3, <1>4

LEMMA WayClaimed ==
  ASSUME TypeInv, WayInv, NEW r \in Requests, ClaimRenewal(r), NEW s \in Requests
  PROVE  WayCounted(s)'
<1>0. TypeOK /\ pc[r] = "claim" /\ mirrored' = mirrored
  BY ClaimMove DEF TypeInv
<1>1. /\ mirrored[s] \in Nat /\ dropped \in [Requests -> Nat] /\ claims[s] \in Nat
      /\ WayCounted(s)
  BY <1>0 DEF TypeOK, WayInv
<1>2. IsFiniteSet(Way(s)) /\ Cardinality(Way(s)) \in Nat
  BY <1>1, FS_CardinalityType DEF WayCounted
<1>3. claims'[s] = IF Due(s) THEN claims[s] + 1 ELSE claims[s]
  BY ClaimEffect
<1>4. CASE /\ \A x \in Requests : ~Due(x)
           /\ Goto(r, "select") /\ UNCHANGED <<row, dropped>>
  <2>1. pc'[r] = "select" /\ \A q \in Requests \ {r} : pc'[q] = pc[q]
    BY <1>0, <1>4, GotoType, StepNames DEF Entitling
  <2>2. Way(s)' = Way(s)
    BY <1>0, <1>4, <2>1 DEF Way
  <2>3. QED
    BY <1>0, <1>1, <1>3, <1>4, <2>2 DEF WayCounted
<1>5. ASSUME NEW x \in Requests, Due(x), Goto(r, "grantRead"), row' = [row EXCEPT ![r] = x],
             dropped' = [y \in Requests |-> IF Due(y) /\ y # x THEN dropped[y] + 1 ELSE dropped[y]]
      PROVE  WayCounted(s)'
  <2>1. pc'[r] = "grantRead" /\ \A q \in Requests \ {r} : pc'[q] = pc[q]
    BY <1>0, <1>5, GotoType, StepNames DEF Renewing
  <2>2. row'[r] = x /\ \A q \in Requests \ {r} : row'[q] = row[q]
    BY <1>0, <1>5 DEF TypeOK
  <2>3. dropped'[s] = IF Due(s) /\ s # x THEN dropped[s] + 1 ELSE dropped[s]
    BY <1>5
  <2>4. CASE s = x
    <3>1. r \notin Way(s) /\ Way(s)' = Way(s) \cup {r}
      BY <1>0, <2>1, <2>2, <2>4 DEF Way
    <3>2. IsFiniteSet(Way(s)') /\ Cardinality(Way(s)') = Cardinality(Way(s)) + 1
      BY <1>2, <3>1, FS_AddElement
    <3>3. QED
      BY <1>0, <1>1, <1>2, <1>3, <1>5, <2>3, <2>4, <3>2 DEF WayCounted
  <2>5. CASE s # x
    <3>1. Way(s)' = Way(s)
      BY <1>0, <2>1, <2>2, <2>5 DEF Way
    <3>2. QED
      BY <1>0, <1>1, <1>2, <1>3, <2>3, <2>5, <3>1 DEF WayCounted
  <2>6. QED
    BY <2>4, <2>5
<1>6. QED
  BY <1>4, <1>5, ClaimMove

LEMMA WayStep ==
  ASSUME TypeInv, WayInv, [Next]_vars
  PROVE  WayInv'
<1>0. TypeOK /\ row \in [Requests -> Requests \cup {NoRow}] /\ pc \in [Requests -> States]
  BY DEF TypeInv, TypeOK, States
<1>1. CASE Tick \/ UNCHANGED vars \/ \E y \in Payments : LoseOrder(y)
  <2>1. UNCHANGED <<pc, row, claims, mirrored, dropped>>
    BY <1>1 DEF Tick, LoseOrder, vars, locals, history
  <2>2. \A s \in Requests : Way(s)' = Way(s)
    BY <2>1 DEF Way
  <2>3. QED
    BY <2>1, <2>2 DEF WayInv, WayCounted
<1>2. ASSUME NEW r \in Requests, NEW step \in States \ {"grantRead", "grantWrite", "mirror"},
             Goto(r, step), ~Granting(r), UNCHANGED <<row, claims, mirrored, dropped>>
      PROVE  WayInv'
  BY <1>0, <1>2, GotoType, WayKept DEF Granting
<1>3. ASSUME NEW r \in Requests, Activation(r) PROVE WayInv'
  <2>1. /\ UNCHANGED <<row, claims, mirrored, dropped>>
        /\ \E step \in Activating \cup {"unknown", "done"} : Goto(r, step)
    BY <1>3 DEF Activation, ActivateFree, Verify, Begin, LoadPending, LoadFromDb, LoadFromDbFails,
       CacheRead, ReadRecord, CacheWrite, WriteRecord, PaymentRow, PaymentRowFails, FindDuplicate,
       RetirePrior, InsertRow, ActivateFails, MarkSuccess, MarkFails, ClearOrder, history, locals,
       Activated, Activating
  <2>2. ~Granting(r)
    BY <1>3 DEF Activation, ActivateFree, Verify, Begin, LoadPending, LoadFromDb, LoadFromDbFails,
       CacheRead, CacheWrite, PaymentRow, PaymentRowFails, FindDuplicate, RetirePrior, InsertRow,
       ActivateFails, MarkSuccess, MarkFails, ClearOrder, Granting
  <2>3. QED
    BY <1>2, <2>1, <2>2, StepNames DEF Activating
<1>4. ASSUME NEW r \in Requests, Cancellation(r) PROVE WayInv'
  <2>1. /\ UNCHANGED <<row, claims, mirrored, dropped>> /\ ~Granting(r)
        /\ \E step \in {"cancel", "done", "uncacheRead", "uncacheWrite"} : Goto(r, step)
    BY <1>4 DEF Cancellation, StartCancel, Cancel, UncacheRead, ReadRecord, UncacheWrite, WriteRecord,
       history, locals, orders, Granting
  <2>2. QED
    BY <1>2, <2>1, StepNames DEF Cancelling
<1>5. ASSUME NEW r \in Requests, Entitlement(r) PROVE WayInv'
  <2>1. CASE StartEntitlement(r) \/ FlipExpired(r) \/ Notify(r)
    <3>1. /\ UNCHANGED <<row, claims, mirrored, dropped>> /\ ~Granting(r)
          /\ \E step \in {"claim", "notify", "done"} : Goto(r, step)
      BY <2>1 DEF StartEntitlement, FlipExpired, Notify, history, locals, orders, Granting
    <3>2. QED
      BY <1>2, <3>1, StepNames DEF Renewing, Entitling
  <2>2. CASE ClaimRenewal(r)
    BY <2>2, WayClaimed DEF WayInv
  <2>3. CASE GrantRead(r) \/ GrantWrite(r)
    <3>1. /\ UNCHANGED <<row, claims, mirrored, dropped>> /\ Granting(r)
          /\ \E step \in {"grantWrite", "mirror"} : Goto(r, step)
      BY <2>3 DEF GrantRead, ReadRecord, GrantWrite, WriteRecord, history, locals, orders, Granting
    <3>2. Granting(r)' /\ \A q \in Requests \ {r} : pc'[q] = pc[q]
      BY <1>0, <3>1, GotoType, StepNames DEF Renewing, Granting
    <3>3. QED
      BY <3>1, <3>2, WayKept
  <2>4. CASE MirrorRenewal(r)
    <3>1. /\ Goto(r, "select") /\ UNCHANGED <<row, claims, dropped>> /\ Granting(r)
          /\ mirrored' = [mirrored EXCEPT ![row[r]] = @ + 1]
      BY <2>4 DEF MirrorRenewal, locals, Granting
    <3>2. ~Granting(r)' /\ \A q \in Requests \ {r} : pc'[q] = pc[q]
      BY <1>0, <3>1, GotoType, StepNames DEF Entitling, Granting
    <3>3. QED
      BY <3>1, <3>2, WayLeft
  <2>5. CASE RenewalFails(r)
    <3>1. /\ Goto(r, "select") /\ UNCHANGED <<row, claims, mirrored>>
          /\ pc[r] \in {"claim", "mirror"}
          /\ dropped' = IF pc[r] = "mirror" THEN [dropped EXCEPT ![row[r]] = @ + 1] ELSE dropped
      BY <2>5 DEF RenewalFails, locals
    <3>2. ~Granting(r)' /\ \A q \in Requests \ {r} : pc'[q] = pc[q]
      BY <1>0, <3>1, GotoType, StepNames DEF Entitling, Granting
    <3>3. QED
      BY <3>1, <3>2, WayLeft, WayKept DEF Granting
  <2>6. CASE SelectActive(r)
    <3>1. /\ UNCHANGED <<claims, mirrored, dropped>> /\ ~Granting(r)
          /\ \E step \in {"flip", "done"} : Goto(r, step)
          /\ row' = row \/ \E s \in Requests : row' = [row EXCEPT ![r] = s]
      BY <2>6 DEF SelectActive, history, Granting, Active
    <3>2. ~Granting(r)' /\ \A q \in Requests \ {r} : pc'[q] = pc[q] /\ row'[q] = row[q]
      BY <1>0, <3>1, GotoType, StepNames DEF Entitling, Granting
    <3>3. QED
      BY <3>1, <3>2, WayKept
  <2>7. QED
    BY <1>5, <2>1, <2>2, <2>3, <2>4, <2>5, <2>6 DEF Entitlement
<1>6. ASSUME NEW r \in Requests, Crash(r) PROVE WayInv'
  <2>1. /\ Goto(r, "crashed") /\ UNCHANGED <<row, claims, mirrored>>
        /\ dropped' = IF Granting(r) THEN [dropped EXCEPT ![row[r]] = @ + 1] ELSE dropped
    BY <1>6 DEF Crash, Granting
  <2>2. ~Granting(r)' /\ \A q \in Requests \ {r} : pc'[q] = pc[q]
    BY <1>0, <2>1, GotoType, StepNames DEF Granting
  <2>3. QED
    BY <2>1, <2>2, WayLeft, WayKept
<1>7. QED
  BY <1>1, <1>3, <1>4, <1>5, <1>6 DEF Next

(* A claimed renewal is on its way to the live wallet, was mirrored into   *)
(* it once, or was given up by a crash or a failing call                   *)
(* (_apply_due_renewal).                                                   *)
THEOREM RenewalsAreAccounted == Spec => []RenewalsAccounted
<1>1. Init => WayInv
  <2> SUFFICES ASSUME Init, NEW s \in Requests PROVE WayCounted(s)
    BY DEF WayInv
  <2>1. Way(s) = {}
    BY DEF Init, Way
  <2>2. QED
    BY <2>1, FS_EmptySet DEF Init, WayCounted
<1>2. TypeInv /\ WayInv /\ [Next]_vars => WayInv'
  BY WayStep
<1>3. WayInv => RenewalsAccounted
  BY DEF WayInv, WayCounted, RenewalsAccounted, OnItsWay, Way
<1>4. QED
  BY <1>1, <1>2, <1>3, TypeInvariant, PTL DEF Spec

-----------------------------------------------------------------------------
(* One subscription *)

Busy(r) == pc[r] \in Activating \cup Cancelling

(* Activations and cancellations come one at a time.                       *)
Lone == \A r, q \in Requests : Busy(r) /\ Busy(q) => r = q

(* One row is ACTIVE, and the UPDATE before an INSERT has locked it.       *)
ActiveOnce ==
  /\ \A s, x \in Active : s = x
  /\ \A r \in Requests : pc[r] = "insert" => Active \subseteq retiring[r]

(* A row of the private_payments table has one subscription, and an        *)
(* activation past its look for it has found none.                         *)
KeyedOnce ==
  /\ \A s, x \in Requests : rows[s].paymentId = rows[x].paymentId /\ rows[s].paymentId # NoPayment => s = x
  /\ \A r \in Requests : pc[r] \in {"retire", "insert"} /\ key[r] # NoPayment =>
       \A s \in Requests : rows[s].paymentId # key[r]

SingleInv == ~overlapped => Lone /\ ActiveOnce /\ KeyedOnce

(* A step that begins nothing and makes no row.                            *)
LEMMA SingleKept ==
  ASSUME SingleInv, NEW r \in Requests, overlapped' = overlapped,
         \A q \in Requests \ {r} :
           pc'[q] = pc[q] /\ key'[q] = key[q] /\ retiring'[q] = retiring[q],
         \A s \in Requests : /\ rows'[s].paymentId = rows[s].paymentId
                             /\ rows'[s].status = "ACTIVE" => rows[s].status = "ACTIVE",
         Busy(r)' => Busy(r),
         ~overlapped /\ pc'[r] = "insert" => Active \subseteq retiring'[r],
         ~overlapped /\ pc'[r] \in {"retire", "insert"} =>
           /\ key'[r] = key[r]
           /\ key[r] # NoPayment => \A s \in Requests : rows[s].paymentId # key[r]
  PROVE  SingleInv'
<1> SUFFICES ASSUME ~overlapped PROVE Lone' /\ ActiveOnce' /\ KeyedOnce'
  BY DEF SingleInv
<1>0. Lone /\ ActiveOnce /\ KeyedOnce
  BY DEF SingleInv
<1>1. \A q \in Requests : Busy(q)' => Busy(q)
  BY DEF Busy
<1>2. Active' \subseteq Active
  BY DEF Active
<1>3. Lone'
  BY <1>0, <1>1 DEF Lone
<1>4. ActiveOnce'
  BY <1>0, <1>2 DEF ActiveOnce
<1>5. \A q \in Requests : pc'[q] \in {"retire", "insert"} => key'[q] = key[q]
  OBVIOUS
<1>6. KeyedOnce'
  BY <1>0, <1>5 DEF KeyedOnce
<1>7. QED
  BY <1>3, <1>4, <1>6

(* A step of one request that leaves the rows and the locks alone.         *)
LEMMA SingleMove ==
  ASSUME TypeInv, SingleInv, NEW r \in Requests,
         NEW step \in States \ {"retire", "insert"}, Goto(r, step),
         UNCHANGED <<rows, retiring, overlapped>>, \A q \in Requests \ {r} : key'[q] = key[q],
         step \in Activating \cup Cancelling => Busy(r)
  PROVE  SingleInv'
<1>1. pc'[r] = step /\ \A q \in Requests \ {r} : pc'[q] = pc[q]
  BY GotoType DEF TypeInv
<1>2. QED
  BY <1>1, SingleKept DEF Busy

LEMMA SingleBegin ==
  ASSUME TypeInv, SingleInv, NEW r \in Requests, NEW step \in {"load", "cancel"}, Goto(r, step),
         overlapped' = (overlapped \/ ~Alone), pc[r] = "idle",
         UNCHANGED <<rows, retiring, key>>
  PROVE  SingleInv'
<1> SUFFICES ASSUME ~overlapped' PROVE Lone' /\ ActiveOnce' /\ KeyedOnce'
  BY DEF SingleInv
<1>0. Alone /\ Lone /\ ActiveOnce /\ KeyedOnce
  BY DEF SingleInv
<1>1. pc'[r] = step /\ \A q \in Requests \ {r} : pc'[q] = pc[q]
  BY GotoType, StepNames DEF TypeInv, Activating, Cancelling
<1>2. \A q \in Requests \ {r} : ~Busy(q)'
  BY <1>0, <1>1 DEF Alone, Busy
<1>3. Lone'
  BY <1>2 DEF Lone
<1>4. \A q \in Requests : pc'[q] \notin {"retire", "insert"}
  BY <1>1, <1>2 DEF Busy, Activating
<1>5. ActiveOnce' /\ KeyedOnce'
  BY <1>0, <1>4 DEF ActiveOnce, KeyedOnce, Active
<1>6. QED
  BY <1>3, <1>5

LEMMA SingleInsert ==
  ASSUME TypeInv, SingleInv, NEW r \in Requests, InsertRow(r)
  PROVE  SingleInv'
<1> SUFFICES ASSUME ~overlapped PROVE Lone' /\ ActiveOnce' /\ KeyedOnce'
  BY DEF SingleInv, InsertRow
<1>0. Lone /\ ActiveOnce /\ KeyedOnce
  BY DEF SingleInv
<1>1. /\ pc[r] = "insert" /\ rows'[r].status = "ACTIVE" /\ rows'[r].paymentId = key[r]
      /\ \A s \in Requests \ {r} :
           /\ rows'[s].paymentId = rows[s].paymentId
           /\ rows'[s].status = IF s \in retiring[r] /\ rows[s].status = "ACTIVE"
                                THEN "EXPIRED" ELSE rows[s].status
  BY InsertEffect
<1>2. pc'[r] \in {"done", "mark"} /\ \A q \in Requests \ {r} : pc'[q] = pc[q]
  BY GotoType, StepNames DEF TypeInv, InsertRow, Activated, Activating
<1>3. Busy(r) /\ \A q \in Requests : Busy(q)' => Busy(q)
  BY <1>1, <1>2 DEF Busy, Activating
<1>4. \A q \in Requests \ {r} : ~Busy(q)
  BY <1>0, <1>3 DEF Lone
<1>5. Lone'
  BY <1>0, <1>3 DEF Lone
<1>6. \A q \in Requests : pc'[q] \notin {"retire", "insert"}
  BY <1>2, <1>4 DEF Busy, Activating
<1>7. Active \subseteq retiring[r]
  BY <1>0, <1>1 DEF ActiveOnce
<1>8. Active' = {r}
  BY <1>1, <1>7 DEF Active
<1>9. ActiveOnce'
  BY <1>6, <1>8 DEF ActiveOnce
<1>10. key[r] # NoPayment => \A s \in Requests : rows[s].paymentId # key[r]
  BY <1>0, <1>1 DEF KeyedOnce
<1>11. KeyedOnce'
  BY <1>0, <1>1, <1>6, <1>10 DEF KeyedOnce
<1>12. QED
  BY <1>5, <1>9, <1>11

LEMMA SingleStep ==
  ASSUME TypeInv, SingleInv, [Next]_vars
  PROVE  SingleInv'
<1>0. /\ TypeOK /\ pc \in [Requests -> States] /\ key \in [Requests -> Payments \cup {NoPayment}]
      /\ retiring \in [Requests -> SUBSET Requests]
  BY DEF TypeInv, TypeOK, States
<1>1. CASE Tick \/ UNCHANGED vars \/ \E y \in Payments : LoseOrder(y)
  <2>1. UNCHANGED <<pc, rows, key, retiring, overlapped>>
    BY <1>1 DEF Tick, LoseOrder, vars, locals
  <2>2. QED
    BY <2>1 DEF SingleInv, Lone, Busy, ActiveOnce, Active, KeyedOnce
<1>2. ASSUME NEW r \in Requests, Activation(r) PROVE SingleInv'
  <2>1. CASE ActivateFree(r) \/ Verify(r)
    <3>1. PICK p, y : Begin(r, p, y)
      BY <2>1 DEF ActivateFree, Verify
    <3>2. QED
      BY <1>0, <3>1, SingleBegin DEF Begin
  <2>2. CASE \/ LoadPending(r) \/ LoadFromDb(r) \/ LoadFromDbFails(r) \/ CacheRead(r) \/ CacheWrite(r)
             \/ PaymentRowFails(r) \/ MarkSuccess(r) \/ MarkFails(r) \/ ClearOrder(r)
    <3>1. /\ UNCHANGED <<rows, key, retiring, overlapped>> /\ Busy(r)
          /\ \E step \in {"loadDb", "cacheRead", "unknown", "cacheWrite", "payRow", "dup", "clear",
                          "done"} : Goto(r, step)
      BY <2>2 DEF LoadPending, LoadFromDb, LoadFromDbFails, CacheRead, ReadRecord, CacheWrite,
         WriteRecord, PaymentRowFails, MarkSuccess, MarkFails, ClearOrder, locals, Busy, Activating
    <3>2. QED
      BY <3>1, SingleMove, StepNames DEF Activating
  <2>3. CASE PaymentRow(r)
    <3>1. /\ UNCHANGED <<rows, retiring, overlapped>> /\ Busy(r) /\ Goto(r, "dup")
          /\ \A q \in Requests \ {r} : key'[q] = key[q]
      BY <1>0, <2>3 DEF PaymentRow, Busy, Activating
    <3>2. QED
      BY <3>1, SingleMove, StepNames DEF Activating
  <2>4. CASE FindDuplicate(r)
    <3>1. /\ UNCHANGED <<rows, key, retiring, overlapped>> /\ Busy(r)
          /\ Goto(r, IF Duplicate(r) THEN Activated(r) ELSE "retire")
      BY <2>4 DEF FindDuplicate, locals, Busy, Activating
    <3>2. CASE Duplicate(r)
      BY <3>1, <3>2, SingleMove, StepNames DEF Activating, Activated
    <3>3. CASE ~Duplicate(r)
      <4>1. pc'[r] = "retire" /\ \A q \in Requests \ {r} : pc'[q] = pc[q]
        BY <1>0, <3>1, <3>3, GotoType, StepNames DEF Activating
      <4>2. key[r] # NoPayment => \A s \in Requests : rows[s].paymentId # key[r]
        BY <3>3 DEF Duplicate
      <4>3. QED
        BY <3>1, <4>1, <4>2, SingleKept
    <3>4. QED
      BY <3>2, <3>3
  <2>5. CASE RetirePrior(r)
    <3>1. /\ UNCHANGED <<rows, key, overlapped>> /\ pc[r] = "retire" /\ Busy(r)
          /\ retiring' = [retiring EXCEPT ![r] = Active] /\ Goto(r, "insert")
      BY <2>5 DEF RetirePrior, Busy, Activating
    <3>2. pc'[r] = "insert" /\ \A q \in Requests \ {r} : pc'[q] = pc[q]
      BY <1>0, <3>1, GotoType, StepNames DEF Activating
    <3>3. retiring'[r] = Active /\ \A q \in Requests \ {r} : retiring'[q] = retiring[q]
      BY <1>0, <3>1
    <3>4. ~overlapped /\ key[r] # NoPayment => \A s \in Requests : rows[s].paymentId # key[r]
      BY <3>1 DEF SingleInv, KeyedOnce
    <3>5. QED
      BY <3>1, <3>2, <3>3, <3>4, SingleKept
  <2>6. CASE InsertRow(r)
    BY <2>6, SingleInsert
  <2>7. CASE ActivateFails(r)
    <3>1. /\ UNCHANGED <<rows, key, overlapped>> /\ Busy(r)
          /\ retiring' = [retiring EXCEPT ![r] = {}] /\ Goto(r, Activated(r))
          /\ Activated(r) \in {"done", "mark"}
      BY <2>7 DEF ActivateFails, Busy, Activating, Activated
    <3>2. pc'[r] \in {"done", "mark"} /\ \A q \in Requests \ {r} : pc'[q] = pc[q]
      BY <1>0, <3>1, GotoType, StepNames DEF Activating
    <3>3. \A q \in Requests \ {r} : retiring'[q] = retiring[q]
      BY <1>0, <3>1
    <3>4. QED
      BY <3>1, <3>2, <3>3, SingleKept
  <2>8. QED
    BY <1>2, <2>1, <2>2, <2>3, <2>4, <2>5, <2>6, <2>7 DEF Activation
<1>3. ASSUME NEW r \in Requests, Cancellation(r) PROVE SingleInv'
  <2>1. CASE StartCancel(r)
    BY <1>0, <2>1, SingleBegin DEF StartCancel, locals
  <2>2. CASE Cancel(r)
    <3>1. \A s \in Requests : /\ rows'[s].paymentId = rows[s].paymentId
                              /\ rows'[s].status = "ACTIVE" => rows[s].status = "ACTIVE"
      BY <2>2, EndingEffect
    <3>2. /\ UNCHANGED <<key, retiring, overlapped>> /\ Busy(r)
          /\ \E step \in {"done", "uncacheRead"} : Goto(r, step)
      BY <2>2 DEF Cancel, locals, Busy, Cancelling
    <3>3. pc'[r] \in {"done", "uncacheRead"} /\ \A q \in Requests \ {r} : pc'[q] = pc[q]
      BY <1>0, <3>2, GotoType, StepNames DEF Cancelling
    <3>4. QED
      BY <3>1, <3>2, <3>3, SingleKept
  <2>3. CASE UncacheRead(r) \/ UncacheWrite(r)
    <3>1. /\ UNCHANGED <<rows, key, retiring, overlapped>> /\ Busy(r)
          /\ \E step \in {"uncacheWrite", "done"} : Goto(r, step)
      BY <2>3 DEF UncacheRead, ReadRecord, UncacheWrite, WriteRecord, locals, Busy, Cancelling
    <3>2. QED
      BY <3>1, SingleMove, StepNames DEF Cancelling
  <2>4. QED
    BY <1>3, <2>1, <2>2, <2>3 DEF Cancellation
<1>4. ASSUME NEW r \in Requests, Entitlement(r) PROVE SingleInv'
  <2>1. /\ UNCHANGED <<key, retiring, overlapped>>
        /\ \E step \in {"claim", "grantRead", "grantWrite", "mirror", "select", "flip", "notify", "done"} :
             Goto(r, step)
    BY <1>4 DEF Entitlement, StartEntitlement, ClaimRenewal, GrantRead, ReadRecord, GrantWrite,
       WriteRecord, MirrorRenewal, RenewalFails, SelectActive, FlipExpired, Notify, locals
  <2>2. \A s \in Requests : /\ rows'[s].paymentId = rows[s].paymentId
                            /\ rows'[s].status = "ACTIVE" => rows[s].status = "ACTIVE"
    <3>1. CASE FlipExpired(r)
      BY <3>1, EndingEffect
    <3>2. CASE ClaimRenewal(r)
      BY <3>2, ClaimEffect
    <3>3. CASE UNCHANGED rows
      BY <3>3
    <3>4. QED
      BY <1>4, <3>1, <3>2, <3>3 DEF Entitlement, StartEntitlement, GrantRead, ReadRecord, GrantWrite,
         WriteRecord, MirrorRenewal, RenewalFails, SelectActive, Notify
  <2>3. /\ pc'[r] \in {"claim", "grantRead", "grantWrite", "mirror", "select", "flip", "notify", "done"}
        /\ \A q \in Requests \ {r} : pc'[q] = pc[q]
    BY <1>0, <2>1, GotoType, StepNames DEF Renewing, Entitling
  <2>4. ~Busy(r)' /\ pc'[r] \notin {"retire", "insert"}
    BY <2>3 DEF Busy, Activating, Cancelling
  <2>5. QED
    BY <2>1, <2>2, <2>3, <2>4, SingleKept
<1>5. ASSUME NEW r \in Requests, Crash(r) PROVE SingleInv'
  <2>1. /\ UNCHANGED <<rows, key, overlapped>> /\ Goto(r, "crashed")
        /\ retiring' = [retiring EXCEPT ![r] = {}]
    BY <1>5 DEF Crash
  <2>2. pc'[r] = "crashed" /\ \A q \in Requests \ {r} : pc'[q] = pc[q]
    BY <1>0, <2>1, GotoType, StepNames
  <2>3. \A q \in Requests \ {r} : retiring'[q] = retiring[q]
    BY <1>0, <2>1
  <2>4. QED
    BY <2>1, <2>2, <2>3, SingleKept DEF Busy, Activating, Cancelling
<1>6. QED
  BY <1>1, <1>2, <1>3, <1>4, <1>5 DEF Next

-----------------------------------------------------------------------------
(* One row per payment *)

(* A request's key, and its row's, is its own payment's or NULL.           *)
OwnKey ==
  \A r \in Requests :
    /\ key[r] \in {NoPayment, pay[r]} /\ rows[r].paymentId \in {NoPayment, pay[r]}
    /\ pc[r] = "idle" => key[r] = NoPayment
    /\ ~Made(r) => rows[r].paymentId = NoPayment

(* An activation that has found its order and not yet inserted its row.    *)
Buying == {"cacheRead", "cacheWrite", "payRow", "dup", "retire", "insert"}

(* The payment of a row cannot be verified again ...                       *)
Consumed(s) ==
  /\ pay[s] \notin staged /\ ~Unconsumed(pay[s])
  /\ \A r \in Requests : pay[r] = pay[s] => pc[r] \notin Buying

(* ... once the request that made it has marked and cleared the order.     *)
Settled(s) ==
  Made(s) /\ pay[s] # NoPayment /\ s \notin stumbled =>
    \/ pc[s] = "mark"
    \/ pc[s] = "clear" /\ ~Unconsumed(pay[s])
    \/ Consumed(s)

SettledInv == ~overlapped => \A s \in Requests : Settled(s)

Repeats ==
  ~overlapped =>
    \A s, x \in Requests :
      Made(s) /\ Made(x) /\ pay[s] = pay[x] /\ pay[s] # NoPayment /\ s # x => stumbled \cap {s, x} # {}

PaymentInv == OwnKey /\ SettledInv /\ Repeats

(* Rows are made by InsertRow alone, and never unmade.                     *)
LEMMA MadeSteps ==
  ASSUME TypeInv, [Next]_vars, NEW s \in Requests
  PROVE  /\ Made(s) => Made(s)'
         /\ Made(s)' => Made(s) \/ InsertRow(s)
         /\ InsertRow(s) \/ rows'[s].paymentId = rows[s].paymentId
<1>1. CASE UNCHANGED <<rows, claims>>
  BY <1>1 DEF Made
<1>2. ASSUME NEW r \in Requests, InsertRow(r)
      PROVE  /\ Made(s) => Made(s)'
             /\ Made(s)' => Made(s) \/ InsertRow(s)
             /\ InsertRow(s) \/ rows'[s].paymentId = rows[s].paymentId
  <2>1. CASE s = r
    BY <1>2, <2>1, InsertEffect DEF Made
  <2>2. CASE s # r
    <3>1. /\ rows'[s].paymentId = rows[s].paymentId
          /\ rows'[s].status = IF s \in retiring[r] /\ rows[s].status = "ACTIVE"
                               THEN "EXPIRED" ELSE rows[s].status
      BY <1>2, <2>2, InsertEffect
    <3>2. QED
      BY <3>1 DEF Made
  <2>3. QED
    BY <2>1, <2>2
<1>3. ASSUME NEW r \in Requests, Cancel(r) \/ FlipExpired(r)
      PROVE  (Made(s)' <=> Made(s)) /\ rows'[s].paymentId = rows[s].paymentId
  BY <1>3, EndingEffect DEF Made
<1>4. ASSUME NEW r \in Requests, ClaimRenewal(r)
      PROVE  (Made(s)' <=> Made(s)) /\ rows'[s].paymentId = rows[s].paymentId
  BY <1>4, ClaimEffect DEF Made
<1>5. QED
  BY <1>1, <1>2, <1>3, <1>4, RowSteps

(* Orders are consumed for good.                                           *)
LEMMA OrderSteps ==
  ASSUME TypeInv, [Next]_vars
  PROVE  /\ staged' \subseteq staged /\ stumbled \subseteq stumbled'
         /\ \A y \in Payments : ~Unconsumed(y) => ~Unconsumed(y)'
<1>1. CASE Tick \/ UNCHANGED vars \/ \E y \in Payments : LoseOrder(y)
  BY <1>1 DEF Tick, LoseOrder, vars, orders, history, Unconsumed
<1>2. ASSUME NEW r \in Requests, Activation(r)
      PROVE  /\ staged' \subseteq staged /\ stumbled \subseteq stumbled'
             /\ payment' = payment \/ payment' = [payment EXCEPT ![pay[r]] = "SUCCESS"]
  <2>1. CASE MarkSuccess(r)
    BY <2>1 DEF MarkSuccess, history
  <2>2. CASE MarkFails(r) \/ ClearOrder(r)
    BY <2>2 DEF MarkFails, ClearOrder, history, orders
  <2>3. QED
    BY <1>2, <2>1, <2>2 DEF Activation, ActivateFree, Verify, Begin, LoadPending, LoadFromDb,
       LoadFromDbFails, CacheRead, ReadRecord, CacheWrite, WriteRecord, PaymentRow, PaymentRowFails,
       FindDuplicate, RetirePrior, InsertRow, ActivateFails, history, orders
<1>3. ASSUME NEW r \in Requests, Cancellation(r) PROVE UNCHANGED <<staged, payment, stumbled>>
  BY <1>3 DEF Cancellation, StartCancel, Cancel, UncacheRead, ReadRecord, UncacheWrite, WriteRecord,
     history, orders
<1>4. ASSUME NEW r \in Requests, Entitlement(r) PROVE UNCHANGED <<staged, payment, stumbled>>
  BY <1>4 DEF Entitlement, StartEntitlement, ClaimRenewal, GrantRead, ReadRecord, GrantWrite,
     WriteRecord, MirrorRenewal, RenewalFails, SelectActive, FlipExpired, Notify, history, orders
<1>5. ASSUME NEW r \in Requests, Crash(r)
      PROVE  UNCHANGED <<staged, payment>> /\ stumbled \subseteq stumbled'
  BY <1>5 DEF Crash, orders
<1>6. payment \in [Payments -> PaymentStates]
  BY DEF TypeInv, TypeOK, PaymentStates
<1>7. ASSUME NEW r \in Requests, payment' = [payment EXCEPT ![pay[r]] = "SUCCESS"], NEW y \in Payments
      PROVE  ~Unconsumed(y) => ~Unconsumed(y)'
  BY <1>6, <1>7 DEF Unconsumed
<1>8. QED
  BY <1>1, <1>2, <1>3, <1>4, <1>5, <1>7 DEF Next, Unconsumed

(* What a step of one request may do with its payment.                     *)
Began(r) ==
  /\ pc[r] = "idle" /\ key'[r] = key[r]
  /\ pc'[r] \in {"load", "cancel", "claim"}
  /\ pc'[r] = "load" \/ pay'[r] = pay[r]
  /\ overlapped => overlapped'

Moved(r) ==
  /\ pc[r] # "idle" /\ pc'[r] # "idle" /\ pay'[r] = pay[r] /\ overlapped' = overlapped
  /\ key'[r] \in {key[r], NoPayment, pay[r]}
  /\ pc'[r] \in Buying =>
       pc[r] \in Buying \/ pay[r] \in staged \cup {NoPayment} \/ Unconsumed(pay[r])
  /\ pc[r] = "mark" /\ pay[r] # NoPayment =>
       (pc'[r] = "clear" /\ ~Unconsumed(pay[r])') \/ r \in stumbled'
  /\ pc[r] = "clear" => (pc'[r] = "done" /\ pay[r] \notin staged') \/ r \in stumbled'

LEMMA PaySteps ==
  ASSUME TypeInv, [Next]_vars
  PROVE  \/ UNCHANGED <<pc, pay, key, overlapped>>
         \/ \E r \in Requests :
              /\ \A q \in Requests \ {r} : pc'[q] = pc[q] /\ pay'[q] = pay[q] /\ key'[q] = key[q]
              /\ Began(r) \/ Moved(r)
<1>0. /\ TypeOK /\ pc \in [Requests -> States] /\ pay \in [Requests -> Payments \cup {NoPayment}]
      /\ key \in [Requests -> Payments \cup {NoPayment}]
      /\ payment \in [Payments -> PaymentStates]
  BY DEF TypeInv, TypeOK, States, PaymentStates
<1>1. CASE Tick \/ UNCHANGED vars \/ \E y \in Payments : LoseOrder(y)
  BY <1>1 DEF Tick, LoseOrder, vars, locals
<1> DEFINE Others(r) == \A q \in Requests \ {r} : pc'[q] = pc[q] /\ pay'[q] = pay[q] /\ key'[q] = key[q]
<1>2. ASSUME NEW r \in Requests, Activation(r)
      PROVE  Others(r) /\ (Began(r) \/ Moved(r))
  <2>1. CASE ActivateFree(r) \/ Verify(r)
    <3>1. PICK p, y : Begin(r, p, y)
      BY <2>1 DEF ActivateFree, Verify
    <3>2. pc'[r] = "load" /\ \A q \in Requests \ {r} : pc'[q] = pc[q]
      BY <1>0, <3>1, GotoType, StepNames DEF Begin, Activating
    <3>3. QED
      BY <1>0, <3>1, <3>2 DEF Begin, Began
  <2>2. CASE LoadPending(r) \/ LoadFromDb(r) \/ LoadFromDbFails(r)
    <3>1. /\ UNCHANGED <<pay, key, overlapped>> /\ pc[r] \in {"load", "loadDb"}
          /\ \E step \in {"cacheRead", "loadDb", "unknown"} :
               /\ Goto(r, step)
               /\ step = "cacheRead" => pay[r] \in staged \cup {NoPayment} \/ Unconsumed(pay[r])
      BY <2>2 DEF LoadPending, LoadFromDb, LoadFromDbFails, locals
    <3>2. PICK step \in {"cacheRead", "loadDb", "unknown"} :
            /\ pc'[r] = step /\ \A q \in Requests \ {r} : pc'[q] = pc[q]
            /\ step = "cacheRead" => pay[r] \in staged \cup {NoPayment} \/ Unconsumed(pay[r])
      BY <1>0, <3>1, GotoType, StepNames DEF Activating
    <3>3. QED
      BY <3>1, <3>2 DEF Moved, Buying
  <2>3. CASE \/ CacheRead(r) \/ CacheWrite(r) \/ PaymentRowFails(r) \/ FindDuplicate(r)
             \/ RetirePrior(r) \/ InsertRow(r) \/ ActivateFails(r)
    <3>1. /\ UNCHANGED <<pay, key, overlapped>> /\ pc[r] \in Buying
          /\ \E step \in {"cacheWrite", "payRow", "dup", "retire", "insert", "mark", "done"} : Goto(r, step)
      BY <2>3 DEF CacheRead, ReadRecord, CacheWrite, WriteRecord, PaymentRowFails, FindDuplicate,
         RetirePrior, InsertRow, ActivateFails, Activated, locals, Buying
    <3>2. /\ pc'[r] \in {"cacheWrite", "payRow", "dup", "retire", "insert", "mark", "done"}
          /\ \A q \in Requests \ {r} : pc'[q] = pc[q]
      BY <1>0, <3>1, GotoType, StepNames DEF Activating
    <3>3. QED
      BY <3>1, <3>2 DEF Moved, Buying
  <2>4. CASE PaymentRow(r)
    <3>1. UNCHANGED <<pay, overlapped>> /\ pc[r] = "payRow" /\ Goto(r, "dup")
      BY <2>4 DEF PaymentRow
    <3>2. key'[r] = Found(r) /\ \A q \in Requests \ {r} : key'[q] = key[q]
      BY <1>0, <2>4 DEF PaymentRow
    <3>3. pc'[r] = "dup" /\ \A q \in Requests \ {r} : pc'[q] = pc[q]
      BY <1>0, <3>1, GotoType, StepNames DEF Activating
    <3>4. QED
      BY <3>1, <3>2, <3>3 DEF Moved, Buying, Found
  <2>5. CASE MarkSuccess(r)
    <3>1. UNCHANGED <<pay, key, overlapped>> /\ pc[r] = "mark" /\ Goto(r, "clear")
      BY <2>5 DEF MarkSuccess, locals
    <3>2. pc'[r] = "clear" /\ \A q \in Requests \ {r} : pc'[q] = pc[q]
      BY <1>0, <3>1, GotoType, StepNames DEF Activating
    <3>3. ASSUME pay[r] # NoPayment PROVE ~Unconsumed(pay[r])'
      <4>1. pay[r] \in Payments /\ pay'[r] = pay[r]
        BY <1>0, <3>1, <3>3
      <4>2. payment'[pay[r]] # "PAYMENT_PENDING"
        BY <1>0, <2>5, <4>1 DEF MarkSuccess, Unconsumed
      <4>3. QED
        BY <4>1, <4>2 DEF Unconsumed
    <3>4. QED
      BY <3>1, <3>2, <3>3 DEF Moved, Buying
  <2>6. CASE MarkFails(r) \/ ClearOrder(r)
    <3>1. /\ UNCHANGED <<pay, key, overlapped>>
          /\ \/ pc[r] = "mark" /\ Goto(r, "clear") /\ r \in stumbled'
             \/ pc[r] = "clear" /\ Goto(r, "done") /\ pay[r] \notin staged'
      BY <2>6 DEF MarkFails, ClearOrder, locals
    <3>2. /\ \/ pc[r] = "mark" /\ pc'[r] = "clear" /\ r \in stumbled'
             \/ pc[r] = "clear" /\ pc'[r] = "done" /\ pay[r] \notin staged'
          /\ \A q \in Requests \ {r} : pc'[q] = pc[q]
      BY <1>0, <3>1, GotoType, StepNames DEF Activating
    <3>3. QED
      BY <3>1, <3>2 DEF Moved, Buying
  <2>7. QED
    BY <1>2, <2>1, <2>2, <2>3, <2>4, <2>5, <2>6 DEF Activation
<1>3. ASSUME NEW r \in Requests, StartCancel(r) \/ StartEntitlement(r)
      PROVE  Others(r) /\ (Began(r) \/ Moved(r))
  <2>1. /\ UNCHANGED <<pay, key>> /\ (overlapped => overlapped') /\ pc[r] = "idle"
        /\ \E step \in {"cancel", "claim"} : Goto(r, step)
    <3>1. CASE StartCancel(r)
      BY <3>1 DEF StartCancel, locals
    <3>2. CASE StartEntitlement(r)
      BY <3>2 DEF StartEntitlement, locals
    <3>3. QED
      BY <1>3, <3>1, <3>2
  <2>2. pc'[r] \in {"cancel", "claim"} /\ \A q \in Requests \ {r} : pc'[q] = pc[q]
    BY <1>0, <2>1, GotoType, StepNames DEF Cancelling, Renewing
  <2>3. QED
    BY <2>1, <2>2 DEF Began
<1>4. ASSUME NEW r \in Requests,
             \/ Cancel(r) \/ UncacheRead(r) \/ UncacheWrite(r) \/ ClaimRenewal(r) \/ GrantRead(r)
             \/ GrantWrite(r) \/ MirrorRenewal(r) \/ RenewalFails(r) \/ SelectActive(r)
             \/ FlipExpired(r) \/ Notify(r)
      PROVE  Others(r) /\ Moved(r)
  <2>1. /\ UNCHANGED <<pay, key, overlapped>>
        /\ pc[r] \in {"cancel", "uncacheRead", "uncacheWrite", "claim", "grantRead", "grantWrite",
                      "mirror", "select", "flip", "notify"}
        /\ \E step \in {"uncacheRead", "uncacheWrite", "grantRead", "grantWrite", "mirror", "select",
                        "flip", "notify", "done"} : Goto(r, step)
    BY <1>4 DEF Cancel, UncacheRead, ReadRecord, UncacheWrite, WriteRecord, ClaimRenewal, GrantRead,
       GrantWrite, MirrorRenewal, RenewalFails, SelectActive, FlipExpired, Notify, locals
  <2>2. /\ pc'[r] \in {"uncacheRead", "uncacheWrite", "grantRead", "grantWrite", "mirror", "select",
                       "flip", "notify", "done"}
        /\ \A q \in Requests \ {r} : pc'[q] = pc[q]
    BY <1>0, <2>1, GotoType, StepNames DEF Cancelling, Renewing, Entitling
  <2>3. QED
    BY <2>1, <2>2 DEF Moved, Buying
<1>5. ASSUME NEW r \in Requests, Crash(r) PROVE Others(r) /\ Moved(r)
  <2>1. UNCHANGED <<pay, key, overlapped>> /\ pc[r] \in Steps /\ Goto(r, "crashed") /\ r \in stumbled'
    BY <1>5 DEF Crash, InProgress
  <2>2. pc'[r] = "crashed" /\ \A q \in Requests \ {r} : pc'[q] = pc[q]
    BY <1>0, <2>1, GotoType, StepNames
  <2>3. pc[r] # "idle"
    BY <2>1 DEF Steps, Activating, Cancelling, Renewing, Entitling
  <2>4. QED
    BY <2>1, <2>2, <2>3 DEF Moved, Buying
<1>6. QED
  BY <1>1, <1>2, <1>3, <1>4, <1>5 DEF Next, Cancellation, Entitlement

LEMMA OwnKeyStep ==
  ASSUME TypeInv, OwnKey, [Next]_vars
  PROVE  OwnKey'
<1> SUFFICES ASSUME NEW s \in Requests
             PROVE  /\ key'[s] \in {NoPayment, pay'[s]} /\ rows'[s].paymentId \in {NoPayment, pay'[s]}
                    /\ pc'[s] = "idle" => key'[s] = NoPayment
                    /\ ~Made(s)' => rows'[s].paymentId = NoPayment
  BY DEF OwnKey
<1>0. /\ key[s] \in {NoPayment, pay[s]} /\ rows[s].paymentId \in {NoPayment, pay[s]}
      /\ pc[s] = "idle" => key[s] = NoPayment /\ ~Made(s)
      /\ ~Made(s) => rows[s].paymentId = NoPayment
  BY DEF OwnKey, TypeInv, Unborn, Made
<1>1. /\ key'[s] \in {NoPayment, pay'[s]}
      /\ pc'[s] = "idle" => key'[s] = NoPayment
      /\ pc[s] = "idle" \/ pay'[s] = pay[s]
  BY <1>0, PaySteps DEF Began, Moved
<1>2. CASE InsertRow(s)
  BY <1>0, <1>1, <1>2, InsertEffect DEF Made
<1>3. CASE ~InsertRow(s)
  BY <1>0, <1>1, <1>3, MadeSteps
<1>4. QED
  BY <1>1, <1>2, <1>3

LEMMA SettledStep ==
  ASSUME TypeInv, SingleInv, SettledInv, [Next]_vars
  PROVE  SettledInv'
<1>0. overlapped => overlapped'
  BY PaySteps DEF Began, Moved
<1> SUFFICES ASSUME ~overlapped, NEW s \in Requests, Made(s)', pay'[s] # NoPayment, s \notin stumbled'
             PROVE  \/ pc'[s] = "mark"
                    \/ pc'[s] = "clear" /\ ~Unconsumed(pay[s])'
                    \/ Consumed(s)'
  BY <1>0 DEF SettledInv, Settled
<1>1. /\ TypeOK /\ pc \in [Requests -> States] /\ pay \in [Requests -> Payments \cup {NoPayment}]
      /\ Lone /\ s \notin stumbled
  BY OrderSteps DEF TypeInv, TypeOK, States, SingleInv
<1>2. CASE ~Made(s)
  <2>1. InsertRow(s)
    BY <1>2, MadeSteps
  <2>2. Goto(s, Activated(s)) /\ pay' = pay
    BY <2>1 DEF InsertRow
  <2>3. pc'[s] = "mark"
    BY <1>1, <2>2 DEF Goto, Activated
  <2>4. QED
    BY <2>3
<1>3. CASE Made(s)
  <2>1. pc[s] # "idle"
    BY <1>3 DEF TypeInv, Unborn, Made
  <2>2. pay'[s] = pay[s] /\ pay[s] \in Payments
    BY <1>1, <2>1, PaySteps DEF Began, Moved
  <2>3. \/ pc[s] = "mark"
        \/ pc[s] = "clear" /\ ~Unconsumed(pay[s])
        \/ Consumed(s)
    BY <1>1, <1>3, <2>2 DEF SettledInv, Settled
  <2>4. /\ ~Unconsumed(pay[s]) => ~Unconsumed(pay[s])'
        /\ pay[s] \notin staged => pay[s] \notin staged'
    <3>1. ~Unconsumed(pay[s]) => payment'[pay[s]] # "PAYMENT_PENDING"
      BY <2>2, OrderSteps DEF Unconsumed
    <3>2. QED
      BY <2>2, <3>1, OrderSteps DEF Unconsumed
  <2>5. CASE UNCHANGED <<pc, pay, key, overlapped>>
    BY <2>3, <2>4, <2>5 DEF Consumed
  <2>6. ASSUME NEW r \in Requests, Began(r) \/ Moved(r),
               \A q \in Requests \ {r} : pc'[q] = pc[q] /\ pay'[q] = pay[q] /\ key'[q] = key[q]
        PROVE  \/ pc'[s] = "mark"
               \/ pc'[s] = "clear" /\ ~Unconsumed(pay[s])'
               \/ Consumed(s)'
    <3>1. CASE Consumed(s)
      <4>1. ASSUME NEW q \in Requests, pay'[q] = pay'[s] PROVE pc'[q] \notin Buying
        <5>1. CASE q # r
          BY <2>2, <2>6, <3>1, <4>1, <5>1 DEF Consumed
        <5>2. CASE q = r /\ Began(r)
          BY <5>2 DEF Began, Buying
        <5>3. CASE q = r /\ Moved(r)
          BY <1>1, <2>2, <3>1, <4>1, <5>3, NoneAssumption DEF Moved, Consumed
        <5>4. QED
          BY <2>6, <5>1, <5>2, <5>3
      <4>2. QED
        BY <2>2, <2>4, <3>1, <4>1 DEF Consumed
    <3>2. CASE s # r
      BY <2>3, <2>4, <2>6, <3>1, <3>2
    <3>3. CASE s = r /\ pc[s] = "mark"
      BY <2>2, <2>6, <3>3 DEF Began, Moved
    <3>4. CASE s = r /\ pc[s] = "clear" /\ ~Unconsumed(pay[s])
      <4>1. pc'[s] = "done" /\ pay[s] \notin staged'
        BY <2>6, <3>4 DEF Began, Moved
      <4>2. ASSUME NEW q \in Requests \ {s} PROVE pc'[q] \notin Buying
        BY <1>1, <2>6, <3>4 DEF Lone, Busy, Activating, Buying
      <4>3. \A q \in Requests : pc'[q] \notin Buying
        BY <4>1, <4>2 DEF Buying
      <4>4. QED
        BY <2>2, <2>4, <3>4, <4>1, <4>3 DEF Consumed
    <3>5. QED
      BY <2>3, <3>1, <3>2, <3>3, <3>4
  <2>7. QED
    BY <2>5, <2>6, PaySteps
<1>4. QED
  BY <1>2, <1>3

LEMMA RepeatsStep ==
  ASSUME TypeInv, SingleInv, SettledInv, Repeats, [Next]_vars
  PROVE  Repeats'
<1>0. (overlapped => overlapped') /\ stumbled \subseteq stumbled'
  BY PaySteps, OrderSteps DEF Began, Moved
<1> SUFFICES ASSUME ~overlapped, NEW s \in Requests, NEW x \in Requests, Made(s)', Made(x)',
                    pay'[s] = pay'[x], pay'[s] # NoPayment, s # x
             PROVE  stumbled' \cap {s, x} # {}
  BY <1>0 DEF Repeats
<1>1. \A q \in Requests : Made(q) \/ InsertRow(q) => pay'[q] = pay[q]
  BY PaySteps DEF TypeInv, Unborn, Made, Began, Moved, InsertRow
<1>2. \A q \in Requests : Made(q)' => Made(q) \/ InsertRow(q)
  BY MadeSteps
<1>3. pay[s] = pay[x] /\ pay[s] # NoPayment
  BY <1>1, <1>2
<1>4. ASSUME NEW q \in Requests, NEW p \in Requests, InsertRow(q), Made(p), pay[p] = pay[q],
             pay[p] # NoPayment, p # q
      PROVE  p \in stumbled
  <2>1. pc[q] = "insert" /\ ~Busy(p)
    BY <1>4 DEF InsertRow, SingleInv, Lone, Busy, Activating
  <2>2. pc[p] \notin {"mark", "clear"} /\ ~Consumed(p)
    BY <1>4, <2>1 DEF Busy, Activating, Consumed, Buying
  <2>3. QED
    BY <1>4, <2>2 DEF SettledInv, Settled
<1>5. ~(InsertRow(s) /\ InsertRow(x))
  BY DEF SingleInv, Lone, Busy, Activating, InsertRow
<1>6. CASE Made(s) /\ Made(x)
  BY <1>0, <1>3, <1>6 DEF Repeats
<1>7. QED
  BY <1>0, <1>2, <1>3, <1>4, <1>5, <1>6

(* While activations and cancellations come one at a time, an employer has *)
(* one ACTIVE row at most, and a payment a second row only if the verify   *)
(* that made the first one crashed or could not mark it and a lookup of    *)
(* the payment's row found none, whatever crashes, expiries and retries do *)
(* (activate).                                                             *)
THEOREM OneSubscription == Spec => []SingleSubscription
<1>1. Init => SingleInv /\ PaymentInv
  <2> SUFFICES ASSUME Init PROVE SingleInv /\ PaymentInv
    OBVIOUS
  <2>1. \A r \in Requests : pc[r] = "idle" /\ ~Busy(r) /\ key[r] = NoPayment
    BY DEF Init, Busy, Activating, Cancelling
  <2>2. Active = {} /\ \A s \in Requests : rows[s].paymentId = NoPayment /\ ~Made(s)
    BY DEF Init, Active, Absent, Made
  <2>3. QED
    BY <2>1, <2>2 DEF SingleInv, Lone, ActiveOnce, KeyedOnce, PaymentInv, OwnKey, SettledInv,
       Settled, Repeats
<1>2. TypeInv /\ SingleInv /\ PaymentInv /\ [Next]_vars => SingleInv' /\ PaymentInv'
  BY SingleStep, OwnKeyStep, SettledStep, RepeatsStep DEF PaymentInv
<1>3. SingleInv /\ PaymentInv => SingleSubscription
  <2> SUFFICES ASSUME SingleInv, PaymentInv, ~overlapped
               PROVE  Cardinality(Active) <= 1 /\ OneRowPerPayment
    BY DEF SingleSubscription, OneActive, OneRowPerPayment
  <2>1. \A s, x \in Active : s = x
    BY DEF SingleInv, ActiveOnce
  <2>2. Active = {} \/ \E s : Active = {s}
    BY <2>1
  <2>3. Cardinality(Active) <= 1
    <3>1. CASE Active = {}
      BY <3>1, FS_EmptySet
    <3>2. ASSUME NEW s, Active = {s} PROVE Cardinality(Active) <= 1
      <4>1. Cardinality({s}) = 1
        BY FS_Singleton
      <4>2. QED
        BY <3>2, <4>1
    <3>3. QED
      BY <2>2, <3>1, <3>2
  <2>4. ASSUME NEW s \in Requests, NEW x \in Requests, Made(s), Made(x), pay[s] = pay[x],
               pay[s] # NoPayment, s # x
        PROVE  /\ NoPayment \in {rows[s].paymentId, rows[x].paymentId}
               /\ stumbled \cap {s, x} # {}
    <3>1. stumbled \cap {s, x} # {}
      BY <2>4 DEF PaymentInv, Repeats
    <3>2. /\ rows[s].paymentId \in {NoPayment, pay[s]} /\ rows[x].paymentId \in {NoPayment, pay[s]}
          /\ rows[s].paymentId = rows[x].paymentId /\ rows[s].paymentId # NoPayment => s = x
      BY <2>4 DEF PaymentInv, OwnKey, SingleInv, KeyedOnce
    <3>3. QED
      BY <2>4, <3>1, <3>2
  <2>5. QED
    BY <2>3, <2>4 DEF OneRowPerPayment
<1>4. QED
  BY <1>1, <1>2, <1>3, TypeInvariant, PTL DEF Spec
=============================================================================
