------------------------ MODULE CreditPurchaseProofs ------------------------
(***************************************************************************)
(* Proofs about CreditPurchase, for every set of orders and requests, every*)
(* pack size, every setting of the flags and every number of faults.       *)
(***************************************************************************)
EXTENDS CreditPurchase, TLAPS

USE DEF Resting, Steps, FaultKinds

(* The type invariant: no step of the order route, the verify route or the *)
(* environment leaves the types; in particular credits and balances stay   *)
(* natural numbers and a record is written back only by a request that     *)
(* read one.                                                               *)
SnapOK == \A r \in Requests : pc[r] \in {"grantWrite", "updateWrite"} => snap[r] # NoRecord

TargetOK == \A r \in Requests : InProgress(r) => target[r] \in Orders

TypeInv == TypeOK /\ SnapOK /\ TargetOK

LEMMA TypeInit == Init => TypeInv
<1> SUFFICES ASSUME Init PROVE TypeInv
  OBVIOUS
<1>1. employer \in EmployerRecord
  BY WelcomeAssumption DEF Init, EmployerRecord
<1>2. ledger \in Seq(LedgerRow)
  BY DEF Init
<1>3. TypeOK
  BY <1>1, <1>2, WelcomeAssumption DEF Init, TypeOK
<1>4. SnapOK /\ TargetOK
  BY DEF Init, SnapOK, TargetOK, InProgress
<1>5. QED
  BY <1>3, <1>4 DEF TypeInv

LEMMA FaultType ==
  ASSUME TypeOK, NEW k \in FaultKinds, Fault(k)
  PROVE  faults' \in [FaultKinds -> Nat]
BY DEF Fault, TypeOK

LEMMA OrderRouteType ==
  ASSUME TypeInv, NEW o \in Orders, OrderRoute(o)
  PROVE  TypeInv'
<1> USE DEF TypeInv, TypeOK, SnapOK, TargetOK, InProgress, billingVars, requestVars, history
<1>1. CASE CreateOrder(o)
  BY <1>1 DEF CreateOrder
<1>2. CASE StageOrder(o)
  BY <1>2 DEF StageOrder
<1>3. CASE PersistOrder(o)
  BY <1>3 DEF PersistOrder
<1>4. CASE PersistOrderFails(o)
  BY <1>4, FaultType DEF PersistOrderFails
<1>5. QED
  BY <1>1, <1>2, <1>3, <1>4 DEF OrderRoute

LEMMA EnvironmentType ==
  ASSUME TypeInv, Environment
  PROVE  TypeInv'
<1> USE DEF TypeInv, TypeOK, SnapOK, TargetOK, InProgress, routeVars, billingVars,
            requestVars, history
<1>1. ASSUME NEW o \in Orders, Pay(o) PROVE TypeInv'
  BY <1>1 DEF Pay
<1>2. ASSUME NEW o \in Orders, LoseOrder(o) PROVE TypeInv'
  BY <1>2, FaultType DEF LoseOrder
<1>3. CASE LoseRecord
  BY <1>3, FaultType DEF LoseRecord
<1>4. CASE Register
  BY <1>4 DEF Register, EmployerRecord
<1>5. ASSUME NEW d \in {-1, 1}, ForeignWriter(d) PROVE TypeInv'
  <2>1. live + d \in Nat
    BY <1>5 DEF ForeignWriter
  <2>2. [ref |-> NoOrder, amount |-> d, balance |-> live + d] \in LedgerRow
    BY <2>1 DEF LedgerRow
  <2>3. ledger' \in Seq(LedgerRow) /\ live' \in Nat
    BY <1>5, <2>1, <2>2 DEF ForeignWriter
  <2>4. QED
    BY <1>5, <2>3, FaultType DEF ForeignWriter
<1>6. QED
  BY <1>1, <1>2, <1>3, <1>4, <1>5 DEF Environment

LEMMA BlemishType ==
  ASSUME TypeOK, NEW r \in Requests, target[r] \in Orders, Blemish(r)
  PROVE  blemishes' \in [Orders -> Nat]
BY DEF Blemish, TypeOK

LEMMA VerifyRouteType ==
  ASSUME TypeInv, NEW r \in Requests, VerifyRoute(r)
  PROVE  TypeInv'
<1> USE DEF TypeInv, TypeOK, SnapOK, TargetOK, InProgress, Goto, routeVars, billingVars,
            requestVars, history
<1>1. ASSUME NEW o \in Orders, Verify(r, o) PROVE TypeInv'
  BY <1>1 DEF Verify, Contended
<1>2. CASE LoadPending(r)
  BY <1>2 DEF LoadPending
<1>3. CASE LoadFromDb(r)
  BY <1>3 DEF LoadFromDb
<1>4. CASE LoadFromDbFails(r)
  BY <1>4, FaultType DEF LoadFromDbFails
<1>5. CASE GrantRead(r)
  BY <1>5 DEF GrantRead
<1>6. CASE GrantWrite(r)
  <2>1. target[r] \in Orders /\ snap[r] \in EmployerRecord
    BY <1>6 DEF GrantWrite
  <2>2. employer' \in EmployerRecord
    <3>1. Grant[target[r]] \in Nat /\ snap[r].credits \in Nat
      BY <2>1, GrantAssumption DEF EmployerRecord
    <3>2. snap[r].credits + Grant[target[r]] \in Nat
      BY <3>1
    <3>3. QED
      BY <1>6, <2>1, <3>2 DEF GrantWrite, EmployerRecord
  <2>3. redisGrants' \in [Orders -> Nat] /\ redisTotal' \in Nat
    <3>1. Grant[target[r]] \in Nat
      BY <2>1, GrantAssumption
    <3>2. redisTotal' \in Nat
      BY <1>6, <3>1 DEF GrantWrite
    <3>3. QED
      BY <1>6, <2>1, <3>2 DEF GrantWrite
  <2>4. /\ pc' \in [Requests -> Resting \cup Steps]
        /\ snap' \in [Requests -> EmployerRecord \cup {NoRecord}]
        /\ granted' \in [Requests -> BOOLEAN]
    BY <1>6 DEF GrantWrite
  <2>5. SnapOK' /\ TargetOK'
    BY <1>6 DEF GrantWrite
  <2>6. QED
    BY <1>6, <2>2, <2>3, <2>4, <2>5 DEF GrantWrite
<1>7. CASE UpdateRead(r)
  BY <1>7 DEF UpdateRead
<1>8. CASE UpdateWrite(r)
  <2>1. target[r] \in Orders /\ snap[r] \in EmployerRecord
    BY <1>8 DEF UpdateWrite
  <2>2. employer' \in EmployerRecord
    BY <1>8, <2>1 DEF UpdateWrite, EmployerRecord
  <2>3. QED
    BY <1>8, <2>2 DEF UpdateWrite
<1>9. CASE RecordCheck(r)
  BY <1>9 DEF RecordCheck
<1>10. CASE RecordApply(r)
  <2>1. target[r] \in Orders
    BY <1>10 DEF RecordApply
  <2>2. live + Grant[target[r]] \in Nat /\ Grant[target[r]] \in Int
    BY <2>1, GrantAssumption
  <2>3. [ref |-> target[r], amount |-> Grant[target[r]], balance |-> live + Grant[target[r]]]
          \in LedgerRow
    BY <2>1, <2>2 DEF LedgerRow
  <2>4. ledger' \in Seq(LedgerRow) /\ live' \in Nat
    BY <1>10, <2>2, <2>3 DEF RecordApply
  <2>5. QED
    BY <1>10, <2>4 DEF RecordApply
<1>11. CASE RecordFails(r)
  BY <1>11, FaultType DEF RecordFails
<1>12. CASE MarkSuccess(r)
  BY <1>12 DEF MarkSuccess
<1>13. CASE MarkFails(r)
  <2>1. target[r] \in Orders
    BY <1>13 DEF MarkFails
  <2>2. blemishes' \in [Orders -> Nat]
    BY <1>13, <2>1, BlemishType DEF MarkFails
  <2>3. faults' \in [FaultKinds -> Nat]
    BY <1>13, FaultType DEF MarkFails
  <2>4. QED
    BY <1>13, <2>2, <2>3 DEF MarkFails
<1>14. CASE ClearOrder(r)
  BY <1>14 DEF ClearOrder
<1>15. CASE Crash(r)
  <2>1. target[r] \in Orders
    BY <1>15 DEF Crash
  <2>2. blemishes' \in [Orders -> Nat]
    BY <1>15, <2>1, BlemishType DEF Crash
  <2>3. faults' \in [FaultKinds -> Nat]
    BY <1>15, FaultType DEF Crash
  <2>4. QED
    BY <1>15, <2>2, <2>3 DEF Crash
<1>16. QED
  BY <1>1, <1>2, <1>3, <1>4, <1>5, <1>6, <1>7, <1>8, <1>9, <1>10, <1>11, <1>12,
     <1>13, <1>14, <1>15 DEF VerifyRoute

LEMMA TypeInvariant == Spec => []TypeInv
<1>1. TypeInv /\ [Next]_vars => TypeInv'
  <2>1. ASSUME TypeInv, UNCHANGED vars PROVE TypeInv'
    BY <2>1 DEF TypeInv, TypeOK, SnapOK, TargetOK, InProgress, vars, routeVars, billingVars,
                requestVars, history
  <2>2. QED
    BY <2>1, OrderRouteType, EnvironmentType, VerifyRouteType DEF Next
<1>2. QED
  BY TypeInit, <1>1, PTL DEF Spec

(* Every reachable state is well typed: whatever fails and however requests *)
(* interleave, credits and balances stay natural numbers, and what is      *)
(* written back to Redis is a record (grant_credits, update_employer).     *)
THEOREM TypeCorrect == Spec => []TypeOK
<1>1. TypeInv => TypeOK
  BY DEF TypeInv
<1>2. QED
  BY <1>1, TypeInvariant, PTL

-----------------------------------------------------------------------------
(* The live ledger *)

(* A step of the system appends at most one row to the live ledger, with   *)
(* the balance it leaves in the wallet.                                    *)
Appends(o, d) ==
  /\ live' = live + d
  /\ ledger' = Append(ledger, [ref |-> o, amount |-> d, balance |-> live + d])

LEMMA AppendReplays ==
  ASSUME TypeInv, LedgerReplays, NEW o, NEW d \in Int, Appends(o, d)
  PROVE  LedgerReplays'
<1> DEFINE n == Len(ledger)
           row == [ref |-> o, amount |-> d, balance |-> live + d]
<1>1. /\ ledger \in Seq(LedgerRow)
      /\ n \in Nat
      /\ ledger' = Append(ledger, row)
      /\ live' = live + d
  BY DEF TypeInv, TypeOK, Appends
<1>2. Len(ledger') = n + 1 /\ ledger'[n + 1] = row
  BY <1>1
<1>3. \A i \in 1..n : ledger'[i] = ledger[i]
  BY <1>1
<1>4. live' = LedgerBalance'
  BY <1>1, <1>2 DEF LedgerBalance
<1>5. ASSUME NEW i \in 1..Len(ledger')
      PROVE  ledger'[i].balance =
               (IF i = 1 THEN WelcomeCredits ELSE ledger'[i-1].balance) + ledger'[i].amount
  <2>1. CASE i \in 1..n
    <3>1. i # 1 => i - 1 \in 1..n
      BY <2>1
    <3>2. QED
      BY <2>1, <3>1, <1>3 DEF LedgerReplays
  <2>2. CASE i = n + 1
    <3>1. live = IF n = 0 THEN WelcomeCredits ELSE ledger[n].balance
      BY <1>1 DEF LedgerReplays, LedgerBalance
    <3>2. n # 0 => ledger'[i-1] = ledger[n]
      BY <1>1, <1>3, <2>2
    <3>3. QED
      BY <1>1, <1>2, <2>2, <3>1, <3>2
  <2>3. QED
    BY <1>1, <1>2, <2>1, <2>2
<1>6. QED
  BY <1>4, <1>5 DEF LedgerReplays

(* What one step does to the live billing tables: nothing, or one append   *)
(* by the job board or by record_purchase.                                 *)
LEMMA LedgerSteps ==
  ASSUME TypeInv, [Next]_vars
  PROVE  \/ UNCHANGED <<live, ledger>>
         \/ \E d \in {-1, 1} : ForeignWriter(d)
         \/ \E r \in Requests : RecordApply(r)
<1> USE DEF billingVars
<1>1. ASSUME NEW o \in Orders, OrderRoute(o) PROVE UNCHANGED <<live, ledger>>
  BY <1>1 DEF OrderRoute, CreateOrder, StageOrder, PersistOrder, PersistOrderFails
<1>2. ASSUME NEW r \in Requests, VerifyRoute(r)
      PROVE  UNCHANGED <<live, ledger>> \/ RecordApply(r)
  BY <1>2 DEF VerifyRoute, Verify, LoadPending, LoadFromDb, LoadFromDbFails, GrantRead,
              GrantWrite, UpdateRead, UpdateWrite, RecordCheck, RecordFails, MarkSuccess,
              MarkFails, ClearOrder, Crash
<1>3. ASSUME Environment
      PROVE  UNCHANGED <<live, ledger>> \/ \E d \in {-1, 1} : ForeignWriter(d)
  BY <1>3 DEF Environment, Pay, LoseOrder, LoseRecord, Register
<1>4. CASE UNCHANGED vars
  BY <1>4 DEF vars
<1>5. QED
  BY <1>1, <1>2, <1>3, <1>4 DEF Next

(* The live ledger replays to the live balance however requests, retries,  *)
(* crashes and other writers interleave: _apply_delta adds in the database.*)
THEOREM LedgerAlwaysReplays == Spec => []LedgerReplays
<1>1. Init => LedgerReplays
  BY DEF Init, LedgerReplays, LedgerBalance
<1>2. TypeInv /\ LedgerReplays /\ [Next]_vars => LedgerReplays'
  <2> SUFFICES ASSUME TypeInv, LedgerReplays, [Next]_vars
               PROVE  LedgerReplays'
    OBVIOUS
  <2>1. CASE UNCHANGED <<live, ledger>>
    BY <2>1 DEF LedgerReplays, LedgerBalance
  <2>2. ASSUME NEW d \in {-1, 1}, ForeignWriter(d) PROVE LedgerReplays'
    BY <2>2, AppendReplays DEF ForeignWriter, Appends
  <2>3. ASSUME NEW r \in Requests, RecordApply(r) PROVE LedgerReplays'
    <3>1. Grant[target[r]] \in Int
      BY <2>3, GrantAssumption DEF RecordApply, TypeInv, TargetOK, InProgress
    <3>2. Appends(target[r], Grant[target[r]])
      BY <2>3 DEF RecordApply, Appends
    <3>3. QED
      BY <3>1, <3>2, AppendReplays
  <2>4. QED
    BY <2>1, <2>2, <2>3, LedgerSteps
<1>3. QED
  BY <1>1, <1>2, TypeInvariant, PTL DEF Spec

-----------------------------------------------------------------------------
(* Paid before granted *)

(* An order is untouched by payments and grants until it is offered. *)
RouteInv ==
  \A o \in Orders :
    /\ phase[o] # "offered" => /\ payment[o] = "absent"
                               /\ checkout[o] = "unpaid"
                               /\ redisGrants[o] = 0
    /\ Unconsumed(o) => PaymentsInDb

(* A request in progress verifies an offered, captured order, and knows    *)
(* whether it has granted it.                                              *)
RequestInv ==
  \A r \in Requests :
    /\ InProgress(r) => phase[target[r]] = "offered" /\ checkout[target[r]] = "captured"
    /\ granted[r] => target[r] \in Orders /\ redisGrants[target[r]] > 0
    /\ pc[r] \in {"idle", "rejected", "load", "loadDb", "grantRead", "grantWrite"} => ~granted[r]
    /\ pc[r] = "recordApply" => granted[r]

PaidInv == RouteInv /\ RequestInv /\ OnlyPaidOrdersGranted

(* Appending a row records its order and no other one. *)
LEMMA RecordedAppend ==
  ASSUME TypeInv, NEW o, NEW d, Appends(o, d), NEW x
  PROVE  Recorded(x)' <=> (Recorded(x) \/ x = o)
<1> DEFINE n == Len(ledger)
<1>1. /\ ledger \in Seq(LedgerRow)
      /\ n \in Nat
      /\ ledger' = Append(ledger, [ref |-> o, amount |-> d, balance |-> live + d])
  BY DEF TypeInv, TypeOK, Appends
<1>2. Len(ledger') = n + 1 /\ ledger'[n + 1].ref = o
  BY <1>1
<1>3. \A i \in 1..n : ledger'[i] = ledger[i]
  BY <1>1
<1>4. Recorded(x) => Recorded(x)'
  BY <1>1, <1>2, <1>3 DEF Recorded
<1>5. x = o => Recorded(x)'
  BY <1>1, <1>2 DEF Recorded
<1>6. Recorded(x)' => Recorded(x) \/ x = o
  BY <1>1, <1>2, <1>3 DEF Recorded
<1>7. QED
  BY <1>4, <1>5, <1>6

LEMMA ForeignRecorded ==
  ASSUME TypeInv, NEW d \in {-1, 1}, ForeignWriter(d), NEW o \in Orders
  PROVE  Recorded(o)' <=> Recorded(o)
BY RecordedAppend, NoOrderAssumption DEF ForeignWriter, Appends

LEMMA ApplyRecorded ==
  ASSUME TypeInv, NEW r \in Requests, RecordApply(r), NEW o \in Orders
  PROVE  Recorded(o)' <=> (Recorded(o) \/ o = target[r])
BY RecordedAppend DEF RecordApply, Appends

LEMMA LedgerUnchanged ==
  ASSUME UNCHANGED ledger, NEW o
  PROVE  Recorded(o)' <=> Recorded(o)
BY DEF Recorded

LEMMA PaidStep ==
  ASSUME TypeInv, PaidInv, [Next]_vars
  PROVE  PaidInv'
<1> USE DEF PaidInv, RouteInv, RequestInv, OnlyPaidOrdersGranted, TypeInv, TypeOK, TargetOK,
            InProgress, Unconsumed, Goto, routeVars, billingVars, requestVars, history
<1>1. ASSUME NEW o \in Orders, OrderRoute(o) PROVE PaidInv'
  <2>1. CASE CreateOrder(o)
    BY <2>1, LedgerUnchanged DEF CreateOrder
  <2>2. CASE StageOrder(o)
    BY <2>2, LedgerUnchanged DEF StageOrder
  <2>3. CASE PersistOrder(o)
    BY <2>3, LedgerUnchanged DEF PersistOrder
  <2>4. CASE PersistOrderFails(o)
    BY <2>4, LedgerUnchanged DEF PersistOrderFails
  <2>5. QED
    BY <1>1, <2>1, <2>2, <2>3, <2>4 DEF OrderRoute
<1>2. CASE Environment
  <2>1. ASSUME NEW o \in Orders, Pay(o) PROVE PaidInv'
    BY <2>1, LedgerUnchanged DEF Pay
  <2>2. ASSUME NEW o \in Orders, LoseOrder(o) PROVE PaidInv'
    BY <2>2, LedgerUnchanged DEF LoseOrder
  <2>3. CASE LoseRecord \/ Register
    BY <2>3, LedgerUnchanged DEF LoseRecord, Register
  <2>4. ASSUME NEW d \in {-1, 1}, ForeignWriter(d) PROVE PaidInv'
    BY <2>4, ForeignRecorded DEF ForeignWriter
  <2>5. QED
    BY <1>2, <2>1, <2>2, <2>3, <2>4 DEF Environment
<1>3. ASSUME NEW r \in Requests, VerifyRoute(r) PROVE PaidInv'
  <2>1. ASSUME NEW o \in Orders, Verify(r, o) PROVE PaidInv'
    BY <2>1, LedgerUnchanged DEF Verify
  <2>2. CASE LoadPending(r) \/ LoadFromDb(r) \/ LoadFromDbFails(r)
    BY SMTT(30), <2>2, LedgerUnchanged DEF LoadPending, LoadFromDb, LoadFromDbFails
  <2>3. CASE GrantRead(r)
    BY <2>3, LedgerUnchanged DEF GrantRead
  <2>4. CASE GrantWrite(r)
    <3>1. /\ target[r] \in Orders
          /\ redisGrants' = [redisGrants EXCEPT ![target[r]] = @ + 1]
          /\ redisGrants'[target[r]] > 0
      BY <2>4 DEF GrantWrite
    <3>2. \A o \in Orders : redisGrants[o] > 0 => redisGrants'[o] > 0
      BY <3>1
    <3>3. /\ phase[target[r]] = "offered" /\ checkout[target[r]] = "captured"
          /\ granted' = [granted EXCEPT ![r] = TRUE]
          /\ pc' = [pc EXCEPT ![r] = "updateRead"]
          /\ UNCHANGED <<phase, checkout, target, payment, ledger>>
      BY <2>4 DEF GrantWrite
    <3>4. RouteInv'
      BY <3>1, <3>3
    <3>5. RequestInv'
      BY <3>1, <3>2, <3>3
    <3>6. OnlyPaidOrdersGranted'
      BY <3>1, <3>3, LedgerUnchanged
    <3>7. QED
      BY <3>4, <3>5, <3>6
  <2>5. CASE UpdateRead(r) \/ UpdateWrite(r)
    BY SMTT(30), <2>5, LedgerUnchanged DEF UpdateRead, UpdateWrite
  <2>6. CASE RecordCheck(r) \/ RecordFails(r)
    BY SMTT(30), <2>6, LedgerUnchanged DEF RecordCheck, RecordFails, MustRecord
  <2>7. CASE RecordApply(r)
    <3>1. /\ pc' = [pc EXCEPT ![r] = "mark"]
          /\ granted[r] /\ redisGrants[target[r]] > 0
          /\ UNCHANGED <<phase, payment, checkout, redisGrants, granted, target>>
      BY <2>7 DEF RecordApply
    <3>2. RouteInv' /\ RequestInv'
      BY <3>1
    <3>3. OnlyPaidOrdersGranted'
      BY <2>7, <3>1, ApplyRecorded
    <3>4. QED
      BY <3>2, <3>3
  <2>8. CASE MarkSuccess(r)
    BY <2>8, LedgerUnchanged DEF MarkSuccess
  <2>9. CASE MarkFails(r) \/ ClearOrder(r) \/ Crash(r)
    BY SMTT(30), <2>9, LedgerUnchanged DEF MarkFails, ClearOrder, Crash
  <2>10. QED
    BY <1>3, <2>1, <2>2, <2>3, <2>4, <2>5, <2>6, <2>7, <2>8, <2>9 DEF VerifyRoute
<1>4. CASE UNCHANGED vars
  BY <1>4, LedgerUnchanged DEF vars
<1>5. QED
  BY <1>1, <1>2, <1>3, <1>4 DEF Next

LEMMA PaidCorrect == Spec => []PaidInv
<1>1. Init => PaidInv
  BY DEF Init, PaidInv, RouteInv, RequestInv, OnlyPaidOrdersGranted, InProgress, Unconsumed,
         Recorded
<1>2. QED
  BY <1>1, PaidStep, TypeInvariant, PTL DEF Spec

(* Neither wallet is ever granted an order Razorpay has not captured, and  *)
(* the live wallet is not credited before Redis was (buy_credits_verify).  *)
THEOREM OnlyPaidGranted == Spec => []OnlyPaidOrdersGranted
BY PaidCorrect, PTL DEF PaidInv

-----------------------------------------------------------------------------
(* At most once, unless requests of one order met *)

Exclusive ==
  \A q, r \in Requests :
    InProgress(q) /\ InProgress(r) /\ target[q] = target[r] /\ target[r] \notin contested => q = r

(* A request about to apply its purchase found no row, and only a request  *)
(* that contends with it can have written one since.                       *)
OnceInv ==
  /\ Exclusive
  /\ LiveIdempotent
  /\ \A r \in Requests :
       pc[r] = "recordApply" /\ target[r] \notin contested => ~Recorded(target[r])

LEMMA AppendIdempotent ==
  ASSUME TypeInv, LiveIdempotent, NEW o, NEW d, Appends(o, d), contested' = contested,
         o \in contested \cup {NoOrder} \/ ~Recorded(o)
  PROVE  LiveIdempotent'
<1> DEFINE n == Len(ledger)
<1>1. /\ n \in Nat
      /\ Len(ledger') = n + 1
      /\ ledger'[n + 1].ref = o
      /\ \A i \in 1..n : ledger'[i] = ledger[i]
  BY DEF TypeInv, TypeOK, Appends
<1>2. SUFFICES ASSUME NEW i \in 1..n+1, NEW j \in 1..n+1,
                      ledger'[i].ref = ledger'[j].ref,
                      ledger'[i].ref \notin contested \cup {NoOrder}
               PROVE  i = j
  BY <1>1 DEF LiveIdempotent
<1>3. CASE i \in 1..n /\ j \in 1..n
  BY <1>1, <1>2, <1>3 DEF LiveIdempotent
<1>4. CASE i = n + 1 /\ j \in 1..n
  BY <1>1, <1>2, <1>4 DEF Recorded
<1>5. CASE i \in 1..n /\ j = n + 1
  BY <1>1, <1>2, <1>5 DEF Recorded
<1>6. QED
  BY <1>1, <1>3, <1>4, <1>5

(* A step other than Verify starts no request and changes no target; none  *)
(* forgets that an order was contested.                                    *)
LEMMA ProgressSteps ==
  ASSUME TypeInv, [Next]_vars
  PROVE  \/ \E r \in Requests, o \in Orders : Verify(r, o)
         \/ /\ UNCHANGED <<target, contested>>
            /\ \A r \in Requests : InProgress(r)' => InProgress(r)
<1> USE DEF billingVars, requestVars, InProgress, history
<1>1. ASSUME NEW o \in Orders, OrderRoute(o) PROVE UNCHANGED <<pc, target, contested>>
  BY <1>1 DEF OrderRoute, CreateOrder, StageOrder, PersistOrder, PersistOrderFails
<1>2. ASSUME Environment PROVE UNCHANGED <<pc, target, contested>>
  BY <1>2 DEF Environment, Pay, LoseOrder, LoseRecord, Register, ForeignWriter
<1>3. ASSUME NEW r \in Requests, VerifyRoute(r)
      PROVE  \/ \E o \in Orders : Verify(r, o)
             \/ /\ UNCHANGED <<target, contested>>
                /\ pc[r] \in Steps
                /\ pc' = [pc EXCEPT ![r] = pc'[r]]
  BY <1>3 DEF VerifyRoute, TypeInv, TypeOK, Goto, LoadPending, LoadFromDb, LoadFromDbFails,
              GrantRead, GrantWrite, UpdateRead, UpdateWrite, RecordCheck, RecordApply,
              RecordFails, MarkSuccess, MarkFails, ClearOrder, Crash
<1>4. CASE UNCHANGED vars
  BY <1>4 DEF vars
<1>5. QED
  BY <1>1, <1>2, <1>3, <1>4 DEF Next, TypeInv, TypeOK

LEMMA ContestedGrows ==
  ASSUME TypeInv, [Next]_vars
  PROVE  contested \subseteq contested'
BY ProgressSteps DEF Verify

LEMMA ExclusiveStep ==
  ASSUME TypeInv, Exclusive, [Next]_vars
  PROVE  Exclusive'
<1>1. ASSUME NEW r \in Requests, NEW o \in Orders, Verify(r, o) PROVE Exclusive'
  <2>1. /\ pc' = [pc EXCEPT ![r] = pc'[r]] /\ target' = [target EXCEPT ![r] = o]
        /\ pc \in [Requests -> Resting \cup Steps]
        /\ target \in [Requests -> Orders \cup {NoOrder}]
        /\ contested' = contested \cup Contended(o)
    BY <1>1 DEF Verify, Goto, TypeInv, TypeOK
  <2>2. \A q \in Requests \ {r} : /\ InProgress(q)' <=> InProgress(q)
                                 /\ target'[q] = target[q]
    BY <2>1 DEF InProgress
  <2>3. \A q \in Requests \ {r} : InProgress(q) /\ target[q] = o => o \in contested'
    BY <2>1 DEF Contended
  <2>4. target'[r] = o
    BY <2>1
  <2>5. QED
    BY <2>1, <2>2, <2>3, <2>4 DEF Exclusive
<1>2. CASE UNCHANGED <<target, contested>> /\ \A r \in Requests : InProgress(r)' => InProgress(r)
  BY <1>2 DEF Exclusive
<1>3. QED
  BY <1>1, <1>2, ProgressSteps

(* Only the idempotency check leads a request to apply its purchase. *)
LEMMA ReachApply ==
  ASSUME TypeInv, [Next]_vars, NEW q \in Requests, pc'[q] = "recordApply"
  PROVE  \/ pc[q] = "recordApply" /\ target'[q] = target[q]
         \/ RecordCheck(q)
<1> USE DEF billingVars, requestVars
<1>1. ASSUME NEW o \in Orders, OrderRoute(o) PROVE UNCHANGED <<pc, target>>
  BY <1>1 DEF OrderRoute, CreateOrder, StageOrder, PersistOrder, PersistOrderFails
<1>2. ASSUME Environment PROVE UNCHANGED <<pc, target>>
  BY <1>2 DEF Environment, Pay, LoseOrder, LoseRecord, Register, ForeignWriter
<1>3. ASSUME NEW r \in Requests, VerifyRoute(r)
      PROVE  \/ pc[q] = "recordApply" /\ target'[q] = target[q]
             \/ RecordCheck(q)
  <2>1. ASSUME NEW o \in Orders, Verify(r, o)
        PROVE  pc[q] = "recordApply" /\ target'[q] = target[q]
    BY <2>1 DEF Verify, Goto, TypeInv, TypeOK
  <2>2. CASE RecordCheck(r)
    BY <2>2 DEF RecordCheck, Goto, TypeInv, TypeOK
  <2>3. CASE LoadPending(r) \/ LoadFromDb(r) \/ LoadFromDbFails(r) \/ GrantRead(r)
    BY <2>3 DEF LoadPending, LoadFromDb, LoadFromDbFails, GrantRead, Goto, TypeInv, TypeOK
  <2>4. CASE GrantWrite(r) \/ UpdateRead(r) \/ UpdateWrite(r) \/ RecordApply(r)
    BY <2>4 DEF GrantWrite, UpdateRead, UpdateWrite, RecordApply, Goto, TypeInv, TypeOK
  <2>5. CASE RecordFails(r) \/ MarkSuccess(r) \/ MarkFails(r) \/ ClearOrder(r) \/ Crash(r)
    BY <2>5 DEF RecordFails, MarkSuccess, MarkFails, ClearOrder, Crash, Goto, TypeInv, TypeOK
  <2>6. QED
    BY <1>3, <2>1, <2>2, <2>3, <2>4, <2>5 DEF VerifyRoute
<1>4. CASE UNCHANGED vars
  BY <1>4 DEF vars
<1>5. QED
  BY <1>1, <1>2, <1>3, <1>4 DEF Next

(* The steps that reach "recordApply" or write the ledger. *)
LEMMA OnceStep ==
  ASSUME TypeInv, OnceInv, [Next]_vars
  PROVE  OnceInv'
<1>1. Exclusive' /\ contested \subseteq contested'
  BY ExclusiveStep, ContestedGrows DEF OnceInv
<1>2. CASE \E r \in Requests : RecordApply(r)
  <2>1. PICK r \in Requests : RecordApply(r)
    BY <1>2
  <2>2. /\ target[r] \in Orders /\ (target[r] \in contested \/ ~Recorded(target[r]))
        /\ Appends(target[r], Grant[target[r]])
        /\ contested' = contested
    BY <2>1 DEF RecordApply, OnceInv, Appends, TypeInv, TargetOK, InProgress, history
  <2>3. LiveIdempotent'
    BY <2>2, AppendIdempotent DEF OnceInv
  <2>4. ASSUME NEW q \in Requests, pc'[q] = "recordApply", target'[q] \notin contested'
        PROVE  ~Recorded(target[q])'
    <3>1. q # r /\ pc[q] = "recordApply" /\ UNCHANGED target
      BY <2>1, <2>4 DEF RecordApply, Goto, TypeInv, TypeOK
    <3>2. target[q] \in Orders /\ target[q] # target[r] /\ ~Recorded(target[q])
      BY <2>1, <2>2, <2>4, <3>1 DEF RecordApply, OnceInv, Exclusive, InProgress, TypeInv, TargetOK
    <3>3. QED
      BY <2>1, <3>1, <3>2, ApplyRecorded
  <2>5. QED
    BY <1>1, <2>3, <2>4 DEF OnceInv
<1>3. CASE \E d \in {-1, 1} : ForeignWriter(d)
  <2>1. PICK d \in {-1, 1} : ForeignWriter(d)
    BY <1>3
  <2>2. Appends(NoOrder, d) /\ UNCHANGED <<pc, target, contested>>
    BY <2>1 DEF ForeignWriter, Appends, requestVars, history
  <2>3. LiveIdempotent'
    BY <2>2, AppendIdempotent DEF OnceInv
  <2>4. \A q \in Requests :
          pc'[q] = "recordApply" /\ target'[q] \notin contested' => ~Recorded(target[q])'
    BY <2>1, <2>2, ForeignRecorded DEF OnceInv, TypeInv, TargetOK, InProgress
  <2>5. QED
    BY <1>1, <2>3, <2>4 DEF OnceInv
<1>4. CASE UNCHANGED <<live, ledger>>
  <2>1. LiveIdempotent'
    BY <1>1, <1>4 DEF OnceInv, LiveIdempotent
  <2>2. ASSUME NEW q \in Requests, pc'[q] = "recordApply", target'[q] \notin contested'
        PROVE  ~Recorded(target[q])'
    <3>1. \/ pc[q] = "recordApply" /\ target'[q] = target[q]
          \/ RecordCheck(q)
      BY <2>2, ReachApply
    <3>2. QED
      BY <1>1, <1>4, <2>2, <3>1, LedgerUnchanged DEF OnceInv, RecordCheck, Goto, TypeInv, TypeOK
  <2>3. QED
    BY <1>1, <2>1, <2>2 DEF OnceInv
<1>5. QED
  BY <1>2, <1>3, <1>4, LedgerSteps

LEMMA OnceCorrect == Spec => []OnceInv
<1>1. Init => OnceInv
  BY DEF Init, OnceInv, Exclusive, LiveIdempotent, InProgress
<1>2. TypeInv /\ OnceInv /\ [Next]_vars => OnceInv'
  BY OnceStep
<1>3. QED
  BY <1>1, <1>2, TypeInvariant, PTL DEF Spec

(* record_purchase writes one row per payment, whatever crashes, retries,  *)
(* failed writes and reconciliations happen, unless two requests verified  *)
(* the order side by side.                                                 *)
THEOREM LiveIdempotence == Spec => []LiveIdempotent
BY OnceCorrect, PTL DEF OnceInv

-----------------------------------------------------------------------------
(* The purchase implements PaidOnce *)

Paid     == {o \in Orders : checkout[o] = "captured"}
Credited == {o \in Orders : Recorded(o)}

(* Only a checkout changes what Razorpay has captured. *)
LEMMA CheckoutSteps ==
  ASSUME TypeInv, [Next]_vars
  PROVE  \/ UNCHANGED checkout
         \/ \E o \in Orders : Pay(o)
BY DEF Next, vars, OrderRoute, CreateOrder, StageOrder, PersistOrder, PersistOrderFails,
       Environment, LoseOrder, LoseRecord, Register, ForeignWriter,
       VerifyRoute, Verify, LoadPending, LoadFromDb, LoadFromDbFails, GrantRead, GrantWrite,
       UpdateRead, UpdateWrite, RecordCheck, RecordApply, RecordFails, MarkSuccess,
       MarkFails, ClearOrder, Crash

(* A verify that changes the history contests one paid order.              *)
LEMMA ContestSteps ==
  ASSUME TypeInv, PaidInv, NEW r \in Requests, NEW o \in Orders, Verify(r, o)
  PROVE  \/ contested' = contested
         \/ contested' = contested \cup {o} /\ o \in Paid \ contested
<1>1. contested' = contested \cup Contended(o)
  BY DEF Verify
<1>2. Contended(o) # {} => Contended(o) = {o} /\ o \in Paid
  BY DEF Contended, Paid, PaidInv, RequestInv
<1>3. QED
  BY <1>1, <1>2

LEMMA PromiseStep ==
  ASSUME TypeInv, PaidInv, OnceInv, [Next]_vars
  PROVE  [Promise!Next]_<<Paid, contested, Credited, live>>
<1> DEFINE Promised == [Promise!Next]_<<Paid, contested, Credited, live>>
<1>1. ASSUME NEW o \in Orders, Pay(o) PROVE Promised
  <2>1. Credited' = Credited /\ live' = live /\ contested' = contested
    BY <1>1, LedgerUnchanged DEF Pay, billingVars, Credited, history
  <2>2. CASE checkout' = [checkout EXCEPT ![o] = "captured"] /\ checkout[o] # "captured"
    <3>1. Paid' = Paid \cup {o} /\ o \notin Paid
      BY <2>2 DEF Paid, TypeInv, TypeOK
    <3>2. Promise!Pay(o)
      BY <2>1, <3>1 DEF Promise!Pay, Paid, Credited
    <3>3. QED
      BY <3>2 DEF Promise!Next
  <2>3. CASE checkout' = [checkout EXCEPT ![o] = "failed"] /\ checkout[o] = "unpaid"
    <3>1. Paid' = Paid
      BY <2>3 DEF Paid, TypeInv, TypeOK
    <3>2. QED
      BY <2>1, <3>1
  <2>4. QED
    BY <1>1, <2>2, <2>3 DEF Pay
<1>2. ASSUME NEW r \in Requests, RecordApply(r) PROVE Promised
  <2>1. /\ target[r] \in Orders /\ live' = live + Grant[target[r]]
        /\ UNCHANGED <<checkout, contested>>
    BY <1>2 DEF RecordApply, TypeInv, TargetOK, InProgress, history
  <2>2. target[r] \in Paid /\ (target[r] \in Credited => target[r] \in contested)
    BY <1>2, <2>1 DEF RecordApply, Paid, Credited, PaidInv, RequestInv, OnceInv, InProgress
  <2>3. Paid' = Paid /\ Credited' = Credited \cup {target[r]}
    BY <1>2, <2>1, ApplyRecorded DEF Paid, Credited
  <2>4. Promise!Credit(target[r])
    BY <2>1, <2>2, <2>3 DEF Promise!Credit, Paid, Credited
  <2>5. QED
    BY <2>1, <2>4 DEF Promise!Next
<1>3. ASSUME NEW d \in {-1, 1}, ForeignWriter(d) PROVE Promised
  <2>1. Paid' = Paid /\ Credited' = Credited /\ contested' = contested
    BY <1>3, ForeignRecorded DEF ForeignWriter, Paid, Credited, history
  <2>2. Promise!Foreign(d)
    BY <1>3, <2>1 DEF ForeignWriter, Promise!Foreign, Paid, Credited
  <2>3. QED
    BY <2>2 DEF Promise!Next
<1>4. ASSUME NEW r \in Requests, NEW o \in Orders, Verify(r, o) PROVE Promised
  <2>1. Paid' = Paid /\ Credited' = Credited /\ live' = live
    BY <1>4, LedgerUnchanged DEF Verify, Paid, Credited, billingVars
  <2>2. CASE contested' = contested
    BY <2>1, <2>2
  <2>3. CASE contested' = contested \cup {o} /\ o \in Paid \ contested
    <3>1. Promise!Contest(o)
      BY <2>1, <2>3 DEF Promise!Contest, Paid, Credited
    <3>2. QED
      BY <3>1 DEF Promise!Next
  <2>4. QED
    BY <1>4, <2>2, <2>3, ContestSteps
<1>5. CASE UNCHANGED <<checkout, live, ledger, contested>>
  BY <1>5, LedgerUnchanged DEF Paid, Credited
<1>6. QED
  BY <1>1, <1>2, <1>3, <1>4, <1>5, LedgerSteps, CheckoutSteps, ProgressSteps
     DEF RecordApply, ForeignWriter, Pay, billingVars

(* The order route, the verify route and its accidents implement "each     *)
(* captured payment is added to the live wallet once, and nothing else is",*)
(* with the one exception PaidOnce names: contested orders.                *)
THEOREM PurchaseImplementsPaidOnce == Spec => ImplementsPaidOnce
<1>1. Init => Promise!Init
  BY DEF Init, Promise!Init, Recorded
<1>2. TypeInv /\ PaidInv /\ OnceInv /\ [Next]_vars => [Promise!Next]_Promise!vars
  BY PromiseStep DEF Promise!vars, Paid, Credited
<1>3. QED
  BY <1>1, <1>2, TypeInvariant, PaidCorrect, OnceCorrect, PTL
     DEF Spec, ImplementsPaidOnce, Promise!Spec

-----------------------------------------------------------------------------
(* Extra grants in Redis are accounted for *)

(* The order can never be loaded again. *)
Consumed(o) ==
  /\ o \notin staged
  /\ ~Unconsumed(o)
  /\ \A r \in Requests : target[r] = o => pc[r] \notin {"grantRead", "grantWrite"}

(* A request that granted the order is still going to consume it. *)
Consumes(r, o) ==
  /\ target[r] = o /\ HasGranted(r)
  /\ pc[r] = "clear" => ~Unconsumed(o)

RegrantOf(o) ==
  /\ redisGrants[o] <= 1 + blemishes[o]
  /\ redisGrants[o] = 1 + blemishes[o] =>
       Consumed(o) \/ \E r \in Requests : Consumes(r, o)

(* An order with one grant more than blemishes has been consumed, or the   *)
(* request that granted it will consume it or become a blemish.            *)
RegrantInv == \A o \in Orders \ contested : RegrantOf(o)

(* A step that grants nothing keeps an order consumed or being consumed.   *)
Keeps(o) ==
  /\ redisGrants'[o] = redisGrants[o] /\ blemishes'[o] = blemishes[o]
  /\ Consumed(o) => Consumed(o)'
  /\ \A r \in Requests : Consumes(r, o) => Consumes(r, o)' \/ Consumed(o)'

LEMMA KeepsRegrant ==
  ASSUME NEW o \in Orders, RegrantOf(o), Keeps(o)
  PROVE  RegrantOf(o)'
BY DEF RegrantOf, Keeps

LEMMA KeepsAll ==
  ASSUME RegrantInv, contested \subseteq contested', \A o \in Orders \ contested : Keeps(o)
  PROVE  RegrantInv'
BY KeepsRegrant DEF RegrantInv

(* A request moves on without granting, marking or clearing anything.      *)
LEMMA MoveKeeps ==
  ASSUME TypeInv, NEW r \in Requests, NEW s \in Steps \cup Resting,
         pc' = [pc EXCEPT ![r] = s],
         UNCHANGED <<target, granted, redisGrants, blemishes, staged, payment>>,
         HasGranted(r) => s \in Steps,
         s # "clear",
         s \in {"grantRead", "grantWrite"} =>
           \/ pc[r] \in {"grantRead", "grantWrite"}
           \/ target[r] \in staged
           \/ Unconsumed(target[r])
  PROVE  \A o \in Orders : Keeps(o)
<1> SUFFICES ASSUME NEW o \in Orders PROVE Keeps(o)
  OBVIOUS
<1>0. pc \in [Requests -> Resting \cup Steps]
  BY DEF TypeInv, TypeOK
<1>1. ASSUME Consumed(o) PROVE Consumed(o)'
  BY <1>0, <1>1 DEF Consumed, Unconsumed
<1>2. ASSUME NEW q \in Requests, Consumes(q, o) PROVE Consumes(q, o)'
  BY <1>0, <1>2 DEF Consumes, HasGranted, InProgress, Unconsumed
<1>3. QED
  BY <1>1, <1>2 DEF Keeps

(* A step that leaves the requests alone and offers no consumed order.     *)
LEMMA AloneKeeps ==
  ASSUME UNCHANGED <<pc, target, granted, redisGrants, blemishes>>,
         NEW o \in Orders,
         o \in staged' => o \in staged,
         Unconsumed(o)' => Unconsumed(o)
  PROVE  Keeps(o)
BY DEF Keeps, Consumed, Consumes, HasGranted, InProgress

(* An order not yet offered has not been granted.                          *)
LEMMA UnofferedRegrant ==
  ASSUME TypeInv, PaidInv, NEW o \in Orders, phase[o] # "offered",
         UNCHANGED <<redisGrants, blemishes>>
  PROVE  RegrantOf(o)'
<1>1. redisGrants[o] = 0 /\ blemishes[o] \in Nat
  BY DEF PaidInv, RouteInv, TypeInv, TypeOK
<1>2. QED
  BY <1>1 DEF RegrantOf

LEMMA GrantRegrant ==
  ASSUME TypeInv, PaidInv, Exclusive, RegrantInv, NEW r \in Requests, GrantWrite(r)
  PROVE  RegrantInv'
<1> DEFINE t == target[r]
<1>0. contested' = contested
  BY DEF GrantWrite
<1>1. /\ t \in Orders /\ pc[r] = "grantWrite" /\ InProgress(r)
      /\ redisGrants' = [redisGrants EXCEPT ![t] = @ + 1]
      /\ granted' = [granted EXCEPT ![r] = TRUE]
      /\ pc' = [pc EXCEPT ![r] = "updateRead"]
      /\ UNCHANGED <<staged, payment, target, blemishes>>
  BY DEF GrantWrite, TypeInv, TargetOK, InProgress, Steps, Goto, routeVars, billingVars
<1>2. /\ pc \in [Requests -> Resting \cup Steps] /\ granted \in [Requests -> BOOLEAN]
      /\ redisGrants \in [Orders -> Nat] /\ blemishes \in [Orders -> Nat]
  BY DEF TypeInv, TypeOK
<1>3. ~granted[r]
  BY <1>1 DEF PaidInv, RequestInv
<1>4. ~Consumed(t)
  BY <1>1 DEF Consumed
<1>5. ASSUME NEW q \in Requests, t \notin contested PROVE ~Consumes(q, t)
  BY <1>1, <1>3, <1>5 DEF Consumes, HasGranted, Exclusive
<1>6. t \notin contested => redisGrants[t] <= blemishes[t]
  BY <1>1, <1>2, <1>4, <1>5 DEF RegrantInv, RegrantOf
<1>7. Consumes(r, t)'
  BY <1>1, <1>2 DEF Consumes, HasGranted, InProgress, Steps
<1>8. t \notin contested => RegrantOf(t)'
  BY <1>1, <1>2, <1>6, <1>7 DEF RegrantOf
<1>9. ASSUME NEW o \in Orders \ contested, o # t PROVE RegrantOf(o)'
  <2>1. Consumed(o) => Consumed(o)'
    BY <1>1, <1>2, <1>9 DEF Consumed, Unconsumed
  <2>2. ASSUME NEW q \in Requests, Consumes(q, o) PROVE Consumes(q, o)'
    BY <1>1, <1>2, <1>9, <2>2 DEF Consumes, HasGranted, InProgress, Unconsumed
  <2>3. Keeps(o)
    BY <1>1, <1>2, <1>9, <2>1, <2>2 DEF Keeps
  <2>4. QED
    BY <2>3, <1>9, KeepsRegrant DEF RegrantInv
<1>10. QED
  BY <1>0, <1>1, <1>8, <1>9 DEF RegrantInv

LEMMA MarkRegrant ==
  ASSUME TypeInv, PaidInv, RegrantInv, NEW r \in Requests, MarkSuccess(r)
  PROVE  RegrantInv'
<1> SUFFICES ASSUME NEW o \in Orders PROVE Keeps(o)
  BY KeepsAll DEF MarkSuccess, history
<1>1. /\ pc[r] = "mark"
      /\ pc' = [pc EXCEPT ![r] = "clear"]
      /\ payment' = IF PaymentsInDb /\ Unconsumed(target[r])
                    THEN [payment EXCEPT ![target[r]] = "SUCCESS"] ELSE payment
      /\ UNCHANGED <<staged, target, granted, redisGrants, blemishes>>
  BY DEF MarkSuccess, Goto, routeVars, history
<1>2. /\ pc \in [Requests -> Resting \cup Steps]
      /\ payment \in [Orders -> {"absent", "PAYMENT_PENDING", "SUCCESS"}]
      /\ target[r] \in Orders
  BY <1>1 DEF TypeInv, TypeOK, TargetOK, InProgress, Steps
<1>3. Unconsumed(o)' => Unconsumed(o)
  BY <1>1, <1>2 DEF Unconsumed
<1>4. ~Unconsumed(target[r])'
  BY <1>1, <1>2 DEF Unconsumed, PaidInv, RouteInv
<1>5. Consumed(o) => Consumed(o)'
  BY <1>1, <1>2, <1>3 DEF Consumed
<1>6. ASSUME NEW q \in Requests, Consumes(q, o) PROVE Consumes(q, o)'
  BY <1>1, <1>2, <1>3, <1>4, <1>6 DEF Consumes, HasGranted, InProgress, Steps
<1>7. QED
  BY <1>1, <1>5, <1>6 DEF Keeps

(* A request that granted and did not clear its order is a blemish.        *)
LEMMA BlemishRegrant ==
  ASSUME TypeInv, PaidInv, RegrantInv, NEW r \in Requests, MarkFails(r) \/ Crash(r)
  PROVE  RegrantInv'
<1> DEFINE t == target[r]
<1>1. PICK s \in {"clear", "crashed"} : pc' = [pc EXCEPT ![r] = s]
  BY DEF MarkFails, Crash, Goto
<1>2. /\ t \in Orders
      /\ Blemish(r)
      /\ UNCHANGED <<staged, payment, target, granted, redisGrants>>
  BY DEF MarkFails, Crash, TypeInv, TargetOK, InProgress, Steps, routeVars, billingVars
<1>3. /\ pc \in [Requests -> Resting \cup Steps] /\ granted \in [Requests -> BOOLEAN]
      /\ redisGrants \in [Orders -> Nat] /\ blemishes \in [Orders -> Nat]
  BY DEF TypeInv, TypeOK
<1>4. ASSUME NEW o \in Orders \ contested, granted[r], o = t PROVE RegrantOf(o)'
  BY <1>2, <1>3, <1>4 DEF Blemish, RegrantInv, RegrantOf
<1>5. ASSUME NEW o \in Orders \ contested, ~(granted[r] /\ o = t) PROVE RegrantOf(o)'
  <2>1. blemishes'[o] = blemishes[o]
    BY <1>2, <1>3, <1>5 DEF Blemish
  <2>2. Consumed(o) => Consumed(o)'
    BY <1>1, <1>2, <1>3 DEF Consumed, Unconsumed
  <2>3. ASSUME NEW q \in Requests, Consumes(q, o) PROVE Consumes(q, o)'
    <3>1. q # r
      BY <1>5, <2>3 DEF Consumes, HasGranted
    <3>2. QED
      BY <1>1, <1>2, <1>3, <2>3, <3>1 DEF Consumes, HasGranted, InProgress, Unconsumed
  <2>4. Keeps(o)
    BY <1>2, <2>1, <2>2, <2>3 DEF Keeps
  <2>5. QED
    BY <2>4, <1>5, KeepsRegrant DEF RegrantInv
<1>6. contested' = contested
  BY DEF MarkFails, Crash
<1>7. QED
  BY <1>4, <1>5, <1>6 DEF RegrantInv

LEMMA ClearRegrant ==
  ASSUME TypeInv, Exclusive, RegrantInv, NEW r \in Requests, ClearOrder(r)
  PROVE  RegrantInv'
<1> SUFFICES ASSUME NEW o \in Orders \ contested PROVE Keeps(o)
  BY KeepsAll DEF ClearOrder, history
<1>1. /\ pc[r] = "clear" /\ InProgress(r)
      /\ pc' = [pc EXCEPT ![r] = "ok"]
      /\ staged' = staged \ {target[r]}
      /\ UNCHANGED <<payment, target, granted, redisGrants, blemishes>>
  BY DEF ClearOrder, Goto, InProgress, Steps, billingVars, history
<1>2. pc \in [Requests -> Resting \cup Steps]
  BY DEF TypeInv, TypeOK
<1>3. Consumed(o) => Consumed(o)'
  BY <1>1, <1>2 DEF Consumed, Unconsumed
<1>4. ASSUME NEW q \in Requests, Consumes(q, o) PROVE Consumes(q, o)' \/ Consumed(o)'
  <2>1. CASE q = r
    <3>1. ~Unconsumed(o)' /\ o \notin staged'
      BY <1>1, <1>4, <2>1 DEF Consumes, Unconsumed
    <3>2. ASSUME NEW p \in Requests, target[p] = o, p # r PROVE ~InProgress(p)
      BY <1>1, <1>4, <2>1, <3>2 DEF Exclusive, Consumes
    <3>3. \A p \in Requests : target'[p] = o => pc'[p] \notin {"grantRead", "grantWrite"}
      BY <1>1, <1>2, <3>2 DEF InProgress, Steps
    <3>4. QED
      BY <3>1, <3>3 DEF Consumed
  <2>2. CASE q # r
    BY <1>1, <1>2, <1>4, <2>2 DEF Consumes, HasGranted, InProgress, Unconsumed
  <2>3. QED
    BY <2>1, <2>2
<1>5. QED
  BY <1>1, <1>3, <1>4 DEF Keeps

LEMMA RegrantStep ==
  ASSUME TypeInv, PaidInv, Exclusive, RegrantInv, [Next]_vars
  PROVE  RegrantInv'
<1> USE DEF routeVars, billingVars, requestVars, history
<1>0. contested \subseteq contested'
  BY ContestedGrows
<1>1. ASSUME NEW o \in Orders, OrderRoute(o) PROVE RegrantInv'
  <2>1. UNCHANGED <<pc, target, granted, redisGrants, blemishes>>
    BY <1>1 DEF OrderRoute, CreateOrder, StageOrder, PersistOrder, PersistOrderFails
  <2>2. /\ phase[o] # "offered"
        /\ \A x \in Orders : x # o => /\ x \in staged' => x \in staged
                                      /\ payment'[x] = payment[x]
    BY <1>1 DEF OrderRoute, CreateOrder, StageOrder, PersistOrder, PersistOrderFails,
                TypeInv, TypeOK
  <2>3. RegrantOf(o)'
    BY <2>1, <2>2, UnofferedRegrant
  <2>4. ASSUME NEW x \in Orders \ contested, x # o PROVE RegrantOf(x)'
    <3>1. Keeps(x)
      BY <2>1, <2>2, <2>4, AloneKeeps DEF Unconsumed
    <3>2. QED
      BY <3>1, <2>4, KeepsRegrant DEF RegrantInv
  <2>5. QED
    BY <1>0, <2>3, <2>4 DEF RegrantInv
<1>2. CASE Environment \/ UNCHANGED vars
  <2>1. /\ UNCHANGED <<pc, target, granted, redisGrants, blemishes, payment>>
        /\ \A x \in Orders : x \in staged' => x \in staged
    BY <1>2 DEF Environment, Pay, LoseOrder, LoseRecord, Register, ForeignWriter, vars
  <2>2. \A x \in Orders : Keeps(x)
    BY <2>1, AloneKeeps DEF Unconsumed
  <2>3. QED
    BY <1>0, <2>2, KeepsAll
<1>3. ASSUME NEW r \in Requests, VerifyRoute(r) PROVE RegrantInv'
  <2>1. ASSUME NEW o \in Orders, Verify(r, o) PROVE RegrantInv'
    <3>1. PICK s \in {"load", "rejected"} : pc' = [pc EXCEPT ![r] = s]
      BY <2>1 DEF Verify, Goto
    <3>2. /\ target' = [target EXCEPT ![r] = o] /\ ~granted[r]
          /\ UNCHANGED <<staged, payment, granted, redisGrants, blemishes>>
      BY <2>1 DEF Verify, PaidInv, RequestInv
    <3>3. pc \in [Requests -> Resting \cup Steps] /\ target \in [Requests -> Orders \cup {NoOrder}]
      BY DEF TypeInv, TypeOK
    <3>4. ASSUME NEW x \in Orders PROVE Keeps(x)
      <4>1. Consumed(x) => Consumed(x)'
        BY <3>1, <3>2, <3>3 DEF Consumed, Unconsumed
      <4>2. ASSUME NEW q \in Requests, Consumes(q, x) PROVE Consumes(q, x)'
        BY <3>1, <3>2, <3>3, <4>2 DEF Consumes, HasGranted, InProgress, Unconsumed
      <4>3. QED
        BY <3>2, <4>1, <4>2 DEF Keeps
    <3>5. QED
      BY <1>0, <3>4, KeepsAll
  <2>2. CASE LoadPending(r) \/ LoadFromDb(r) \/ LoadFromDbFails(r) \/ GrantRead(r)
    <3>1. /\ UNCHANGED <<target, granted, redisGrants, blemishes, staged, payment>>
          /\ ~granted[r]
      BY <2>2 DEF LoadPending, LoadFromDb, LoadFromDbFails, GrantRead, PaidInv, RequestInv
    <3>2. PICK s \in {"grantRead", "grantWrite", "loadDb", "unknown", "updateRead"} :
               /\ pc' = [pc EXCEPT ![r] = s]
               /\ s \in {"grantRead", "grantWrite"} =>
                    \/ pc[r] \in {"grantRead", "grantWrite"}
                    \/ target[r] \in staged
                    \/ Unconsumed(target[r])
      BY <2>2 DEF LoadPending, LoadFromDb, LoadFromDbFails, GrantRead, Goto
    <3>3. s \in Steps \cup Resting /\ s # "clear"
      BY <3>2 DEF Steps, Resting
    <3>4. \A o \in Orders : Keeps(o)
      BY <3>1, <3>2, <3>3, MoveKeeps DEF HasGranted
    <3>5. QED
      BY <1>0, <3>4, KeepsAll
  <2>3. CASE \/ UpdateRead(r) \/ UpdateWrite(r) \/ RecordCheck(r)
             \/ RecordApply(r) \/ RecordFails(r)
    <3>1. UNCHANGED <<target, granted, redisGrants, blemishes, staged, payment>>
      BY <2>3 DEF UpdateRead, UpdateWrite, RecordCheck, RecordApply, RecordFails
    <3>2. PICK s \in {"updateWrite", "record", "recordApply", "mark"} : pc' = [pc EXCEPT ![r] = s]
      BY <2>3 DEF UpdateRead, UpdateWrite, RecordCheck, RecordApply, RecordFails, Goto
    <3>3. s \in Steps /\ s \notin {"clear", "grantRead", "grantWrite"}
      BY <3>2 DEF Steps
    <3>4. \A o \in Orders : Keeps(o)
      BY <3>1, <3>2, <3>3, MoveKeeps
    <3>5. QED
      BY <1>0, <3>4, KeepsAll
  <2>4. QED
    BY <1>3, <2>1, <2>2, <2>3, GrantRegrant, MarkRegrant, BlemishRegrant, ClearRegrant
       DEF VerifyRoute
<1>4. QED
  BY <1>1, <1>2, <1>3 DEF Next

(* Each extra grant of an order in Redis is paid for by a request that had *)
(* granted it and then crashed or failed to mark the payment               *)
(* (_mark_payment_success, clear_payment_order), however often the client  *)
(* retries, unless two of its requests were in progress at once.           *)
THEOREM RegrantsAccounted == Spec => []RegrantsAreBlemishes
<1>1. Init => RegrantInv
  <2> SUFFICES ASSUME Init, NEW o \in Orders PROVE RegrantOf(o)
    BY DEF RegrantInv
  <2>1. redisGrants[o] = 0 /\ blemishes[o] = 0
    BY DEF Init
  <2>2. QED
    BY <2>1, SMT DEF RegrantOf
<1>2. TypeInv /\ PaidInv /\ OnceInv /\ RegrantInv /\ [Next]_vars => RegrantInv'
  BY RegrantStep DEF OnceInv
<1>3. RegrantInv => RegrantsAreBlemishes
  BY DEF RegrantInv, RegrantOf, RegrantsAreBlemishes
<1>4. QED
  BY <1>1, <1>2, <1>3, TypeInvariant, PaidCorrect, OnceCorrect, PTL DEF Spec

-----------------------------------------------------------------------------
(* What the mirror in Redis holds                                          *)

Updating(r) == pc[r] \in {"grantWrite", "updateWrite"}

(* While no two updates met and no record was lost, one request at a time  *)
(* is between its read and its write, and what it read is what is there.   *)
MirrorInv ==
  (~collided /\ faults["recordLost"] = 0) =>
    /\ employer # NoRecord /\ employer.credits = WelcomeCredits + redisTotal
    /\ \A q, r \in Requests : Updating(q) /\ Updating(r) => q = r
    /\ \A r \in Requests : Updating(r) => snap[r] = employer

(* A step that writes no record and puts no request between its read and   *)
(* its write.                                                              *)
LEMMA MirrorKept ==
  ASSUME MirrorInv, UNCHANGED <<employer, redisTotal>>, collided' = collided,
         faults'["recordLost"] = faults["recordLost"],
         \A q \in Requests : Updating(q)' => Updating(q) /\ snap'[q] = snap[q]
  PROVE  MirrorInv'
BY DEF MirrorInv

LEMMA OtherFault ==
  ASSUME TypeOK, NEW k \in FaultKinds \ {"recordLost"}, Fault(k)
  PROVE  faults'["recordLost"] = faults["recordLost"]
BY DEF Fault, TypeOK

(* get_employer of grant_credits and of update_employer.                   *)
LEMMA ReadMirror ==
  ASSUME TypeInv, MirrorInv, NEW r \in Requests, GrantRead(r) \/ UpdateRead(r)
  PROVE  MirrorInv'
<1>1. /\ pc \in [Requests -> Resting \cup Steps]
      /\ snap \in [Requests -> EmployerRecord \cup {NoRecord}]
  BY DEF TypeInv, TypeOK
<1>2. /\ UNCHANGED <<employer, redisTotal, faults>> /\ snap' = [snap EXCEPT ![r] = employer]
      /\ collided' = (collided \/ (employer # NoRecord /\ OthersInUpdate(r)))
  BY DEF GrantRead, UpdateRead
<1>3. \A q \in Requests \ {r} : (Updating(q)' <=> Updating(q)) /\ snap'[q] = snap[q]
  BY <1>1, <1>2 DEF GrantRead, UpdateRead, Goto, Updating
<1>4. snap'[r] = employer
  BY <1>1, <1>2
<1> SUFFICES ASSUME ~collided', faults["recordLost"] = 0
             PROVE  /\ employer # NoRecord /\ employer.credits = WelcomeCredits + redisTotal
                    /\ \A q, s \in Requests : Updating(q)' /\ Updating(s)' => q = s
                    /\ \A q \in Requests : Updating(q)' => snap'[q] = employer
  BY <1>2 DEF MirrorInv
<1>5. /\ employer # NoRecord /\ employer.credits = WelcomeCredits + redisTotal
      /\ \A q \in Requests : Updating(q) => snap[q] = employer
  BY <1>2 DEF MirrorInv
<1>6. \A q \in Requests \ {r} : ~Updating(q)
  BY <1>2, <1>5 DEF OthersInUpdate, Updating
<1>7. QED
  BY <1>3, <1>4, <1>5, <1>6

(* save_employer of grant_credits and of update_employer.                  *)
LEMMA WriteMirror ==
  ASSUME TypeInv, MirrorInv, NEW r \in Requests, GrantWrite(r) \/ UpdateWrite(r)
  PROVE  MirrorInv'
<1>1. /\ pc \in [Requests -> Resting \cup Steps] /\ Updating(r) /\ target[r] \in Orders
      /\ snap[r] \in EmployerRecord /\ redisTotal \in Nat
  BY DEF TypeInv, TypeOK, SnapOK, TargetOK, InProgress, GrantWrite, UpdateWrite, Updating
<1>2. collided' = collided /\ faults' = faults
  BY DEF GrantWrite, UpdateWrite, history
<1>3. ~Updating(r)' /\ \A q \in Requests \ {r} : Updating(q)' <=> Updating(q)
  BY <1>1 DEF GrantWrite, UpdateWrite, Goto, Updating
<1>4. employer' # NoRecord /\ employer'.credits = snap[r].credits + (redisTotal' - redisTotal)
  <2>1. CASE GrantWrite(r)
    <3>1. /\ employer' = [snap[r] EXCEPT !.credits = snap[r].credits + Grant[target[r]]]
          /\ redisTotal' = redisTotal + Grant[target[r]]
      BY <2>1 DEF GrantWrite
    <3>2. Grant[target[r]] \in Nat /\ snap[r].credits \in Nat
      BY <1>1, GrantAssumption DEF EmployerRecord
    <3>3. employer' \in EmployerRecord /\ employer'.credits = snap[r].credits + Grant[target[r]]
      BY <1>1, <3>1, <3>2 DEF EmployerRecord
    <3>4. QED
      BY <1>1, <3>1, <3>2, <3>3, NoRecordAssumption
  <2>2. CASE UpdateWrite(r)
    <3>1. employer' = [snap[r] EXCEPT !.lastPurchase = target[r]] /\ redisTotal' = redisTotal
      BY <2>2 DEF UpdateWrite, history
    <3>2. employer' \in EmployerRecord /\ employer'.credits = snap[r].credits
          /\ snap[r].credits \in Nat
      BY <1>1, <3>1 DEF EmployerRecord
    <3>3. QED
      BY <1>1, <3>1, <3>2, NoRecordAssumption
  <2>3. QED
    BY <2>1, <2>2
<1>5. redisTotal' \in Nat
  <2>1. Grant[target[r]] \in Nat
    BY <1>1, GrantAssumption
  <2>2. QED
    BY <1>1, <2>1 DEF GrantWrite, UpdateWrite, history
<1> SUFFICES ASSUME ~collided, faults["recordLost"] = 0
             PROVE  /\ employer'.credits = WelcomeCredits + redisTotal'
                    /\ \A q \in Requests : ~Updating(q)'
  BY <1>2, <1>4 DEF MirrorInv
<1>6. /\ snap[r].credits = WelcomeCredits + redisTotal
      /\ \A q \in Requests \ {r} : ~Updating(q)
  BY <1>1 DEF MirrorInv
<1>7. QED
  BY <1>1, <1>3, <1>4, <1>5, <1>6, WelcomeAssumption

LEMMA MirrorStep ==
  ASSUME TypeInv, MirrorInv, [Next]_vars
  PROVE  MirrorInv'
<1> USE DEF routeVars, billingVars, requestVars, history
<1>0. TypeOK /\ pc \in [Requests -> Resting \cup Steps]
      /\ snap \in [Requests -> EmployerRecord \cup {NoRecord}]
  BY DEF TypeInv, TypeOK
<1>1. ASSUME NEW o \in Orders, OrderRoute(o) PROVE MirrorInv'
  <2>1. UNCHANGED <<employer, requestVars, redisTotal, collided>>
    BY <1>1 DEF OrderRoute, CreateOrder, StageOrder, PersistOrder, PersistOrderFails
  <2>2. faults'["recordLost"] = faults["recordLost"]
    BY <1>0, <1>1, OtherFault DEF OrderRoute, CreateOrder, StageOrder, PersistOrder, PersistOrderFails
  <2>3. QED
    BY <2>1, <2>2, MirrorKept DEF Updating
<1>2. CASE Environment
  <2>1. UNCHANGED <<requestVars, redisTotal, collided>>
    BY <1>2 DEF Environment, Pay, LoseOrder, LoseRecord, Register, ForeignWriter
  <2>2. CASE LoseRecord
    <3>1. faults'["recordLost"] # 0
      BY <1>0, <2>2 DEF LoseRecord, Fault, TypeOK
    <3>2. QED
      BY <3>1 DEF MirrorInv
  <2>3. CASE Register
    <3>1. employer = NoRecord /\ faults' = faults
      BY <2>3 DEF Register
    <3>2. QED
      BY <2>1, <3>1 DEF MirrorInv
  <2>4. ASSUME NEW o \in Orders, Pay(o) \/ LoseOrder(o) PROVE MirrorInv'
    <3>1. faults'["recordLost"] = faults["recordLost"] /\ employer' = employer
      BY <1>0, <2>4, OtherFault DEF Pay, LoseOrder
    <3>2. QED
      BY <2>1, <3>1, MirrorKept DEF Updating
  <2>5. ASSUME NEW d \in {-1, 1}, ForeignWriter(d) PROVE MirrorInv'
    <3>1. faults'["recordLost"] = faults["recordLost"] /\ employer' = employer
      BY <1>0, <2>5, OtherFault DEF ForeignWriter
    <3>2. QED
      BY <2>1, <3>1, MirrorKept DEF Updating
  <2>6. QED
    BY <1>2, <2>2, <2>3, <2>4, <2>5 DEF Environment
<1>3. ASSUME NEW r \in Requests, VerifyRoute(r) PROVE MirrorInv'
  <2>1. ASSUME NEW s \in (Resting \cup Steps) \ {"grantWrite", "updateWrite"}, Goto(r, s),
               UNCHANGED <<employer, redisTotal, collided>>,
               faults'["recordLost"] = faults["recordLost"],
               \A q \in Requests \ {r} : snap'[q] = snap[q]
        PROVE  MirrorInv'
    <3>1. \A q \in Requests : Updating(q)' => q # r /\ Updating(q)
      BY <1>0, <2>1 DEF Goto, Updating
    <3>2. QED
      BY <2>1, <3>1, MirrorKept
  <2>2. ASSUME NEW o \in Orders, Verify(r, o) PROVE MirrorInv'
    BY <2>1, <2>2 DEF Verify
  <2>3. CASE LoadPending(r)
    <3>1. PICK s \in {"grantRead", "loadDb", "unknown"} : Goto(r, s)
      BY <2>3 DEF LoadPending
    <3>2. QED
      BY <2>1, <2>3, <3>1 DEF LoadPending
  <2>4. CASE LoadFromDb(r)
    BY <2>1, <2>4 DEF LoadFromDb
  <2>5. CASE LoadFromDbFails(r)
    BY <1>0, <2>1, <2>5, OtherFault DEF LoadFromDbFails
  <2>6. CASE RecordCheck(r)
    BY <2>1, <2>6 DEF RecordCheck
  <2>7. CASE RecordApply(r)
    BY <2>1, <2>7 DEF RecordApply
  <2>8. CASE RecordFails(r)
    BY <1>0, <2>1, <2>8, OtherFault DEF RecordFails
  <2>9. CASE MarkSuccess(r)
    BY <2>1, <2>9 DEF MarkSuccess
  <2>10. CASE MarkFails(r)
    BY <1>0, <2>1, <2>10, OtherFault DEF MarkFails
  <2>11. CASE ClearOrder(r)
    BY <2>1, <2>11 DEF ClearOrder
  <2>12. CASE Crash(r)
    <3>1. faults'["recordLost"] = faults["recordLost"] /\ UNCHANGED <<employer, redisTotal, collided>>
      BY <1>0, <2>12, OtherFault DEF Crash
    <3>2. \A q \in Requests \ {r} : snap'[q] = snap[q]
      BY <1>0, <2>12 DEF Crash
    <3>3. QED
      BY <2>1, <2>12, <3>1, <3>2 DEF Crash
  <2>13. QED
    BY <1>3, <2>2, <2>3, <2>4, <2>5, <2>6, <2>7, <2>8, <2>9, <2>10, <2>11, <2>12,
       ReadMirror, WriteMirror DEF VerifyRoute
<1>4. CASE UNCHANGED vars
  BY <1>4, MirrorKept DEF vars, Updating
<1>5. QED
  BY <1>1, <1>2, <1>3, <1>4 DEF Next

(* A grant disappears from the record in Redis in two ways only: the       *)
(* record is lost, or two read-modify-writes of it meet (grant_credits,    *)
(* update_employer). Any number of orders and requests may be in progress. *)
THEOREM MirrorIsConserved == Spec => []MirrorConserved
<1>1. Init => MirrorInv
  <2> SUFFICES ASSUME Init PROVE MirrorInv
    OBVIOUS
  <2>1. employer \in EmployerRecord /\ employer.credits = WelcomeCredits /\ redisTotal = 0
    BY WelcomeAssumption DEF Init, EmployerRecord
  <2>2. \A r \in Requests : ~Updating(r)
    BY DEF Init, Updating
  <2>3. QED
    BY <2>1, <2>2, NoRecordAssumption, WelcomeAssumption DEF MirrorInv
<1>2. MirrorInv => MirrorConserved
  BY DEF MirrorInv, MirrorConserved
<1>3. QED
  BY <1>1, <1>2, MirrorStep, TypeInvariant, PTL DEF Spec

(* Both balances are what was added to them, however requests overlap.     *)
THEOREM WalletsAreSound == Spec => []WalletsSound
BY LedgerAlwaysReplays, MirrorIsConserved, PTL DEF WalletsSound
=============================================================================
