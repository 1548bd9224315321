--------------------------- MODULE JobPostingProofs ---------------------------
(***************************************************************************)
(* Proofs about JobPosting, for every set of forms, links, orders and      *)
(* requests, every plan and wallet, and every number of faults.            *)
(***************************************************************************)
EXTENDS JobPosting, FiniteSetTheorems, TLAPS

USE DEF FaultKinds

Finalizing == {"cover", "debit", "list", "last", "clearDraft", "bill", "billApply"}
Working    == {"plan", "balance"} \cup Finalizing
Ordering   == {"load", "credit", "purchase", "purchaseApply", "clearOrder"}
Quoting    == {"idle", "plan", "balance", "sufficient", "offered", "crashed"}

(* What a route knows where it is: the link it serves, the draft it has    *)
(* read under that link, and the paid order it verifies.                   *)
PlaceInv(a) ==
  /\ pc[a] # "idle" => token[a] \in Tokens
  /\ pc[a] \in Working => job[a] \in submitted /\ Link[job[a]] = token[a]
  /\ pc[a] \in Ordering => order[a] # NoOrder
  /\ order[a] # NoOrder => /\ order[a] \in paid /\ token[a] = token[order[a]]
                           /\ pc[a] \notin {"idle", "plan", "balance"}
  /\ a \in Orders => pc[a] \in Quoting /\ order[a] = NoOrder
  /\ a \in paid => pc[a] = "offered"

DraftInv == \A t \in Tokens : draft[t] # NoJob => draft[t] \in submitted /\ Link[draft[t]] = t

TypeInv == TypeOK /\ DraftInv /\ \A a \in Actors : PlaceInv(a)

LEMMA FaultType ==
  ASSUME TypeOK, NEW k \in FaultKinds, Fault(k)
  PROVE  /\ faults' \in [FaultKinds -> Nat]
         /\ faults'[k] = faults[k] + 1
         /\ \A x \in FaultKinds \ {k} : faults'[x] = faults[x]
BY DEF Fault, TypeOK

LEMMA GotoType ==
  ASSUME TypeOK, NEW a \in Actors, NEW s \in Steps \cup Resting, Goto(a, s)
  PROVE  /\ pc' \in [Actors -> Steps \cup Resting]
         /\ pc'[a] = s
         /\ \A b \in Actors \ {a} : pc'[b] = pc[b]
BY DEF Goto, TypeOK

LEMMA Places ==
  /\ Steps \cup Resting =
       {"plan", "balance", "load", "purchase", "purchaseApply", "finalize", "cover", "clearDraft",
        "bill", "billApply", "clearOrder", "credit", "debit", "list", "last", "idle", "refused",
        "offered", "sufficient", "unknown", "done", "crashed"}
  /\ Steps = {"plan", "balance", "load", "purchase", "purchaseApply", "finalize", "cover",
              "clearDraft", "bill", "billApply", "clearOrder", "credit", "debit", "list", "last"}
BY DEF Steps, Resting, Updates

(* A route's step that keeps its link, its draft and its order.            *)
LEMMA Moves ==
  ASSUME TypeInv, NEW a \in Actors, NEW s \in Steps \cup Resting, Goto(a, s),
         UNCHANGED <<submitted, draft, paid, token, order, job>>,
         pc[a] \notin {"idle", "offered"}, s # "idle",
         s \in Working => pc[a] \in Working,
         s \in Ordering => order[a] # NoOrder,
         a \in Orders => s \in Quoting,
         s \in {"plan", "balance"} => order[a] = NoOrder
  PROVE  DraftInv' /\ (\A b \in Actors : PlaceInv(b)') /\ pc' \in [Actors -> Steps \cup Resting]
<1>1. /\ pc' \in [Actors -> Steps \cup Resting] /\ pc'[a] = s
      /\ \A b \in Actors \ {a} : pc'[b] = pc[b]
  BY GotoType DEF TypeInv
<1>2. DraftInv'
  BY DEF TypeInv, DraftInv
<1>3. PlaceInv(a) /\ \A b \in Actors : PlaceInv(b)
  BY DEF TypeInv
<1>4. PlaceInv(a)'
  BY <1>1, <1>3 DEF PlaceInv
<1>5. ASSUME NEW b \in Actors, b # a PROVE PlaceInv(b)'
  BY <1>1, <1>3, <1>5 DEF PlaceInv
<1>6. QED
  BY <1>1, <1>2, <1>4, <1>5

LEMMA TypeInit == Init => TypeInv
<1> SUFFICES ASSUME Init PROVE TypeInv
  OBVIOUS
<1>1. employer \in EmployerRecord /\ ledger \in Seq(LedgerRow)
  BY CountsAssumption DEF Init, EmployerRecord
<1>2. TypeOK
  BY <1>1, CountsAssumption DEF Init, TypeOK, Steps, Resting
<1>3. DraftInv
  BY DEF Init, DraftInv
<1>4. \A a \in Actors : PlaceInv(a)
  BY DEF Init, PlaceInv, Working, Finalizing, Ordering, Quoting
<1>5. QED
  BY <1>2, <1>3, <1>4 DEF TypeInv

(* What add_employer_job, update_employer and grant_credits write back.    *)
LEMMA EditType ==
  ASSUME TypeInv, NEW a \in Requests, pc[a] \in Updates, NEW rec \in EmployerRecord
  PROVE  /\ Edit(a, rec) \in EmployerRecord
         /\ pc[a] # "list" => Edit(a, rec).listed = rec.listed
         /\ pc[a] = "list" => /\ job[a] \in Jobs
                              /\ Edit(a, rec).listed[job[a]] = rec.listed[job[a]] + 1
                              /\ \A j \in Jobs \ {job[a]} : Edit(a, rec).listed[j] = rec.listed[j]
<1>0. a \in Actors /\ need[a] \in Nat /\ rec.credits \in Nat /\ rec.listed \in [Jobs -> Nat]
  BY DEF TypeInv, TypeOK, Actors, EmployerRecord
<1>1. CASE pc[a] = "credit"
  <2>1. order[a] # NoOrder /\ order[a] \in Orders \cup {NoOrder}
    BY <1>0, <1>1 DEF TypeInv, TypeOK, PlaceInv, Ordering
  <2>2. buy[order[a]] \in Nat
    BY <2>1 DEF TypeInv, TypeOK
  <2>3. Edit(a, rec) = [rec EXCEPT !.credits = rec.credits + buy[order[a]]]
    BY <1>1 DEF Edit
  <2>4. rec.credits + buy[order[a]] \in Nat
    BY <1>0, <2>2
  <2>5. QED
    BY <1>1, <2>3, <2>4 DEF EmployerRecord
<1>2. CASE pc[a] = "debit"
  <2>1. Edit(a, rec) = [rec EXCEPT !.credits = Debited(rec.credits, need[a])]
    BY <1>2 DEF Edit
  <2>2. Debited(rec.credits, need[a]) \in Nat
    BY <1>0 DEF Debited
  <2>3. QED
    BY <1>2, <2>1, <2>2 DEF EmployerRecord
<1>3. CASE pc[a] = "list"
  <2>1. job[a] \in Jobs
    BY <1>0, <1>3 DEF TypeInv, TypeOK, PlaceInv, Working, Finalizing
  <2>2. Edit(a, rec) = [rec EXCEPT !.listed = [rec.listed EXCEPT ![job[a]] = rec.listed[job[a]] + 1]]
    BY <1>3 DEF Edit
  <2>3. rec.listed[job[a]] + 1 \in Nat
    BY <1>0, <2>1
  <2>4. [rec.listed EXCEPT ![job[a]] = rec.listed[job[a]] + 1] \in [Jobs -> Nat]
    BY <1>0, <2>3
  <2>5. Edit(a, rec) \in EmployerRecord
        /\ Edit(a, rec).listed = [rec.listed EXCEPT ![job[a]] = rec.listed[job[a]] + 1]
    BY <2>2, <2>4 DEF EmployerRecord
  <2>6. QED
    BY <1>0, <1>3, <2>1, <2>5
<1>4. CASE pc[a] = "last"
  <2>1. Edit(a, rec) = rec
    BY <1>4 DEF Edit
  <2>2. QED
    BY <1>4, <2>1
<1>5. QED
  BY <1>1, <1>2, <1>3, <1>4 DEF Updates

LEMMA AfterType ==
  ASSUME NEW a, pc[a] \in Updates
  PROVE  After(a) \in {"purchase", "list", "last", "clearDraft"}
         /\ (pc[a] = "credit" <=> After(a) = "purchase")
         /\ (pc[a] = "debit" <=> After(a) = "list")
         /\ (pc[a] = "list" <=> After(a) = "last")
         /\ (pc[a] = "last" <=> After(a) = "clearDraft")
BY DEF After, Updates

(* A row of the live ledger.                                               *)
Appends(kind, ref, n, balance) ==
  ledger' = Append(ledger, [kind |-> kind, ref |-> ref, amount |-> n, balance |-> balance])

LEMMA AppendType ==
  ASSUME TypeInv, NEW kind \in {"purchase", "post"}, NEW ref \in Orders \cup Jobs, NEW n \in Nat,
         NEW balance \in Nat, Appends(kind, ref, n, balance)
  PROVE  /\ ledger' \in Seq(LedgerRow)
         /\ Len(ledger) \in Nat /\ Len(ledger') = Len(ledger) + 1
         /\ \A i \in 1..Len(ledger) : ledger'[i] = ledger[i]
         /\ ledger'[Len(ledger')].kind = kind /\ ledger'[Len(ledger')].ref = ref
         /\ ledger'[Len(ledger')].amount = n /\ ledger'[Len(ledger')].balance = balance
<1> DEFINE row == [kind |-> kind, ref |-> ref, amount |-> n, balance |-> balance]
<1>1. row \in LedgerRow
  BY DEF LedgerRow
<1>2. ledger \in Seq(LedgerRow) /\ ledger' = Append(ledger, row)
  BY DEF TypeInv, TypeOK, Appends
<1>3. row.kind = kind /\ row.ref = ref /\ row.amount = n /\ row.balance = balance
  OBVIOUS
<1> HIDE DEF row
<1>4. QED
  BY <1>1, <1>2, <1>3

(* post_job_with_billing: the row, the debit and the ledger entry.         *)
LEMMA ChargeType ==
  ASSUME TypeInv, NEW j \in Jobs, NEW n \in Nat, Charge(j, n)
  PROVE  /\ live' \in Nat /\ posted' = posted \cup {j} /\ posted' \in SUBSET Jobs
         /\ creditsUsed' \in [Jobs -> Nat] /\ creditsUsed'[j] = n
         /\ \A k \in Jobs \ {j} : creditsUsed'[k] = creditsUsed[k]
         /\ ledger' \in Seq(LedgerRow)
         /\ n = 0 => ledger' = ledger
         /\ n # 0 => Appends("post", j, n, live')
<1>1. live \in Nat /\ posted \in SUBSET Jobs /\ creditsUsed \in [Jobs -> Nat] /\ ledger \in Seq(LedgerRow)
  BY DEF TypeInv, TypeOK
<1>2. live' \in Nat /\ live' = Debited(live, n)
  BY <1>1 DEF Charge, Debited
<1>3. n = 0 => ledger' = ledger
  BY DEF Charge
<1>4. n # 0 => Appends("post", j, n, live')
  BY <1>2 DEF Charge, Appends
<1>5. ledger' \in Seq(LedgerRow)
  BY <1>1, <1>2, <1>3, <1>4, AppendType
<1>6. QED
  BY <1>1, <1>2, <1>3, <1>4, <1>5 DEF Charge

(* A quote that finds credits enough, or none, or an order for the rest.   *)
LEMMA AnswerType ==
  ASSUME TypeInv, NEW a \in Actors, pc[a] = "balance", NEW have \in Nat, Answer(a, have),
         UNCHANGED <<submitted, draft, token, order, job>>
  PROVE  /\ DraftInv' /\ (\A b \in Actors : PlaceInv(b)') /\ pc' \in [Actors -> Steps \cup Resting]
         /\ buy' \in [Orders -> Nat] /\ pending' \in SUBSET Orders /\ paid' = paid
<1>1. job[a] \in Jobs
  BY DEF TypeInv, TypeOK, PlaceInv, Working
<1>2. Districts[job[a]] \in Nat
  BY <1>1, DistrictsAssumption
<1>3. PICK s \in {"sufficient", "finalize", "refused", "offered"} :
           Goto(a, s) /\ (a \in Orders => s \in Quoting)
  BY ActorsAssumption DEF Answer, Quoting
<1>4. paid' = paid
  BY DEF Answer, orderVars
<1>5. PlaceInv(a) /\ s \in Steps \cup Resting
  BY <1>3, Places DEF TypeInv
<1>6. DraftInv' /\ (\A b \in Actors : PlaceInv(b)') /\ pc' \in [Actors -> Steps \cup Resting]
  BY <1>3, <1>4, <1>5, Moves DEF Working, Finalizing, Ordering
<1>7. buy' \in [Orders -> Nat] /\ pending' \in SUBSET Orders
  <2>1. buy \in [Orders -> Nat] /\ pending \in SUBSET Orders
    BY DEF TypeInv, TypeOK
  <2>2. CASE UNCHANGED orderVars
    BY <2>1, <2>2 DEF orderVars
  <2>3. CASE a \in Orders /\ Districts[job[a]] > have
             /\ buy' = [buy EXCEPT ![a] = Districts[job[a]] - have] /\ pending' = pending \cup {a}
    <3>1. Districts[job[a]] - have \in Nat
      BY <1>2, <2>3
    <3>2. QED
      BY <2>1, <2>3, <3>1
  <2>4. QED
    BY <2>2, <2>3 DEF Answer
<1>8. QED
  BY <1>4, <1>6, <1>7

LEMMA RouteType ==
  ASSUME TypeInv, NEW a \in Actors, Route(a)
  PROVE  TypeInv'
<1>0. TypeOK /\ PlaceInv(a) /\ DraftInv /\ \A b \in Actors : PlaceInv(b)
  BY DEF TypeInv
<1>1. ASSUME NEW t \in Tokens, Quote(a, t) PROVE TypeInv'
  <2>1. /\ pc[a] = "idle" /\ draft[t] # NoJob /\ order[a] = NoOrder
        /\ job' = [job EXCEPT ![a] = draft[t]] /\ token' = [token EXCEPT ![a] = t]
        /\ overlapped' = (overlapped \/ \E b \in Actors : InProgress(b))
        /\ UNCHANGED <<draft, submitted, employer, liveVars, orderVars, order, need, snap, faults, collided>>
    BY <1>0, <1>1 DEF Quote, Serve, PlaceInv, Ordering
  <2>2. /\ pc' \in [Actors -> Steps \cup Resting] /\ pc'[a] = "plan"
        /\ \A b \in Actors \ {a} : pc'[b] = pc[b]
    BY <1>0, <1>1, Places, GotoType DEF Quote
  <2>3. draft[t] \in Jobs /\ draft[t] \in submitted /\ Link[draft[t]] = t
    BY <1>0, <2>1 DEF DraftInv, TypeOK
  <2>4. /\ job' \in [Actors -> Jobs \cup {NoJob}] /\ token' \in [Actors -> Tokens \cup {NoToken}]
        /\ job'[a] = draft[t] /\ token'[a] = t
        /\ \A b \in Actors \ {a} : job'[b] = job[b] /\ token'[b] = token[b]
    BY <1>0, <2>1, <2>3 DEF TypeOK
  <2>5. DraftInv'
    BY <1>0, <2>1 DEF DraftInv
  <2>6. PlaceInv(a)'
    BY <1>0, <2>1, <2>2, <2>3, <2>4 DEF PlaceInv, orderVars, Ordering, Quoting
  <2>7. a \notin paid
    BY <1>0, <2>1 DEF PlaceInv
  <2>8. ASSUME NEW b \in Actors, b # a PROVE PlaceInv(b)'
    BY <1>0, <2>1, <2>2, <2>4, <2>7, <2>8 DEF PlaceInv, orderVars, TypeOK, Actors
  <2>9. overlapped' \in BOOLEAN
    BY <1>0, <2>1 DEF TypeOK
  <2>10. TypeOK'
    BY <1>0, <2>1, <2>2, <2>4, <2>9 DEF TypeOK, liveVars, orderVars
  <2>11. QED
    BY <2>5, <2>6, <2>8, <2>10 DEF TypeInv
<1>2. ASSUME NEW covered, Quoted(a, covered), faults' \in [FaultKinds -> Nat] PROVE TypeInv'
  <2>1. PICK s \in {"balance", "sufficient", "finalize"} :
             Goto(a, s) /\ (a \in Orders => s \in Quoting) /\ pc[a] = "plan"
    BY <1>2 DEF Quoted, Quoting
  <2>2. order[a] = NoOrder
    BY <1>0, <2>1 DEF PlaceInv
  <2>3. UNCHANGED <<draft, submitted, employer, liveVars, orderVars, actorVars, snap, history>>
    BY <1>2 DEF Quoted
  <2>4. DraftInv' /\ (\A b \in Actors : PlaceInv(b)') /\ pc' \in [Actors -> Steps \cup Resting]
    BY <2>1, <2>2, <2>3, Places, Moves DEF orderVars, actorVars, Working, Finalizing, Ordering
  <2>5. QED
    BY <1>0, <1>2, <2>3, <2>4 DEF TypeInv, TypeOK, liveVars, orderVars, actorVars, history
<1>3. CASE QuotePlan(a)
  BY <1>0, <1>2, <1>3 DEF QuotePlan, TypeOK
<1>4. CASE QuotePlanFails(a)
  BY <1>0, <1>2, <1>4, FaultType DEF QuotePlanFails
<1>5. ASSUME NEW have \in Nat, pc[a] = "balance", Answer(a, have), faults' \in [FaultKinds -> Nat],
             UNCHANGED <<draft, submitted, employer, liveVars, actorVars, snap, history>>
      PROVE  TypeInv'
  <2>1. /\ DraftInv' /\ (\A b \in Actors : PlaceInv(b)') /\ pc' \in [Actors -> Steps \cup Resting]
        /\ buy' \in [Orders -> Nat] /\ pending' \in SUBSET Orders /\ paid' = paid
    BY <1>5, AnswerType DEF actorVars
  <2>2. QED
    BY <1>0, <1>5, <2>1 DEF TypeInv, TypeOK, liveVars, actorVars, history
<1>6. CASE QuoteBalance(a)
  <2>1. (IF employer = NoRecord THEN 0 ELSE live) \in Nat
    BY <1>0 DEF TypeOK
  <2>2. QED
    BY <1>0, <1>5, <1>6, <2>1 DEF QuoteBalance, TypeOK
<1>7. CASE QuoteBalanceFails(a)
  <2>1. (IF employer = NoRecord THEN 0 ELSE employer.credits) \in Nat
    BY <1>0 DEF TypeOK, EmployerRecord
  <2>2. QED
    BY <1>0, <1>5, <1>7, <2>1, FaultType DEF QuoteBalanceFails
<1>8. CASE Crash(a)
  <2>1. /\ Goto(a, "crashed") /\ pc[a] \in Steps /\ faults' \in [FaultKinds -> Nat]
        /\ snap' = [snap EXCEPT ![a] = NoRecord]
        /\ UNCHANGED <<draft, submitted, employer, liveVars, orderVars, actorVars, history>>
    BY <1>0, <1>8, FaultType DEF Crash, InProgress
  <2>2. DraftInv' /\ (\A b \in Actors : PlaceInv(b)') /\ pc' \in [Actors -> Steps \cup Resting]
    BY <2>1, Places, Moves DEF orderVars, actorVars, Working, Finalizing, Ordering, Quoting
  <2>3. snap' \in [Actors -> EmployerRecord \cup {NoRecord}]
    BY <1>0, <2>1 DEF TypeOK
  <2>4. QED
    BY <1>0, <2>1, <2>2, <2>3 DEF TypeInv, TypeOK, liveVars, orderVars, actorVars, history
<1>9. QED
  BY <1>1, <1>3, <1>4, <1>6, <1>7, <1>8 DEF Route

LEMMA PostingType ==
  ASSUME TypeInv, NEW r \in Requests, Posting(r)
  PROVE  TypeInv'
<1>0. /\ r \in Actors /\ r \notin Orders /\ Orders \subseteq Actors
      /\ TypeOK /\ PlaceInv(r) /\ DraftInv /\ \A b \in Actors : PlaceInv(b)
  BY ActorsAssumption DEF TypeInv, Actors
<1>1. ASSUME NEW o \in Orders, Verify(r, o) PROVE TypeInv'
  <2>1. /\ pc[r] = "idle" /\ o \in paid
        /\ order' = [order EXCEPT ![r] = o] /\ token' = [token EXCEPT ![r] = token[o]]
        /\ overlapped' = (overlapped \/ \E b \in Actors : InProgress(b))
        /\ UNCHANGED <<draft, submitted, employer, liveVars, orderVars, job, need, snap, faults, collided>>
    BY <1>1 DEF Verify, Serve
  <2>2. /\ pc' \in [Actors -> Steps \cup Resting] /\ pc'[r] = "load"
        /\ \A b \in Actors \ {r} : pc'[b] = pc[b]
    BY <1>0, <1>1, Places, GotoType DEF Verify
  <2>3. pc[o] = "offered" /\ token[o] \in Tokens /\ o # r
    BY <1>0, <2>1 DEF PlaceInv
  <2>4. /\ order' \in [Actors -> Orders \cup {NoOrder}] /\ token' \in [Actors -> Tokens \cup {NoToken}]
        /\ order'[r] = o /\ token'[r] = token[o]
        /\ \A b \in Actors \ {r} : order'[b] = order[b] /\ token'[b] = token[b]
    BY <1>0, <2>1, <2>3 DEF TypeOK
  <2>5. DraftInv'
    BY <1>0, <2>1 DEF DraftInv
  <2>6. r \notin paid
    BY <1>0, <2>1 DEF PlaceInv
  <2>7. PlaceInv(r)'
    <3>1. token'[o] = token[o] /\ o # NoOrder /\ paid' = paid
      BY <1>0, <2>1, <2>3, <2>4, NoneAssumption DEF orderVars
    <3>2. QED
      BY <1>0, <2>1, <2>2, <2>3, <2>4, <2>6, <3>1 DEF PlaceInv, Working, Finalizing, Ordering
  <2>8. ASSUME NEW b \in Actors, b # r PROVE PlaceInv(b)'
    BY <1>0, <2>1, <2>2, <2>4, <2>6, <2>8 DEF PlaceInv, orderVars, TypeOK
  <2>9. overlapped' \in BOOLEAN
    BY <1>0, <2>1 DEF TypeOK
  <2>10. TypeOK'
    BY <1>0, <2>1, <2>2, <2>4, <2>9 DEF TypeOK, liveVars, orderVars
  <2>11. QED
    BY <2>5, <2>7, <2>8, <2>10 DEF TypeInv
(* A step that reads and writes nothing but its own place, or the fault    *)
(* that it was.                                                            *)
<1>2. ASSUME NEW s \in Steps \cup Resting, Goto(r, s), pc[r] \notin {"idle", "offered"},
             s \notin {"idle", "plan", "balance"},
             s \in Working => pc[r] \in Working, s \in Ordering => order[r] # NoOrder,
             UNCHANGED <<draft, submitted, token, order, job, paid>>
      PROVE  DraftInv' /\ (\A b \in Actors : PlaceInv(b)') /\ pc' \in [Actors -> Steps \cup Resting]
  BY <1>0, <1>2, Moves
<1>3. ASSUME NEW s \in Steps \cup Resting, Goto(r, s), pc[r] \notin {"idle", "offered"},
             s \notin {"idle", "plan", "balance"},
             s \in Working => pc[r] \in Working, s \in Ordering => order[r] # NoOrder,
             faults' \in [FaultKinds -> Nat],
             UNCHANGED <<draft, submitted, employer, liveVars, orderVars, actorVars, snap, history>>
      PROVE  TypeInv'
  <2>1. DraftInv' /\ (\A b \in Actors : PlaceInv(b)') /\ pc' \in [Actors -> Steps \cup Resting]
    BY <1>2, <1>3 DEF actorVars, orderVars
  <2>2. QED
    BY <1>0, <1>3, <2>1 DEF TypeInv, TypeOK, liveVars, orderVars, actorVars, history
<1>4. /\ Finished(r) \in Steps \cup Resting
      /\ Finished(r) \in {"done", "clearOrder"} /\ (Finished(r) = "clearOrder" => order[r] # NoOrder)
  BY Places DEF Finished
<1> USE DEF Working, Finalizing, Ordering
<1>5. CASE LoadPending(r)
  <2>1. PICK s \in {"credit", "unknown"} : Goto(r, s)
    BY <1>5 DEF LoadPending
  <2>2. order[r] # NoOrder
    BY <1>0, <1>5 DEF LoadPending, PlaceInv
  <2>3. QED
    BY <1>0, <1>3, <1>5, <2>1, <2>2, Places DEF LoadPending, TypeOK
<1>6. CASE PurchaseCheck(r)
  <2>1. PICK s \in {"purchaseApply", "finalize"} : Goto(r, s)
    BY <1>6 DEF PurchaseCheck
  <2>2. order[r] # NoOrder
    BY <1>0, <1>6 DEF PurchaseCheck, PlaceInv
  <2>3. QED
    BY <1>0, <1>3, <1>6, <2>1, <2>2, Places DEF PurchaseCheck, TypeOK
<1>7. CASE PurchaseFails(r)
  BY <1>0, <1>3, <1>7, FaultType, Places DEF PurchaseFails
<1>8. CASE PurchaseApply(r)
  <2>1. order[r] \in Orders
    BY <1>0, <1>8 DEF PurchaseApply, PlaceInv, TypeOK
  <2>2. buy[order[r]] \in Nat /\ live \in Nat /\ live + buy[order[r]] \in Nat
    BY <1>0, <2>1 DEF TypeOK
  <2>3. Appends("purchase", order[r], buy[order[r]], live + buy[order[r]])
    BY <1>8 DEF PurchaseApply, Appends
  <2>4. ledger' \in Seq(LedgerRow)
    BY <2>1, <2>2, <2>3, AppendType
  <2>5. /\ Goto(r, "finalize") /\ live' = live + buy[order[r]]
        /\ UNCHANGED <<draft, submitted, employer, posted, creditsUsed, orderVars, actorVars, snap,
                        faults, history>>
    BY <1>8 DEF PurchaseApply
  <2>6. DraftInv' /\ (\A b \in Actors : PlaceInv(b)') /\ pc' \in [Actors -> Steps \cup Resting]
    BY <1>2, <1>8, <2>5, Places DEF PurchaseApply, actorVars, orderVars
  <2>7. QED
    BY <1>0, <2>2, <2>4, <2>5, <2>6 DEF TypeInv, TypeOK, orderVars, actorVars, history
<1>9. CASE Finalize(r)
  <2>1. CASE draft[token[r]] = NoJob
    <3>1. UNCHANGED <<draft, submitted, employer, liveVars, orderVars, actorVars, snap, history, faults>>
      BY <1>9, <2>1 DEF Finalize, actorVars
    <3>2. Goto(r, Finished(r)) /\ pc[r] = "finalize"
      BY <1>9, <2>1 DEF Finalize
    <3>3. QED
      BY <1>0, <1>3, <1>4, <3>1, <3>2 DEF TypeOK
  <2>2. CASE draft[token[r]] # NoJob
    <3>1. /\ pc[r] = "finalize" /\ job' = [job EXCEPT ![r] = draft[token[r]]]
          /\ UNCHANGED <<draft, submitted, employer, liveVars, orderVars, token, order, need, snap,
                          faults, history>>
      BY <1>9, <2>2 DEF Finalize
    <3>2. /\ pc' \in [Actors -> Steps \cup Resting] /\ pc'[r] = "cover"
          /\ \A b \in Actors \ {r} : pc'[b] = pc[b]
      BY <1>0, <1>9, <2>2, Places, GotoType DEF Finalize
    <3>3. token[r] \in Tokens
      BY <1>0, <3>1 DEF PlaceInv
    <3>4. draft[token[r]] \in submitted /\ draft[token[r]] \in Jobs /\ Link[draft[token[r]]] = token[r]
      BY <1>0, <2>2, <3>3 DEF DraftInv, TypeOK
    <3>5. /\ job' \in [Actors -> Jobs \cup {NoJob}] /\ job'[r] = draft[token[r]]
          /\ \A b \in Actors \ {r} : job'[b] = job[b]
      BY <1>0, <3>1, <3>4 DEF TypeOK
    <3>6. DraftInv' /\ PlaceInv(r)'
      BY <1>0, <3>1, <3>2, <3>3, <3>4, <3>5 DEF DraftInv, PlaceInv, orderVars
    <3>7. ASSUME NEW b \in Actors, b # r PROVE PlaceInv(b)'
      BY <1>0, <3>1, <3>2, <3>5, <3>7 DEF PlaceInv, orderVars
    <3>8. TypeOK'
      BY <1>0, <3>1, <3>2, <3>5 DEF TypeOK, liveVars, orderVars, history
    <3>9. QED
      BY <3>6, <3>7, <3>8 DEF TypeInv
  <2>3. QED
    BY <2>1, <2>2
<1>10. ASSUME NEW covered, Covered(r, covered), faults' \in [FaultKinds -> Nat] PROVE TypeInv'
  <2>1. job[r] \in Jobs
    BY <1>0, <1>10 DEF Covered, PlaceInv, TypeOK
  <2>2. need' = [need EXCEPT ![r] = IF covered THEN 0 ELSE Districts[job[r]]]
    BY <1>10 DEF Covered
  <2>3. (IF covered THEN 0 ELSE Districts[job[r]]) \in Nat
    BY <2>1, DistrictsAssumption
  <2>4. need' \in [Actors -> Nat]
    BY <1>0, <2>2, <2>3 DEF TypeOK
  <2>5. PICK s \in {"list", "debit"} : Goto(r, s) /\ pc[r] = "cover"
    BY <1>10 DEF Covered
  <2>6. UNCHANGED <<draft, submitted, employer, liveVars, orderVars, token, order, job, snap, history>>
    BY <1>10 DEF Covered
  <2>7. DraftInv' /\ (\A b \in Actors : PlaceInv(b)') /\ pc' \in [Actors -> Steps \cup Resting]
    BY <1>2, <2>5, <2>6, Places DEF orderVars
  <2>8. QED
    BY <1>0, <1>10, <2>4, <2>6, <2>7 DEF TypeInv, TypeOK, liveVars, orderVars, history
<1>11. CASE Cover(r)
  BY <1>0, <1>10, <1>11 DEF Cover, TypeOK
<1>12. CASE CoverFails(r)
  BY <1>0, <1>10, <1>12, FaultType DEF CoverFails
<1>13. ASSUME NEW s, s = After(r), Goto(r, s), pc[r] \in Updates,
              UNCHANGED <<draft, submitted, token, order, job, paid>>
       PROVE  DraftInv' /\ (\A b \in Actors : PlaceInv(b)') /\ pc' \in [Actors -> Steps \cup Resting]
  <2>1. pc[r] = "credit" => order[r] # NoOrder
    BY <1>0 DEF PlaceInv
  <2>2. s \in Steps \cup Resting
    BY <1>13, AfterType, Places
  <2>3. QED
    BY <1>2, <1>13, <2>1, <2>2, AfterType DEF Updates
<1>14. CASE ReadRecord(r)
  <2>1. UNCHANGED <<draft, submitted, employer, liveVars, orderVars, actorVars, faults, overlapped>>
    BY <1>14 DEF ReadRecord
  <2>2. CASE employer = NoRecord
    <3>1. Goto(r, After(r)) /\ pc[r] \in Updates /\ UNCHANGED <<snap, history>>
      BY <1>14, <2>2 DEF ReadRecord
    <3>2. DraftInv' /\ (\A b \in Actors : PlaceInv(b)') /\ pc' \in [Actors -> Steps \cup Resting]
      BY <1>13, <2>1, <3>1 DEF orderVars, actorVars
    <3>3. QED
      BY <1>0, <2>1, <3>1, <3>2 DEF TypeInv, TypeOK, liveVars, orderVars, actorVars, history
  <2>3. CASE employer # NoRecord
    <3>1. /\ snap' = [snap EXCEPT ![r] = employer] /\ pc' = pc
          /\ collided' = (collided \/ OthersInUpdate(r))
      BY <1>14, <2>3 DEF ReadRecord
    <3>2. snap' \in [Actors -> EmployerRecord \cup {NoRecord}] /\ collided' \in BOOLEAN
      BY <1>0, <3>1 DEF TypeOK
    <3>3. DraftInv' /\ \A b \in Actors : PlaceInv(b)'
      BY <1>0, <2>1, <3>1 DEF DraftInv, PlaceInv, orderVars, actorVars
    <3>4. QED
      BY <1>0, <2>1, <3>1, <3>2, <3>3 DEF TypeInv, TypeOK, liveVars, orderVars, actorVars
  <2>4. QED
    BY <2>2, <2>3
<1>15. CASE WriteRecord(r)
  <2>1. /\ pc[r] \in Updates /\ Goto(r, After(r)) /\ snap[r] # NoRecord
        /\ employer' = Edit(r, snap[r]) /\ snap' = [snap EXCEPT ![r] = NoRecord]
        /\ UNCHANGED <<draft, submitted, liveVars, orderVars, actorVars, faults, history>>
    BY <1>15 DEF WriteRecord
  <2>2. snap[r] \in EmployerRecord
    BY <1>0, <2>1 DEF TypeOK
  <2>3. employer' \in EmployerRecord
    BY <2>1, <2>2, EditType
  <2>4. DraftInv' /\ (\A b \in Actors : PlaceInv(b)') /\ pc' \in [Actors -> Steps \cup Resting]
    BY <1>13, <2>1 DEF orderVars, actorVars
  <2>5. snap' \in [Actors -> EmployerRecord \cup {NoRecord}]
    BY <1>0, <2>1 DEF TypeOK
  <2>6. QED
    BY <1>0, <2>1, <2>3, <2>4, <2>5 DEF TypeInv, TypeOK, liveVars, orderVars, actorVars, history
<1>16. CASE ClearDraft(r)
  <2>1. /\ pc[r] = "clearDraft" /\ draft' = [draft EXCEPT ![token[r]] = NoJob]
        /\ UNCHANGED <<submitted, employer, liveVars, orderVars, actorVars, snap, faults, history>>
    BY <1>16 DEF ClearDraft
  <2>2. /\ pc' \in [Actors -> Steps \cup Resting] /\ pc'[r] = "bill"
        /\ \A b \in Actors \ {r} : pc'[b] = pc[b]
    BY <1>0, <1>16, Places, GotoType DEF ClearDraft
  <2>3. draft' \in [Tokens -> Jobs \cup {NoJob}] /\ DraftInv'
    BY <1>0, <2>1 DEF TypeOK, DraftInv
  <2>4. PlaceInv(r)'
    BY <1>0, <2>1, <2>2 DEF PlaceInv, orderVars, actorVars
  <2>5. ASSUME NEW b \in Actors, b # r PROVE PlaceInv(b)'
    BY <1>0, <2>1, <2>2, <2>5 DEF PlaceInv, orderVars, actorVars
  <2>6. QED
    BY <1>0, <2>1, <2>2, <2>3, <2>4, <2>5 DEF TypeInv, TypeOK, liveVars, orderVars, actorVars, history
<1>17. CASE BillCheck(r)
  <2>1. PICK s \in {"billApply", Finished(r)} : Goto(r, s)
    BY <1>17 DEF BillCheck
  <2>2. QED
    BY <1>0, <1>3, <1>4, <1>17, <2>1, Places DEF BillCheck, TypeOK
<1>18. CASE BillApply(r)
  <2>1. /\ pc[r] = "billApply" /\ Goto(r, Finished(r))
        /\ UNCHANGED <<draft, submitted, employer, orderVars, actorVars, snap, faults, history>>
    BY <1>18 DEF BillApply
  <2>2. job[r] \in Jobs /\ need[r] \in Nat
    BY <1>0, <2>1 DEF PlaceInv, TypeOK
  <2>3. /\ live' \in Nat /\ ledger' \in Seq(LedgerRow) /\ posted' \in SUBSET Jobs
        /\ creditsUsed' \in [Jobs -> Nat]
    <3>1. CASE job[r] \in posted
      BY <1>0, <1>18, <3>1 DEF BillApply, liveVars, TypeOK
    <3>2. CASE job[r] \notin posted
      BY <1>18, <2>2, <3>2, ChargeType DEF BillApply
    <3>3. QED
      BY <3>1, <3>2
  <2>4. DraftInv' /\ (\A b \in Actors : PlaceInv(b)') /\ pc' \in [Actors -> Steps \cup Resting]
    BY <1>2, <1>4, <2>1 DEF orderVars, actorVars
  <2>5. QED
    BY <1>0, <2>1, <2>3, <2>4 DEF TypeInv, TypeOK, orderVars, actorVars, history
<1>19. CASE BillFails(r)
  BY <1>0, <1>3, <1>4, <1>19, FaultType DEF BillFails
<1>20. CASE ClearOrder(r)
  <2>1. /\ pc[r] = "clearOrder" /\ Goto(r, "done") /\ pending' = pending \ {order[r]}
        /\ UNCHANGED <<draft, submitted, employer, liveVars, paid, buy, actorVars, snap, faults, history>>
    BY <1>20 DEF ClearOrder
  <2>2. DraftInv' /\ (\A b \in Actors : PlaceInv(b)') /\ pc' \in [Actors -> Steps \cup Resting]
    BY <1>2, <2>1, Places DEF actorVars
  <2>3. QED
    BY <1>0, <2>1, <2>2 DEF TypeInv, TypeOK, liveVars, actorVars, history
<1>21. QED
  BY <1>1, <1>5, <1>6, <1>7, <1>8, <1>9, <1>11, <1>12, <1>14, <1>15, <1>16, <1>17, <1>18, <1>19,
     <1>20 DEF Posting

LEMMA TypeStep ==
  ASSUME TypeInv, [Next]_vars
  PROVE  TypeInv'
<1>0. TypeOK /\ DraftInv /\ \A b \in Actors : PlaceInv(b)
  BY DEF TypeInv
<1>1. ASSUME NEW j \in Jobs, Submit(j) PROVE TypeInv'
  <2>1. /\ submitted' = submitted \cup {j} /\ draft' = [draft EXCEPT ![Link[j]] = j]
        /\ UNCHANGED <<employer, liveVars, orderVars, pc, actorVars, snap, faults, history>>
    BY <1>1 DEF Submit
  <2>2. Link[j] \in Tokens
    BY LinkAssumption
  <2>3. draft' \in [Tokens -> Jobs \cup {NoJob}] /\ DraftInv'
    BY <1>0, <2>1, <2>2 DEF TypeOK, DraftInv
  <2>4. \A b \in Actors : PlaceInv(b)'
    BY <1>0, <2>1 DEF PlaceInv, orderVars, actorVars
  <2>5. TypeOK'
    BY <1>0, <2>1, <2>3 DEF TypeOK, liveVars, orderVars, actorVars, history
  <2>6. QED
    BY <2>3, <2>4, <2>5 DEF TypeInv
<1>2. ASSUME NEW o \in Orders, Pay(o) PROVE TypeInv'
  <2>1. /\ pc[o] = "offered" /\ paid' = paid \cup {o}
        /\ UNCHANGED <<draft, submitted, employer, liveVars, buy, pending, pc, actorVars, snap, faults, history>>
    BY <1>2 DEF Pay
  <2>2. DraftInv' /\ \A b \in Actors : PlaceInv(b)'
    BY <1>0, <2>1 DEF DraftInv, PlaceInv, actorVars
  <2>3. QED
    BY <1>0, <2>1, <2>2 DEF TypeInv, TypeOK, liveVars, actorVars, history
<1>3. CASE LoseRecord
  <2>1. /\ employer' = NoRecord /\ faults' \in [FaultKinds -> Nat]
        /\ UNCHANGED <<draft, submitted, liveVars, orderVars, pc, actorVars, snap, history>>
    BY <1>0, <1>3, FaultType DEF LoseRecord
  <2>2. DraftInv' /\ \A b \in Actors : PlaceInv(b)'
    BY <1>0, <2>1 DEF DraftInv, PlaceInv, orderVars, actorVars
  <2>3. QED
    BY <1>0, <2>1, <2>2 DEF TypeInv, TypeOK, liveVars, orderVars, actorVars, history
<1>4. CASE UNCHANGED vars
  <2>1. DraftInv' /\ \A b \in Actors : PlaceInv(b)'
    BY <1>0, <1>4 DEF vars, DraftInv, PlaceInv, orderVars, actorVars
  <2>2. QED
    BY <1>0, <1>4, <2>1 DEF vars, TypeInv, TypeOK, liveVars, orderVars, actorVars, history
<1>5. QED
  BY <1>1, <1>2, <1>3, <1>4, RouteType, PostingType DEF Next

LEMMA TypeInvariant == Spec => []TypeInv
BY TypeInit, TypeStep, PTL DEF Spec

(* Wallets, ledger rows and what is written back to Redis keep their types *)
(* (_apply_delta and grant_credits floor a debit at 0), whatever routes    *)
(* overlap and whatever fails.                                             *)
THEOREM TypeCorrect == Spec => []TypeOK
<1>1. TypeInv => TypeOK
  BY DEF TypeInv
<1>2. QED
  BY <1>1, TypeInvariant, PTL

-----------------------------------------------------------------------------
(* What only grows, and who may be in progress                             *)

(* Whose step it is: a route's own, one that starts a route, or no route's.*)
LEMMA RouteSteps ==
  ASSUME TypeInv, [Next]_vars
  PROVE  \/ UNCHANGED <<pc, overlapped>>
         \/ \E a \in Actors : /\ InProgress(a) /\ overlapped' = overlapped
                              /\ \A b \in Actors \ {a} : pc'[b] = pc[b]
         \/ \E a \in Actors : Serve(a) /\ \A b \in Actors \ {a} : pc'[b] = pc[b]
<1>0. pc \in [Actors -> Steps \cup Resting]
  BY DEF TypeInv, TypeOK
<1>1. ASSUME NEW a \in Actors, NEW s, Goto(a, s) PROVE \A b \in Actors \ {a} : pc'[b] = pc[b]
  BY <1>0, <1>1 DEF Goto
<1>2. ASSUME NEW a \in Actors, NEW s, Goto(a, s), InProgress(a), UNCHANGED history
      PROVE  \E b \in Actors : /\ InProgress(b) /\ overlapped' = overlapped
                               /\ \A c \in Actors \ {b} : pc'[c] = pc[c]
  BY <1>1, <1>2 DEF history
<1>3. ASSUME NEW a \in Actors, Route(a)
      PROVE  \/ \E b \in Actors : /\ InProgress(b) /\ overlapped' = overlapped
                                  /\ \A c \in Actors \ {b} : pc'[c] = pc[c]
             \/ \E b \in Actors : Serve(b) /\ \A c \in Actors \ {b} : pc'[c] = pc[c]
  <2>1. ASSUME NEW t \in Tokens, Quote(a, t)
        PROVE  \E b \in Actors : Serve(b) /\ \A c \in Actors \ {b} : pc'[c] = pc[c]
    BY <1>1, <2>1 DEF Quote
  <2>2. ASSUME NEW covered, Quoted(a, covered) PROVE InProgress(a) /\ \E s : Goto(a, s)
    BY <2>2, Places DEF Quoted, InProgress
  <2>3. CASE QuotePlan(a) \/ QuotePlanFails(a)
    <3>1. PICK covered : Quoted(a, covered)
      BY <2>3 DEF QuotePlan, QuotePlanFails
    <3>2. QED
      BY <1>2, <2>2, <3>1 DEF Quoted
  <2>4. CASE QuoteBalance(a) \/ QuoteBalanceFails(a)
    <3>1. InProgress(a) /\ UNCHANGED history /\ \E s : Goto(a, s)
      BY <2>4, Places DEF QuoteBalance, QuoteBalanceFails, Answer, InProgress
    <3>2. QED
      BY <1>2, <3>1
  <2>5. CASE Crash(a)
    BY <1>2, <2>5 DEF Crash
  <2>6. QED
    BY <1>3, <2>1, <2>3, <2>4, <2>5 DEF Route
<1>4. ASSUME NEW r \in Requests, Posting(r)
      PROVE  \/ UNCHANGED <<pc, overlapped>>
             \/ \E b \in Actors : /\ InProgress(b) /\ overlapped' = overlapped
                                  /\ \A c \in Actors \ {b} : pc'[c] = pc[c]
             \/ \E b \in Actors : Serve(b) /\ \A c \in Actors \ {b} : pc'[c] = pc[c]
  <2>0. r \in Actors
    BY DEF Actors
  <2>1. ASSUME NEW o \in Orders, Verify(r, o)
        PROVE  \E b \in Actors : Serve(b) /\ \A c \in Actors \ {b} : pc'[c] = pc[c]
    BY <1>1, <2>0, <2>1 DEF Verify
  <2>2. CASE \/ LoadPending(r) \/ PurchaseCheck(r) \/ PurchaseApply(r) \/ PurchaseFails(r)
             \/ Finalize(r) \/ ClearDraft(r) \/ BillCheck(r) \/ BillApply(r) \/ BillFails(r)
             \/ ClearOrder(r)
    <3>1. InProgress(r) /\ UNCHANGED history /\ \E s : Goto(r, s)
      BY <2>2, Places DEF LoadPending, PurchaseCheck, PurchaseApply, PurchaseFails, Finalize,
         ClearDraft, BillCheck, BillApply, BillFails, ClearOrder, InProgress
    <3>2. QED
      BY <1>2, <2>0, <3>1
  <2>3. CASE Cover(r) \/ CoverFails(r)
    <3>1. PICK covered : Covered(r, covered)
      BY <2>3 DEF Cover, CoverFails
    <3>2. InProgress(r) /\ UNCHANGED history /\ \E s : Goto(r, s)
      BY <3>1, Places DEF Covered, InProgress
    <3>3. QED
      BY <1>2, <2>0, <3>2
  <2>4. CASE ReadRecord(r) \/ WriteRecord(r)
    <3>1. InProgress(r) /\ overlapped' = overlapped /\ (pc' = pc \/ \E s : Goto(r, s))
      BY <2>4, Places DEF ReadRecord, WriteRecord, Updates, InProgress, history
    <3>2. QED
      BY <1>1, <2>0, <3>1
  <2>5. QED
    BY <1>4, <2>1, <2>2, <2>3, <2>4 DEF Posting
<1>5. CASE (\E j \in Jobs : Submit(j)) \/ (\E o \in Orders : Pay(o)) \/ LoseRecord \/ UNCHANGED vars
  BY <1>5 DEF Submit, Pay, LoseRecord, vars, history
<1>6. QED
  BY <1>3, <1>4, <1>5 DEF Next

(* While no route has overlapped another, one at most is in progress.      *)
OneRoute == ~overlapped => \A a, b \in Actors : InProgress(a) /\ InProgress(b) => a = b

LEMMA OneRouteStep ==
  ASSUME TypeInv, OneRoute, [Next]_vars
  PROVE  OneRoute'
<1>1. CASE UNCHANGED <<pc, overlapped>>
  BY <1>1 DEF OneRoute, InProgress
<1>2. ASSUME NEW a \in Actors, InProgress(a), overlapped' = overlapped,
             \A b \in Actors \ {a} : pc'[b] = pc[b]
      PROVE  OneRoute'
  BY <1>2 DEF OneRoute, InProgress
<1>3. ASSUME NEW a \in Actors, Serve(a), \A b \in Actors \ {a} : pc'[b] = pc[b] PROVE OneRoute'
  BY <1>3 DEF OneRoute, InProgress, Serve
<1>4. QED
  BY <1>1, <1>2, <1>3, RouteSteps

(* What a step does to the live tables: nothing, a purchase, or a charge.  *)
LEMMA LedgerSteps ==
  ASSUME TypeInv, [Next]_vars
  PROVE  \/ UNCHANGED liveVars
         \/ \E r \in Requests : PurchaseApply(r)
         \/ \E r \in Requests : BillApply(r) /\ job[r] \notin posted
<1>1. ASSUME NEW a \in Actors, Route(a) PROVE UNCHANGED liveVars
  BY <1>1 DEF Route, Quote, QuotePlan, QuotePlanFails, Quoted, QuoteBalance, QuoteBalanceFails, Crash
<1>2. ASSUME NEW r \in Requests, Posting(r)
      PROVE  UNCHANGED liveVars \/ PurchaseApply(r) \/ (BillApply(r) /\ job[r] \notin posted)
  BY <1>2 DEF Posting, Verify, LoadPending, PurchaseCheck, PurchaseFails, Finalize, Cover, CoverFails,
     Covered, ReadRecord, WriteRecord, ClearDraft, BillCheck, BillApply, BillFails, ClearOrder
<1>3. CASE (\E j \in Jobs : Submit(j)) \/ (\E o \in Orders : Pay(o)) \/ LoseRecord \/ UNCHANGED vars
  BY <1>3 DEF Submit, Pay, LoseRecord, vars
<1>4. QED
  BY <1>1, <1>2, <1>3 DEF Next

(* What the two that are not nothing do.                                   *)
LEMMA PurchaseEffect ==
  ASSUME TypeInv, NEW r \in Requests, PurchaseApply(r)
  PROVE  /\ r \in Actors /\ order[r] \in Orders /\ order[r] \in paid /\ buy[order[r]] \in Nat
         /\ live' = live + buy[order[r]] /\ live \in Nat
         /\ Appends("purchase", order[r], buy[order[r]], live')
         /\ UNCHANGED <<posted, creditsUsed>>
<1>1. r \in Actors
  BY DEF Actors
<1>2. order[r] \in Orders /\ order[r] \in paid
  BY <1>1 DEF PurchaseApply, TypeInv, TypeOK, PlaceInv, Ordering
<1>3. QED
  BY <1>1, <1>2 DEF PurchaseApply, Appends, TypeInv, TypeOK

LEMMA BillEffect ==
  ASSUME TypeInv, NEW r \in Requests, BillApply(r), job[r] \notin posted
  PROVE  /\ r \in Actors /\ job[r] \in Jobs /\ need[r] \in Nat
         /\ Charge(job[r], need[r])
         /\ posted' = posted \cup {job[r]} /\ creditsUsed'[job[r]] = need[r]
         /\ \A k \in Jobs \ {job[r]} : creditsUsed'[k] = creditsUsed[k]
         /\ need[r] = 0 => ledger' = ledger /\ live' = live
         /\ need[r] # 0 => Appends("post", job[r], need[r], live')
<1>1. r \in Actors
  BY DEF Actors
<1>2. job[r] \in Jobs /\ need[r] \in Nat /\ live \in Nat
  BY <1>1 DEF BillApply, TypeInv, TypeOK, PlaceInv, Working, Finalizing
<1>3. Charge(job[r], need[r])
  BY DEF BillApply
<1>4. need[r] = 0 => live' = live
  BY <1>2, <1>3 DEF Charge, Debited
<1>5. QED
  BY <1>1, <1>2, <1>3, <1>4, ChargeType

(* What only grows.                                                        *)
LEMMA Grows ==
  ASSUME TypeInv, [Next]_vars
  PROVE  /\ submitted \subseteq submitted' /\ paid \subseteq paid' /\ (overlapped => overlapped')
         /\ posted \subseteq posted' /\ \A j \in posted : creditsUsed'[j] = creditsUsed[j]
         /\ Len(ledger) \in Nat /\ Len(ledger') \in Nat /\ Len(ledger) <= Len(ledger')
         /\ \A i \in 1..Len(ledger) : ledger'[i] = ledger[i]
         /\ \A k \in FaultKinds : faults[k] \in Nat /\ faults'[k] \in Nat /\ faults[k] <= faults'[k]
<1>0. TypeOK /\ TypeOK' /\ faults \in [FaultKinds -> Nat] /\ ledger \in Seq(LedgerRow)
      /\ Len(ledger) \in Nat /\ posted \subseteq Jobs
  <2>1. TypeInv'
    BY TypeStep
  <2>2. TypeOK /\ TypeOK'
    BY <2>1 DEF TypeInv
  <2>3. QED
    BY SMTT(30), <2>2 DEF TypeOK
<1>1. submitted \subseteq submitted' /\ paid \subseteq paid'
  <2>1. ASSUME NEW a \in Actors, Route(a) PROVE submitted' = submitted /\ paid' = paid
    BY <2>1 DEF Route, Quote, QuotePlan, QuotePlanFails, Quoted, QuoteBalance, QuoteBalanceFails, Crash,
       Answer, orderVars
  <2>2. ASSUME NEW r \in Requests, Posting(r) PROVE submitted' = submitted /\ paid' = paid
    BY <2>2 DEF Posting, Verify, LoadPending, PurchaseCheck, PurchaseApply, PurchaseFails, Finalize,
       Cover, CoverFails, Covered, ReadRecord, WriteRecord, ClearDraft, BillCheck, BillApply, BillFails,
       ClearOrder, orderVars
  <2>3. QED
    BY <2>1, <2>2 DEF Next, Submit, Pay, LoseRecord, vars, orderVars
<1>2. overlapped => overlapped'
  <2>1. ASSUME NEW a \in Actors, Serve(a) PROVE overlapped => overlapped'
    BY <2>1 DEF Serve
  <2>2. QED
    BY <2>1, RouteSteps
<1>3. \A k \in FaultKinds : faults[k] \in Nat /\ faults'[k] \in Nat /\ faults[k] <= faults'[k]
  <2>1. faults' = faults \/ \E k \in FaultKinds : Fault(k)
    <3>1. ASSUME NEW a \in Actors, Route(a) PROVE faults' = faults \/ \E k \in FaultKinds : Fault(k)
      BY <3>1 DEF Route, Quote, QuotePlan, QuotePlanFails, QuoteBalance, QuoteBalanceFails, Crash
    <3>2. ASSUME NEW r \in Requests, Posting(r) PROVE faults' = faults \/ \E k \in FaultKinds : Fault(k)
      BY <3>2 DEF Posting, Verify, LoadPending, PurchaseCheck, PurchaseApply, PurchaseFails, Finalize,
         Cover, CoverFails, ReadRecord, WriteRecord, ClearDraft, BillCheck, BillApply, BillFails,
         ClearOrder
    <3>3. QED
      BY <3>1, <3>2 DEF Next, Submit, Pay, LoseRecord, vars
  <2>2. ASSUME NEW k \in FaultKinds, Fault(k)
        PROVE  \A x \in FaultKinds : faults[x] \in Nat /\ faults'[x] \in Nat /\ faults[x] <= faults'[x]
    <3>1. /\ faults' \in [FaultKinds -> Nat] /\ faults'[k] = faults[k] + 1
          /\ \A x \in FaultKinds \ {k} : faults'[x] = faults[x]
      BY <1>0, <2>2, FaultType
    <3>2. QED
      BY <1>0, <3>1
  <2>3. QED
    BY <1>0, <2>1, <2>2
<1>4. /\ posted \subseteq posted' /\ \A j \in posted : creditsUsed'[j] = creditsUsed[j]
      /\ Len(ledger') \in Nat /\ Len(ledger) <= Len(ledger')
      /\ \A i \in 1..Len(ledger) : ledger'[i] = ledger[i]
  <2>1. CASE UNCHANGED liveVars
    BY <1>0, <2>1 DEF liveVars
  <2>2. ASSUME NEW r \in Requests, PurchaseApply(r) PROVE  <1>4!:
    BY SMTT(30), <1>0, <2>2, PurchaseEffect, AppendType DEF TypeOK
  <2>3. ASSUME NEW r \in Requests, BillApply(r), job[r] \notin posted PROVE  <1>4!:
    <3>1. posted \subseteq posted' /\ \A j \in posted : creditsUsed'[j] = creditsUsed[j]
      BY <1>0, <2>3, BillEffect
    <3>2. live' \in Nat /\ job[r] \in Jobs /\ need[r] \in Nat
          /\ (need[r] = 0 => ledger' = ledger) /\ (need[r] # 0 => Appends("post", job[r], need[r], live'))
      BY <1>0, <2>3, BillEffect DEF TypeOK
    <3>3. CASE need[r] = 0
      BY <1>0, <3>1, <3>2, <3>3
    <3>4. CASE need[r] # 0
      BY <1>0, <3>1, <3>2, <3>4, AppendType
    <3>5. QED
      BY <3>3, <3>4
  <2>4. QED
    BY <2>1, <2>2, <2>3, LedgerSteps
<1>5. QED
  BY <1>0, <1>1, <1>2, <1>3, <1>4

-----------------------------------------------------------------------------
(* What the live ledger says                                               *)

IsPost(i) == i \in 1..Len(ledger) /\ ledger[i].kind = "post"

(* A ledger row of a post is its private_jobs row's, and the only one; one *)
(* of a purchase is a paid order's; the last balance is the wallet's.      *)
LedgerInv ==
  /\ \A i \in 1..Len(ledger) : ledger[i].kind = "purchase" => ledger[i].ref \in paid
  /\ \A i \in 1..Len(ledger) :
       IsPost(i) => /\ ledger[i].ref \in posted /\ ledger[i].amount # 0
                    /\ ledger[i].amount = creditsUsed[ledger[i].ref]
  /\ \A i, k \in 1..Len(ledger) : IsPost(i) /\ IsPost(k) /\ ledger[i].ref = ledger[k].ref => i = k
  /\ \A j \in posted : creditsUsed[j] # 0 => \E i \in 1..Len(ledger) : IsPost(i) /\ ledger[i].ref = j
  /\ live = IF Len(ledger) = 0 THEN Opening ELSE ledger[Len(ledger)].balance

(* What forgives a part of a charge: another post was charged, the form    *)
(* was submitted again, a free slot was taken by an overlapping route, or  *)
(* something failed.                                                       *)
Excused(j) ==
  \/ \E i \in 1..Len(ledger) : IsPost(i)
  \/ \E k \in submitted \ {j} : Link[k] = Link[j]
  \/ overlapped /\ \E k \in posted : creditsUsed[k] = 0
  \/ \E k \in FaultKinds : faults[k] > 0

LEMMA ExcusedGrows ==
  ASSUME TypeInv, [Next]_vars, NEW j, Excused(j)
  PROVE  Excused(j)'
<1>1. CASE \E i \in 1..Len(ledger) : IsPost(i)
  <2>1. PICK i \in 1..Len(ledger) : ledger[i].kind = "post"
    BY <1>1 DEF IsPost
  <2>2. i \in 1..Len(ledger') /\ ledger'[i] = ledger[i]
    BY <2>1, Grows
  <2>3. QED
    BY <2>1, <2>2 DEF Excused, IsPost
<1>2. CASE \E k \in submitted \ {j} : Link[k] = Link[j]
  BY <1>2, Grows DEF Excused
<1>3. CASE overlapped /\ \E k \in posted : creditsUsed[k] = 0
  BY <1>3, Grows DEF Excused
<1>4. CASE \E k \in FaultKinds : faults[k] > 0
  <2>1. PICK k \in FaultKinds : faults[k] > 0
    BY <1>4
  <2>2. faults'[k] > 0
    BY <2>1, Grows
  <2>3. QED
    BY <2>2 DEF Excused
<1>5. QED
  BY <1>1, <1>2, <1>3, <1>4 DEF Excused

LEMMA FaultExcuses ==
  ASSUME TypeOK, NEW k \in FaultKinds, Fault(k), NEW j
  PROVE  Excused(j)'
<1>1. faults'[k] = faults[k] + 1 /\ faults[k] \in Nat
  BY FaultType DEF TypeOK
<1>2. QED
  BY <1>1 DEF Excused

(* Each row was within the balance before it, or excused.                  *)
Within(i) ==
  \/ ledger[i].amount <= IF i = 1 THEN Opening ELSE ledger[i-1].balance
  \/ \E k \in 1..Len(ledger) : IsPost(k) /\ k < i
  \/ \E j \in submitted \ {ledger[i].ref} : Link[j] = Link[ledger[i].ref]
  \/ overlapped /\ \E j \in posted : creditsUsed[j] = 0
  \/ \E k \in FaultKinds : faults[k] > 0

WithinInv == \A i \in 1..Len(ledger) : IsPost(i) => Within(i)

LEMMA WithinGrows ==
  ASSUME TypeInv, [Next]_vars, NEW i \in 1..Len(ledger), Within(i)
  PROVE  Within(i)'
<1>1. /\ i \in 1..Len(ledger') /\ ledger'[i] = ledger[i] /\ (i # 1 => ledger'[i-1] = ledger[i-1])
      /\ Len(ledger) \in Nat
  <2>1. i # 1 => i - 1 \in 1..Len(ledger)
    BY Grows
  <2>2. QED
    BY <2>1, Grows
<1>2. CASE ledger[i].amount <= IF i = 1 THEN Opening ELSE ledger[i-1].balance
  BY <1>1, <1>2 DEF Within
<1>3. CASE \E k \in 1..Len(ledger) : IsPost(k) /\ k < i
  <2>1. PICK k \in 1..Len(ledger) : ledger[k].kind = "post" /\ k < i
    BY <1>3 DEF IsPost
  <2>2. k \in 1..Len(ledger') /\ ledger'[k] = ledger[k]
    BY <2>1, Grows
  <2>3. QED
    BY <2>1, <2>2 DEF Within, IsPost
<1>4. CASE \E j \in submitted \ {ledger[i].ref} : Link[j] = Link[ledger[i].ref]
  BY <1>1, <1>4, Grows DEF Within
<1>5. CASE overlapped /\ \E j \in posted : creditsUsed[j] = 0
  BY <1>5, Grows DEF Within
<1>6. CASE \E k \in FaultKinds : faults[k] > 0
  <2>1. PICK k \in FaultKinds : faults[k] > 0
    BY <1>6
  <2>2. faults'[k] > 0
    BY <2>1, Grows
  <2>3. QED
    BY <2>2 DEF Within
<1>7. QED
  BY <1>2, <1>3, <1>4, <1>5, <1>6 DEF Within

LEMMA LedgerStep ==
  ASSUME TypeInv, LedgerInv, [Next]_vars
  PROVE  LedgerInv'
<1>0. TypeOK /\ Len(ledger) \in Nat /\ ledger \in Seq(LedgerRow) /\ posted \subseteq Jobs /\ live \in Nat
  BY DEF TypeInv, TypeOK
<1>1. CASE UNCHANGED liveVars
  BY <1>1, Grows DEF LedgerInv, IsPost, liveVars
<1>2. ASSUME NEW r \in Requests, PurchaseApply(r) PROVE LedgerInv'
  <2> DEFINE n == Len(ledger)
  <2>1. /\ order[r] \in Orders /\ order[r] \in paid' /\ live' \in Nat /\ buy[order[r]] \in Nat
        /\ Appends("purchase", order[r], buy[order[r]], live') /\ UNCHANGED <<posted, creditsUsed>>
    BY <1>0, <1>2, PurchaseEffect, Grows
  <2>2. /\ Len(ledger') = n + 1 /\ \A i \in 1..n : ledger'[i] = ledger[i]
        /\ ledger'[n + 1].kind = "purchase" /\ ledger'[n + 1].ref \in paid'
        /\ ledger'[n + 1].balance = live'
    BY SMTT(30), <2>1, AppendType
  <2>3. \A i \in 1..n+1 : i \in 1..n \/ i = n + 1
    BY <1>0
  <2>4. \A i \in 1..n+1 : IsPost(i)' <=> i \in 1..n /\ IsPost(i)
    BY <1>0, <2>2, <2>3 DEF IsPost
  <2> HIDE DEF n
  <2>5. n \in Nat /\ n = Len(ledger)
    BY <1>0 DEF n
  <2>6. \A i \in 1..Len(ledger') : ledger'[i].kind = "purchase" => ledger'[i].ref \in paid'
    BY <2>2, <2>3, <2>5, Grows DEF LedgerInv
  <2>7. \A i \in 1..Len(ledger') :
          IsPost(i)' => /\ ledger'[i].ref \in posted /\ ledger'[i].amount # 0
                        /\ ledger'[i].amount = creditsUsed[ledger'[i].ref]
    BY <2>2, <2>4, <2>5 DEF LedgerInv
  <2>8. \A i, k \in 1..Len(ledger') : IsPost(i)' /\ IsPost(k)' /\ ledger'[i].ref = ledger'[k].ref => i = k
    BY <2>2, <2>4, <2>5 DEF LedgerInv
  <2>9. \A j \in posted : creditsUsed[j] # 0 => \E i \in 1..Len(ledger') : IsPost(i)' /\ ledger'[i].ref = j
    <3>1. \A i \in 1..n : i \in 1..n+1
      BY <2>5
    <3>2. QED
      BY <2>2, <2>4, <2>5, <3>1 DEF LedgerInv
  <2>10. live' = IF Len(ledger') = 0 THEN Opening ELSE ledger'[Len(ledger')].balance
    BY <2>2, <2>5
  <2>11. QED
    BY <2>1, <2>6, <2>7, <2>8, <2>9, <2>10 DEF LedgerInv
<1>3. ASSUME NEW r \in Requests, BillApply(r), job[r] \notin posted PROVE LedgerInv'
  <2> DEFINE n == Len(ledger)
             j == job[r]
  <2>1. /\ j \in Jobs /\ need[r] \in Nat /\ posted' = posted \cup {j} /\ creditsUsed'[j] = need[r]
        /\ \A k \in Jobs \ {j} : creditsUsed'[k] = creditsUsed[k]
        /\ \A k \in posted : creditsUsed'[k] = creditsUsed[k] /\ k # j
        /\ paid' = paid /\ j \notin posted
    <3>1. paid' = paid
      BY <1>3 DEF BillApply, orderVars
    <3>2. QED
      BY <1>0, <1>3, <3>1, BillEffect
  <2>2. CASE need[r] = 0
    <3>1. ledger' = ledger /\ live' = live
      BY <1>3, <2>2, BillEffect
    <3>2. QED
      BY <2>1, <2>2, <3>1 DEF LedgerInv, IsPost
  <2>3. CASE need[r] # 0
    <3>1. /\ Len(ledger') = n + 1 /\ \A i \in 1..n : ledger'[i] = ledger[i]
          /\ ledger'[n + 1].kind = "post" /\ ledger'[n + 1].ref = j
          /\ ledger'[n + 1].amount = need[r] /\ ledger'[n + 1].balance = live'
      <4>1. Appends("post", j, need[r], live') /\ live' \in Nat
        <5>1. Appends("post", j, need[r], live')
          BY <1>3, <2>3, BillEffect
        <5>2. live' \in Nat
          BY <1>3, <2>1, BillEffect, ChargeType
        <5>3. QED
          BY <5>1, <5>2
      <4>2. QED
        BY <2>1, <4>1, AppendType
    <3>2. \A i \in 1..n+1 : i \in 1..n \/ i = n + 1
      BY <1>0
    <3>3. \A i \in 1..n : IsPost(i)' <=> IsPost(i)
      BY <1>0, <3>1 DEF IsPost
    <3>4. \A i \in 1..n : i \in 1..n+1 /\ i # n + 1
      BY <1>0
    <3>5. \A i : i = n + 1 => i \in 1..Len(ledger') /\ IsPost(i)'
      BY <1>0, <3>1 DEF IsPost
    <3> HIDE DEF n, j
    <3>6. n \in Nat /\ n = Len(ledger)
      BY <1>0 DEF n
    <3>7. \A i \in 1..Len(ledger') : ledger'[i].kind = "purchase" => ledger'[i].ref \in paid'
      BY <2>1, <3>1, <3>2, <3>6 DEF LedgerInv
    <3>8. \A i \in 1..Len(ledger') :
            IsPost(i)' => /\ ledger'[i].ref \in posted' /\ ledger'[i].amount # 0
                          /\ ledger'[i].amount = creditsUsed'[ledger'[i].ref]
      BY <2>1, <2>3, <3>1, <3>2, <3>3, <3>6 DEF LedgerInv
    <3>9. \A i, k \in 1..Len(ledger') : IsPost(i)' /\ IsPost(k)' /\ ledger'[i].ref = ledger'[k].ref => i = k
      BY <2>1, <3>1, <3>2, <3>3, <3>6 DEF LedgerInv
    <3>10. \A k \in posted' : creditsUsed'[k] # 0 =>
              \E i \in 1..Len(ledger') : IsPost(i)' /\ ledger'[i].ref = k
      <4>1. ASSUME NEW k \in posted, creditsUsed'[k] # 0
            PROVE  \E i \in 1..Len(ledger') : IsPost(i)' /\ ledger'[i].ref = k
        BY <2>1, <3>1, <3>3, <3>4, <3>6, <4>1 DEF LedgerInv
      <4>2. \E i \in 1..Len(ledger') : IsPost(i)' /\ ledger'[i].ref = j
        BY <3>1, <3>5
      <4>3. QED
        BY <2>1, <4>1, <4>2
    <3>11. live' = IF Len(ledger') = 0 THEN Opening ELSE ledger'[Len(ledger')].balance
      BY <3>1, <3>6
    <3>12. QED
      BY <3>7, <3>8, <3>9, <3>10, <3>11 DEF LedgerInv
  <2>4. QED
    BY <2>2, <2>3
<1>4. QED
  BY <1>1, <1>2, <1>3, LedgerSteps

-----------------------------------------------------------------------------
(* A step leaves every other route where it is                             *)

Same(b) == /\ pc'[b] = pc[b] /\ token'[b] = token[b] /\ order'[b] = order[b] /\ job'[b] = job[b]
           /\ need'[b] = need[b] /\ snap'[b] = snap[b] /\ (b \in Orders => buy'[b] = buy[b])

LEMMA RouteAlone ==
  ASSUME TypeInv, NEW a \in Actors, Route(a), NEW b \in Actors, b # a
  PROVE  Same(b)
<1>0. TypeOK
  BY DEF TypeInv
<1>1. ASSUME NEW s, Goto(a, s) PROVE pc'[b] = pc[b]
  BY <1>0, <1>1 DEF Goto, TypeOK
<1>2. ASSUME NEW t \in Tokens, Quote(a, t) PROVE Same(b)
  BY <1>0, <1>1, <1>2 DEF Quote, Same, TypeOK, orderVars
<1>3. ASSUME NEW covered, Quoted(a, covered) PROVE Same(b)
  BY <1>0, <1>1, <1>3 DEF Quoted, Same, TypeOK, orderVars, actorVars
<1>4. ASSUME NEW have, Answer(a, have), UNCHANGED <<actorVars, snap>> PROVE Same(b)
  <2>1. \E s : Goto(a, s)
    BY <1>4 DEF Answer
  <2>2. b \in Orders => buy'[b] = buy[b]
    <3>1. CASE UNCHANGED orderVars
      BY <3>1 DEF orderVars
    <3>2. CASE buy' = [buy EXCEPT ![a] = Districts[job[a]] - have]
      BY <1>0, <3>2 DEF TypeOK
    <3>3. QED
      BY <1>4, <3>1, <3>2 DEF Answer
  <2>3. QED
    BY <1>1, <1>4, <2>1, <2>2 DEF Same, actorVars
<1>5. CASE Crash(a)
  BY <1>0, <1>1, <1>5 DEF Crash, Same, TypeOK, orderVars, actorVars
<1>6. QED
  BY <1>2, <1>3, <1>4, <1>5 DEF Route, QuotePlan, QuotePlanFails, QuoteBalance, QuoteBalanceFails

LEMMA PostingAlone ==
  ASSUME TypeInv, NEW a \in Requests, Posting(a), NEW b \in Actors, b # a
  PROVE  Same(b)
<1>0. TypeOK /\ a \in Actors
  BY DEF TypeInv, Actors
<1>1. ASSUME NEW s, Goto(a, s) PROVE pc'[b] = pc[b]
  BY <1>0, <1>1 DEF Goto, TypeOK
<1>2. ASSUME NEW o \in Orders, Verify(a, o) PROVE Same(b)
  BY <1>0, <1>1, <1>2 DEF Verify, Same, TypeOK, orderVars
<1>3. ASSUME NEW s, Goto(a, s), UNCHANGED <<buy, actorVars, snap>> PROVE Same(b)
  BY <1>1, <1>3 DEF Same, actorVars
<1>4. CASE Finalize(a)
  BY <1>0, <1>1, <1>4 DEF Finalize, Same, TypeOK, orderVars
<1>5. ASSUME NEW covered, Covered(a, covered) PROVE Same(b)
  BY <1>0, <1>1, <1>5 DEF Covered, Same, TypeOK, orderVars
<1>6. CASE ReadRecord(a)
  <2>1. snap'[b] = snap[b] /\ pc'[b] = pc[b]
    BY <1>0, <1>1, <1>6 DEF ReadRecord, TypeOK
  <2>2. QED
    BY <1>6, <2>1 DEF ReadRecord, Same, orderVars, actorVars
<1>7. CASE WriteRecord(a)
  BY <1>0, <1>1, <1>7 DEF WriteRecord, Same, TypeOK, orderVars, actorVars
<1>8. CASE \/ LoadPending(a) \/ PurchaseCheck(a) \/ PurchaseApply(a) \/ PurchaseFails(a)
           \/ ClearDraft(a) \/ BillCheck(a) \/ BillApply(a) \/ BillFails(a) \/ ClearOrder(a)
  <2>1. UNCHANGED <<buy, actorVars, snap>> /\ \E s : Goto(a, s)
    BY <1>8 DEF LoadPending, PurchaseCheck, PurchaseApply, PurchaseFails, ClearDraft, BillCheck,
       BillApply, BillFails, ClearOrder, orderVars
  <2>2. QED
    BY <1>3, <2>1
<1>9. QED
  BY <1>2, <1>4, <1>5, <1>6, <1>7, <1>8 DEF Posting, Cover, CoverFails

(* Only the form submission, the checkout and the loss of the record are   *)
(* no route's step.                                                        *)
LEMMA Mover ==
  ASSUME TypeInv, [Next]_vars, NEW a \in Actors
  PROVE  Same(a) \/ Route(a) \/ (a \in Requests /\ Posting(a))
<1>1. CASE (\E j \in Jobs : Submit(j)) \/ (\E o \in Orders : Pay(o)) \/ LoseRecord \/ UNCHANGED vars
  BY <1>1 DEF Submit, Pay, LoseRecord, vars, Same, orderVars, actorVars
<1>2. ASSUME NEW b \in Actors, Route(b) PROVE Same(a) \/ Route(a)
  BY <1>2, RouteAlone
<1>3. ASSUME NEW b \in Requests, Posting(b) PROVE Same(a) \/ (a \in Requests /\ Posting(a))
  BY <1>3, PostingAlone
<1>4. QED
  BY <1>1, <1>2, <1>3 DEF Next

-----------------------------------------------------------------------------
(* What a route may count on until it charges                              *)

(* The record goes only by a fault. *)
NoLoss == employer = NoRecord => faults["recordLost"] > 0

LEMMA NoLossStep ==
  ASSUME TypeInv, NoLoss, [Next]_vars
  PROVE  NoLoss'
<1>0. TypeOK /\ faults["recordLost"] \in Nat /\ faults'["recordLost"] \in Nat
      /\ faults["recordLost"] <= faults'["recordLost"]
  BY Grows DEF TypeInv
<1>1. CASE employer' = employer
  BY <1>0, <1>1 DEF NoLoss
<1>2. CASE LoseRecord
  <2>1. faults'["recordLost"] = faults["recordLost"] + 1
    BY <1>0, <1>2, FaultType DEF LoseRecord
  <2>2. QED
    BY <1>0, <2>1 DEF NoLoss
<1>3. ASSUME NEW r \in Requests, WriteRecord(r) PROVE NoLoss'
  <2>1. r \in Actors
    BY DEF Actors
  <2>2. snap[r] \in EmployerRecord /\ pc[r] \in Updates /\ employer' = Edit(r, snap[r])
    BY <1>0, <1>3, <2>1 DEF WriteRecord, TypeOK
  <2>3. employer' \in EmployerRecord
    BY <2>2, EditType
  <2>4. QED
    BY <2>3, NoneAssumption DEF NoLoss
<1>4. ASSUME NEW a \in Actors, Route(a) PROVE employer' = employer
  BY <1>4 DEF Route, Quote, QuotePlan, QuotePlanFails, Quoted, QuoteBalance, QuoteBalanceFails, Crash
<1>5. ASSUME NEW r \in Requests, Posting(r) PROVE employer' = employer \/ WriteRecord(r)
  BY <1>5 DEF Posting, Verify, LoadPending, PurchaseCheck, PurchaseApply, PurchaseFails, Finalize,
     Cover, CoverFails, Covered, ReadRecord, ClearDraft, BillCheck, BillApply, BillFails, ClearOrder
<1>6. QED
  BY <1>1, <1>2, <1>3, <1>4, <1>5 DEF Next, Submit, Pay, vars

(* A link in use has been submitted through. *)
ServedInv == \A a \in Actors : pc[a] # "idle" => \E k \in submitted : Link[k] = token[a]

LEMMA ServedStep ==
  ASSUME TypeInv, ServedInv, [Next]_vars
  PROVE  ServedInv'
<1> SUFFICES ASSUME NEW a \in Actors, pc'[a] # "idle"
             PROVE  \E k \in submitted' : Link[k] = token'[a]
  BY DEF ServedInv
<1>0. TypeOK /\ DraftInv /\ PlaceInv(a) /\ submitted \subseteq submitted'
  BY Grows DEF TypeInv
<1>1. CASE pc[a] # "idle" /\ token'[a] = token[a]
  BY <1>0, <1>1 DEF ServedInv
<1>2. CASE Same(a)
  BY <1>1, <1>2 DEF Same
<1>3. ASSUME NEW t \in Tokens, Quote(a, t) PROVE \E k \in submitted' : Link[k] = token'[a]
  <2>1. token'[a] = t /\ draft[t] \in submitted /\ Link[draft[t]] = t
    BY <1>0, <1>3 DEF Quote, TypeOK, DraftInv
  <2>2. QED
    BY <1>0, <2>1
<1>4. ASSUME NEW o \in Orders, Verify(a, o) PROVE \E k \in submitted' : Link[k] = token'[a]
  <2>1. token'[a] = token[o] /\ o \in paid /\ o \in Actors
    BY <1>0, <1>4 DEF Verify, TypeOK, Actors
  <2>2. pc[o] # "idle"
    BY <2>1 DEF TypeInv, PlaceInv
  <2>3. QED
    BY <1>0, <2>1, <2>2 DEF ServedInv
<1>5. ASSUME Route(a) PROVE (\E t \in Tokens : Quote(a, t)) \/ (pc[a] # "idle" /\ token'[a] = token[a])
  BY <1>5 DEF Route, QuotePlan, QuotePlanFails, Quoted, QuoteBalance, QuoteBalanceFails, Crash,
     InProgress, Steps, Updates, actorVars
<1>6. ASSUME a \in Requests, Posting(a)
      PROVE  (\E o \in Orders : Verify(a, o)) \/ (pc[a] # "idle" /\ token'[a] = token[a])
  BY <1>6 DEF Posting, LoadPending, PurchaseCheck, PurchaseApply, PurchaseFails, Finalize,
     Cover, CoverFails, Covered, ReadRecord, WriteRecord, ClearDraft, BillCheck, BillApply, BillFails,
     ClearOrder, Updates, actorVars
<1>7. QED
  BY <1>1, <1>2, <1>3, <1>4, <1>5, <1>6, Mover

Charging == {"debit", "list", "last", "clearDraft", "bill", "billApply"}

(* Once a route has quoted the job, and until it charges it, the plan's    *)
(* free slot or the wallet covers the price; a bought shortfall counts     *)
(* from its order on, whether or not the purchase is credited yet.         *)
Funded(a, j) ==
  /\ pc[a] \in {"finalize", "cover"} => CoveredNow(j) \/ Districts[j] <= live
  /\ pc[a] \in Charging => need[a] <= live
  /\ a \in Orders /\ pc[a] = "offered" => Districts[j] <= live + (IF Bought(a) THEN 0 ELSE buy[a])

FundsInv == \A a \in Actors, j \in submitted : Link[j] = token[a] /\ ~Excused(j) => Funded(a, j)

(* The form's job is the one a route works on: another excuses it.         *)
LEMMA OnlyJob ==
  ASSUME TypeInv, NEW a \in Actors, NEW j \in submitted, Link[j] = token[a], ~Excused(j),
         pc[a] \in Working
  PROVE  job[a] = j
BY DEF TypeInv, PlaceInv, Excused

(* Without an excuse nothing has failed. *)
LEMMA NoFault ==
  ASSUME TypeInv, NoLoss, [Next]_vars, NEW j, ~Excused(j)'
  PROVE  /\ ~Excused(j) /\ \A k \in FaultKinds : ~Fault(k)
         /\ employer # NoRecord /\ employer' # NoRecord
<1>1. ~Excused(j)
  BY ExcusedGrows
<1>2. \A k \in FaultKinds : ~Fault(k)
  BY FaultExcuses DEF TypeInv
<1>3. employer # NoRecord
  BY <1>1 DEF NoLoss, Excused
<1>4. NoLoss'
  BY NoLossStep
<1>5. employer' # NoRecord
  BY <1>4 DEF NoLoss, Excused
<1>6. QED
  BY <1>1, <1>2, <1>3, <1>5

(* A purchase stays in the ledger. *)
LEMMA BoughtGrows ==
  ASSUME TypeInv, [Next]_vars, NEW o \in Orders, Bought(o)
  PROVE  Bought(o)'
<1>1. PICK i \in 1..Len(ledger) : ledger[i].kind = "purchase" /\ ledger[i].ref = o
  BY DEF Bought, Purchases
<1>2. i \in 1..Len(ledger') /\ ledger'[i] = ledger[i]
  BY <1>1, Grows
<1>3. QED
  BY <1>1, <1>2 DEF Bought, Purchases

(* A step of somebody else takes nothing of what a route counts on.        *)
LEMMA FundedStill ==
  ASSUME TypeInv, OneRoute, [Next]_vars, NEW a \in Actors, Same(a), NEW j \in submitted,
         Funded(a, j), ~Excused(j)', employer # NoRecord, employer' # NoRecord
  PROVE  Funded(a, j)'
<1>0. /\ live \in Nat /\ need[a] \in Nat /\ Districts[j] \in Nat /\ (a \in Orders => buy[a] \in Nat)
      /\ submitted \subseteq Jobs
  BY DistrictsAssumption DEF TypeInv, TypeOK
<1>1. CASE UNCHANGED liveVars
  <2>1. CoveredNow(j)' = CoveredNow(j) /\ Bought(a)' = Bought(a)
    BY <1>1 DEF CoveredNow, PlanCovers, Bought, Purchases, liveVars
  <2>2. QED
    BY <1>1, <2>1 DEF Funded, Same, liveVars
<1>2. ASSUME NEW r \in Requests, PurchaseApply(r) PROVE Funded(a, j)'
  <2>1. live' \in Nat /\ live <= live' /\ posted' = posted
    BY <1>2, PurchaseEffect
  <2>2. CoveredNow(j)' = CoveredNow(j)
    BY <2>1 DEF CoveredNow, PlanCovers
  <2>3. a \in Orders => (Bought(a) => Bought(a)')
    BY BoughtGrows
  <2>4. pc'[a] \in {"finalize", "cover"} => CoveredNow(j)' \/ Districts[j] <= live'
    BY <1>0, <2>1, <2>2 DEF Funded, Same
  <2>5. pc'[a] \in Charging => need'[a] <= live'
    BY <1>0, <2>1 DEF Funded, Same
  <2>6. ASSUME a \in Orders, pc'[a] = "offered"
        PROVE  Districts[j] <= live' + (IF Bought(a)' THEN 0 ELSE buy'[a])
    <3>1. pc[a] = "offered" /\ buy'[a] = buy[a]
      BY <2>6 DEF Same
    <3>2. CASE Bought(a)
      <4>1. Districts[j] <= live /\ Bought(a)'
        BY <1>0, <2>3, <2>6, <3>1, <3>2 DEF Funded
      <4>2. QED
        BY <1>0, <2>1, <4>1
    <3>3. CASE ~Bought(a) /\ ~Bought(a)'
      <4>1. Districts[j] <= live + buy[a]
        BY <1>0, <2>6, <3>1, <3>3 DEF Funded
      <4>2. QED
        BY <1>0, <2>1, <2>6, <3>1, <3>3, <4>1
    <3>4. CASE ~Bought(a) /\ Bought(a)'
      <4>1. Districts[j] <= live + buy[a]
        BY <1>0, <2>6, <3>1, <3>4 DEF Funded
      <4>2. live' = live + buy[order[r]] /\ Appends("purchase", order[r], buy[order[r]], live')
            /\ order[r] \in Orders /\ buy[order[r]] \in Nat
        BY <1>2, PurchaseEffect
      <4>3. order[r] = a
        <5>1. PICK i \in 1..Len(ledger') : ledger'[i].kind = "purchase" /\ ledger'[i].ref = a
          BY <3>4 DEF Bought, Purchases
        <5>2. /\ Len(ledger) \in Nat /\ Len(ledger') = Len(ledger) + 1
              /\ \A k \in 1..Len(ledger) : ledger'[k] = ledger[k]
              /\ ledger'[Len(ledger')].ref = order[r]
          BY <2>1, <4>2, AppendType
        <5>3. i \notin 1..Len(ledger)
          BY <3>4, <5>1, <5>2 DEF Bought, Purchases
        <5>4. i = Len(ledger')
          BY <5>1, <5>2, <5>3
        <5>5. QED
          BY <5>1, <5>2, <5>4
      <4>4. QED
        BY <1>0, <2>6, <3>4, <4>1, <4>2, <4>3
    <3>5. QED
      BY <3>2, <3>3, <3>4
  <2>7. QED
    BY <2>4, <2>5, <2>6 DEF Funded
<1>3. ASSUME NEW r \in Requests, BillApply(r), job[r] \notin posted PROVE Funded(a, j)'
  <2>1. /\ r \in Actors /\ job[r] \in Jobs /\ need[r] \in Nat /\ creditsUsed'[job[r]] = need[r]
        /\ posted' = posted \cup {job[r]}
        /\ need[r] = 0 => ledger' = ledger /\ live' = live
        /\ need[r] # 0 => Appends("post", job[r], need[r], live')
    BY <1>3, BillEffect
  <2>2. need[r] = 0
    <3>1. SUFFICES ASSUME need[r] # 0 PROVE FALSE
      OBVIOUS
    <3>2. live' \in Nat
      BY <1>3, <2>1, BillEffect, ChargeType
    <3>3. Len(ledger') \in Nat /\ Len(ledger') = Len(ledger) + 1 /\ Len(ledger) \in Nat
          /\ ledger'[Len(ledger')].kind = "post"
      BY <2>1, <3>1, <3>2, AppendType
    <3>4. \E i \in 1..Len(ledger') : i \in 1..Len(ledger') /\ ledger'[i].kind = "post"
      BY <3>3
    <3>5. QED
      BY <3>4 DEF Excused, IsPost
  <2>3. ~overlapped
    <3>1. ~overlapped' \/ \A k \in posted' : creditsUsed'[k] # 0
      BY DEF Excused
    <3>2. QED
      BY <2>1, <2>2, <3>1, Grows
  <2>4. pc[r] = "billApply" /\ pc'[r] # "billApply"
    BY <1>3, <2>1 DEF BillApply, Goto, Finished, TypeInv, TypeOK
  <2>5. pc[a] \notin {"finalize", "cover"}
    <3>1. InProgress(r)
      BY <2>4, Places DEF InProgress
    <3>2. pc[a] \in {"finalize", "cover"} => InProgress(a)
      BY Places DEF InProgress
    <3>3. a # r
      BY <2>4 DEF Same
    <3>4. QED
      BY <2>1, <2>3, <3>1, <3>2, <3>3 DEF OneRoute
  <2>6. Bought(a)' = Bought(a)
    BY <2>1, <2>2 DEF Bought, Purchases
  <2>7. QED
    BY <2>1, <2>2, <2>5, <2>6 DEF Funded, Same
<1>4. QED
  BY <1>1, <1>2, <1>3, LedgerSteps

(* Only a paid order is in the ledger. *)
LEMMA BoughtPaid ==
  ASSUME LedgerInv, NEW o, Bought(o)
  PROVE  o \in paid
BY DEF LedgerInv, Bought, Purchases

(* Only a form submission submits a job. *)
LEMMA SubmitOnly ==
  ASSUME TypeInv, [Next]_vars, NEW j \in submitted' \ submitted
  PROVE  Submit(j)
<1>1. ASSUME NEW a \in Actors, Route(a) PROVE submitted' = submitted
  BY <1>1 DEF Route, Quote, QuotePlan, QuotePlanFails, Quoted, QuoteBalance, QuoteBalanceFails, Crash
<1>2. ASSUME NEW r \in Requests, Posting(r) PROVE submitted' = submitted
  BY <1>2 DEF Posting, Verify, LoadPending, PurchaseCheck, PurchaseApply, PurchaseFails, Finalize,
     Cover, CoverFails, Covered, ReadRecord, WriteRecord, ClearDraft, BillCheck, BillApply, BillFails,
     ClearOrder
<1>3. ASSUME NEW k \in Jobs, Submit(k) PROVE Submit(j)
  <2>1. j = k
    BY <1>3 DEF Submit
  <2>2. QED
    BY <1>3, <2>1
<1>4. QED
  BY <1>1, <1>2, <1>3 DEF Next, Pay, LoseRecord, vars

(* A route's own step: it goes on only with what it has just asked for.    *)
LEMMA FundedQuote ==
  ASSUME TypeInv, LedgerInv, NEW a \in Actors, Route(a), NEW j \in submitted, Link[j] = token'[a],
         ~Excused(j), \A k \in FaultKinds : ~Fault(k), employer # NoRecord
  PROVE  Funded(a, j)'
<1>0. /\ TypeOK /\ PlaceInv(a) /\ live \in Nat /\ Districts[j] \in Nat
      /\ (a \in Orders => a \notin Requests)
  BY DistrictsAssumption, ActorsAssumption DEF TypeInv, TypeOK
<1>1. ASSUME NEW s, Goto(a, s) PROVE pc'[a] = s
  BY <1>0, <1>1 DEF Goto, TypeOK
<1>2. ASSUME NEW t \in Tokens, Quote(a, t) PROVE Funded(a, j)'
  <2>1. pc'[a] = "plan"
    BY <1>1, <1>2 DEF Quote
  <2>2. QED
    BY <2>1 DEF Funded, Charging
<1>3. CASE QuotePlan(a)
  <2>1. /\ pc[a] = "plan" /\ UNCHANGED <<employer, posted, live>> /\ token'[a] = token[a]
        /\ pc'[a] \in {"balance", "sufficient"} \/ (pc'[a] = "finalize" /\ CoveredNow(job[a]))
    BY <1>1, <1>3 DEF QuotePlan, Quoted, liveVars, actorVars
  <2>2. job[a] = j
    BY <2>1, OnlyJob DEF Working
  <2>3. CoveredNow(j)' = CoveredNow(j)
    BY <2>1 DEF CoveredNow, PlanCovers
  <2>4. QED
    BY <2>1, <2>2, <2>3 DEF Funded, Charging
<1>4. CASE QuoteBalance(a)
  <2>1. pc[a] = "balance" /\ Answer(a, live) /\ UNCHANGED <<employer, liveVars, actorVars>>
    BY <1>4 DEF QuoteBalance
  <2>2. job[a] = j
    BY <2>1, OnlyJob DEF Working, actorVars
  <2>3. CASE Districts[j] <= live /\ Goto(a, IF a \in Orders THEN "sufficient" ELSE "finalize")
    BY <1>1, <2>1, <2>3 DEF Funded, Charging, liveVars
  <2>4. CASE Goto(a, "refused")
    BY <1>1, <2>4 DEF Funded, Charging
  <2>5. CASE a \in Orders /\ Districts[j] > live /\ Goto(a, "offered")
             /\ buy' = [buy EXCEPT ![a] = Districts[j] - live]
    <3>1. pc'[a] = "offered" /\ buy'[a] = Districts[j] - live /\ live' = live
      BY <1>0, <1>1, <2>1, <2>5 DEF TypeOK, liveVars
    <3>2. ~Bought(a)'
      <4>1. ~Bought(a)
        <5>1. a \notin paid
          BY <1>0, <2>1 DEF PlaceInv
        <5>2. QED
          BY <1>0, <2>5, <5>1, BoughtPaid
      <4>2. QED
        BY <2>1, <4>1 DEF Bought, Purchases, liveVars
    <3>3. QED
      BY <1>0, <3>1, <3>2 DEF Funded, Charging
  <2>6. QED
    BY <2>1, <2>2, <2>3, <2>4, <2>5 DEF Answer
<1>5. QED
  BY <1>2, <1>3, <1>4 DEF Route, QuotePlanFails, QuoteBalanceFails, Crash

LEMMA FundedPosting ==
  ASSUME TypeInv, FundsInv, NEW a \in Requests, Posting(a), NEW j \in submitted, Link[j] = token'[a],
         ~Excused(j), \A k \in FaultKinds : ~Fault(k), employer # NoRecord, employer' # NoRecord
  PROVE  Funded(a, j)'
<1>0. /\ TypeOK /\ a \in Actors /\ a \notin Orders /\ PlaceInv(a) /\ live \in Nat /\ Districts[j] \in Nat
      /\ need[a] \in Nat /\ Orders \subseteq Actors
  BY DistrictsAssumption, ActorsAssumption DEF TypeInv, TypeOK, Actors
<1>1. ASSUME NEW s, Goto(a, s) PROVE pc'[a] = s
  BY <1>0, <1>1 DEF Goto, TypeOK
<1>2. ASSUME NEW s, Goto(a, s), s \notin {"finalize", "cover"} \cup Charging PROVE Funded(a, j)'
  BY <1>0, <1>1, <1>2 DEF Funded
<1>3. ASSUME token'[a] = token[a] PROVE Funded(a, j)
  BY <1>0, <1>3 DEF FundsInv
<1>4. ASSUME NEW o \in Orders, Verify(a, o) PROVE Funded(a, j)'
  BY <1>2, <1>4 DEF Verify, Charging
<1>5. CASE LoadPending(a)
  BY <1>2, <1>5 DEF LoadPending, Charging
<1>6. ASSUME token'[a] = token[a], pc[a] \in {"purchase", "purchaseApply"}
      PROVE  /\ order[a] \in Orders /\ buy[order[a]] \in Nat
             /\ Districts[j] <= live + (IF Bought(order[a]) THEN 0 ELSE buy[order[a]])
  <2>1. order[a] \in Orders /\ order[a] \in paid /\ token[order[a]] = token[a]
    BY <1>0, <1>6 DEF PlaceInv, Ordering, TypeOK
  <2>2. pc[order[a]] = "offered" /\ order[a] \in Actors
    BY <1>0, <2>1 DEF TypeInv, PlaceInv
  <2>3. Funded(order[a], j)
    BY <1>6, <2>1, <2>2 DEF FundsInv
  <2>4. QED
    BY <1>0, <2>1, <2>2, <2>3 DEF Funded, TypeOK
<1>7. CASE PurchaseCheck(a)
  <2>1. /\ pc[a] = "purchase" /\ token'[a] = token[a] /\ live' = live
        /\ Goto(a, IF ~Bought(order[a]) THEN "purchaseApply" ELSE "finalize")
    BY <1>7 DEF PurchaseCheck, actorVars, liveVars
  <2>2. CASE ~Bought(order[a])
    BY <1>2, <2>1, <2>2 DEF Charging
  <2>3. CASE Bought(order[a])
    <3>1. pc'[a] = "finalize" /\ Districts[j] <= live
      BY <1>0, <1>1, <1>6, <2>1, <2>3
    <3>2. QED
      BY <1>0, <2>1, <3>1 DEF Funded, Charging
  <2>4. QED
    BY <2>2, <2>3
<1>8. CASE PurchaseApply(a)
  <2>1. pc[a] = "purchaseApply" /\ token'[a] = token[a] /\ live' = live + buy[order[a]] /\ pc'[a] = "finalize"
    BY <1>1, <1>8 DEF PurchaseApply, actorVars
  <2>2. Districts[j] <= live'
    BY <1>0, <1>6, <2>1
  <2>3. QED
    BY <1>0, <2>1, <2>2 DEF Funded, Charging
<1>9. CASE Finalize(a)
  <2>1. pc[a] = "finalize" /\ UNCHANGED <<employer, liveVars, token>>
        /\ \E s : Goto(a, s) /\ (s = "cover" \/ s = Finished(a))
    BY <1>9 DEF Finalize
  <2>2. Funded(a, j)
    BY <1>3, <2>1
  <2>3. CoveredNow(j)' = CoveredNow(j) /\ live' = live
    BY <2>1 DEF CoveredNow, PlanCovers, liveVars
  <2>4. QED
    BY <1>0, <1>1, <2>1, <2>2, <2>3 DEF Funded, Charging, Finished
<1>10. CASE Cover(a)
  <2>1. /\ pc[a] = "cover" /\ UNCHANGED <<liveVars, token>>
        /\ need' = [need EXCEPT ![a] = IF CoveredNow(job[a]) THEN 0 ELSE Districts[job[a]]]
        /\ Goto(a, IF CoveredNow(job[a]) THEN "list" ELSE "debit")
    BY <1>10 DEF Cover, Covered
  <2>2. Funded(a, j)
    BY <1>3, <2>1
  <2>3. job[a] = j
    BY <1>0, <2>1, OnlyJob DEF Working, Finalizing
  <2>4. need'[a] = (IF CoveredNow(j) THEN 0 ELSE Districts[j]) /\ live' = live
    BY <1>0, <2>1, <2>3 DEF TypeOK, liveVars
  <2>5. need'[a] <= live'
    BY <1>0, <2>1, <2>2, <2>4 DEF Funded
  <2>6. pc'[a] \in {"list", "debit"}
    BY <1>1, <2>1
  <2>7. QED
    BY <1>0, <2>5, <2>6 DEF Funded
<1>11. ASSUME pc[a] \in Charging, UNCHANGED <<live, token, need>>, pc'[a] \notin {"finalize", "cover"}
       PROVE  Funded(a, j)'
  BY <1>0, <1>3, <1>11 DEF Funded
<1>12. CASE ReadRecord(a)
  <2>1. UNCHANGED <<live, token, need, pc>> /\ pc[a] \in Updates
    BY <1>12 DEF ReadRecord, liveVars, actorVars
  <2>2. CASE pc[a] = "credit"
    BY <1>0, <2>1, <2>2 DEF Funded, Charging
  <2>3. CASE pc[a] # "credit"
    BY <1>11, <2>1, <2>3 DEF Updates, Charging
  <2>4. QED
    BY <2>2, <2>3
<1>13. CASE WriteRecord(a)
  <2>1. UNCHANGED <<live, token, need>> /\ pc[a] \in Updates /\ pc'[a] = After(a)
    BY <1>1, <1>13 DEF WriteRecord, liveVars, actorVars
  <2>2. CASE pc[a] = "credit"
    <3>1. pc'[a] = "purchase"
      BY <2>1, <2>2, AfterType
    <3>2. QED
      BY <1>0, <3>1 DEF Funded, Charging
  <2>3. CASE pc[a] # "credit"
    <3>1. pc'[a] \in {"list", "last", "clearDraft"} /\ pc[a] \in Charging
      BY <2>1, <2>3, AfterType DEF Updates, Charging
    <3>2. QED
      BY <1>11, <2>1, <3>1
  <2>4. QED
    BY <2>2, <2>3
<1>14. CASE ClearDraft(a)
  BY <1>1, <1>11, <1>14 DEF ClearDraft, Charging, liveVars, actorVars
<1>15. CASE BillCheck(a)
  <2>1. pc[a] = "bill" /\ UNCHANGED <<live, token, need>> /\ pc'[a] \notin {"finalize", "cover"}
    BY <1>1, <1>15 DEF BillCheck, Finished, liveVars, actorVars
  <2>2. QED
    BY <1>11, <2>1 DEF Charging
<1>16. CASE BillApply(a) \/ ClearOrder(a)
  BY <1>2, <1>16 DEF BillApply, ClearOrder, Finished, Charging
<1>17. QED
  BY <1>4, <1>5, <1>7, <1>8, <1>9, <1>10, <1>12, <1>13, <1>14, <1>15, <1>16
     DEF Posting, PurchaseFails, CoverFails, BillFails

LEMMA FundsStep ==
  ASSUME TypeInv, NoLoss, OneRoute, LedgerInv, ServedInv, FundsInv, [Next]_vars
  PROVE  FundsInv'
<1> SUFFICES ASSUME NEW a \in Actors, NEW j \in submitted', Link[j] = token'[a], ~Excused(j)'
             PROVE  Funded(a, j)'
  BY DEF FundsInv
<1>1. ~Excused(j) /\ (\A k \in FaultKinds : ~Fault(k)) /\ employer # NoRecord /\ employer' # NoRecord
  BY NoFault
<1>2. CASE j \in submitted
  <2>1. CASE Same(a)
    BY <1>1, <1>2, <2>1, FundedStill DEF FundsInv, Same
  <2>2. QED
    BY <1>1, <1>2, <2>1, Mover, FundedQuote, FundedPosting
<1>3. CASE j \notin submitted
  <2>1. Submit(j)
    BY <1>3, SubmitOnly
  <2>2. pc'[a] = pc[a] /\ token'[a] = token[a] /\ submitted' = submitted \cup {j}
    BY <2>1 DEF Submit, actorVars
  <2>3. pc[a] = "idle"
    BY <1>3, <2>2 DEF ServedInv, Excused
  <2>4. QED
    BY <2>2, <2>3 DEF Funded, Charging
<1>4. QED
  BY <1>2, <1>3

LEMMA WithinStep ==
  ASSUME TypeInv, LedgerInv, FundsInv, WithinInv, [Next]_vars
  PROVE  WithinInv'
<1> SUFFICES ASSUME NEW i \in 1..Len(ledger'), ledger'[i].kind = "post" PROVE Within(i)'
  BY DEF WithinInv, IsPost
<1>0. TypeOK /\ Len(ledger) \in Nat
  BY DEF TypeInv, TypeOK
<1>1. CASE i \in 1..Len(ledger)
  <2>1. IsPost(i)
    BY <1>1, Grows DEF IsPost
  <2>2. QED
    BY <1>1, <2>1, WithinGrows DEF WithinInv
<1>2. CASE i \notin 1..Len(ledger)
  <2>1. ASSUME NEW r \in Requests, PurchaseApply(r) PROVE FALSE
    <3>1. order[r] \in Orders /\ buy[order[r]] \in Nat /\ live' \in Nat
          /\ Appends("purchase", order[r], buy[order[r]], live')
      BY <2>1, PurchaseEffect
    <3>2. Len(ledger') = Len(ledger) + 1 /\ ledger'[Len(ledger')].kind = "purchase"
      BY <3>1, AppendType
    <3>3. QED
      BY <1>0, <1>2, <3>2
  <2>2. ASSUME NEW r \in Requests, BillApply(r), job[r] \notin posted PROVE Within(i)'
    <3>1. /\ r \in Actors /\ job[r] \in Jobs /\ need[r] \in Nat
          /\ need[r] = 0 => ledger' = ledger
          /\ need[r] # 0 => Appends("post", job[r], need[r], live')
          /\ posted' = posted \cup {job[r]} /\ UNCHANGED <<overlapped, faults, submitted>>
      BY <2>2, BillEffect DEF BillApply, history
    <3>2. live' \in Nat
      BY <2>2, <3>1, BillEffect, ChargeType
    <3>3. need[r] # 0
      BY <1>2, <3>1
    <3>4. /\ Len(ledger') = Len(ledger) + 1 /\ \A k \in 1..Len(ledger) : ledger'[k] = ledger[k]
          /\ ledger'[Len(ledger')].ref = job[r] /\ ledger'[Len(ledger')].amount = need[r]
      BY <3>1, <3>2, <3>3, AppendType
    <3>5. i = Len(ledger')
      BY <1>0, <1>2, <3>4
    <3>6. ledger'[i].ref = job[r] /\ ledger'[i].amount = need[r] /\ i = Len(ledger) + 1
      BY <3>4, <3>5
    <3>7. /\ pc[r] = "billApply" /\ job[r] \in submitted /\ Link[job[r]] = token[r]
      BY <2>2, <3>1 DEF BillApply, TypeInv, PlaceInv, Working, Finalizing
    <3>8. CASE ~Excused(job[r])
      <4>1. need[r] <= live
        BY <3>1, <3>7, <3>8 DEF FundsInv, Funded, Charging
      <4>2. live = IF i = 1 THEN Opening ELSE ledger'[i - 1].balance
        <5>1. live = IF Len(ledger) = 0 THEN Opening ELSE ledger[Len(ledger)].balance
          BY DEF LedgerInv
        <5>2. i # 1 => ledger'[i - 1] = ledger[Len(ledger)] /\ Len(ledger) # 0
          BY <1>0, <3>4, <3>6
        <5>3. i = 1 => Len(ledger) = 0
          BY <1>0, <3>6
        <5>4. QED
          BY <5>1, <5>2, <5>3
      <4>3. QED
        BY <3>6, <4>1, <4>2 DEF Within
    <3>9. CASE Excused(job[r])
      <4>1. CASE \E k \in 1..Len(ledger) : IsPost(k)
        <5>1. PICK k \in 1..Len(ledger) : ledger[k].kind = "post"
          BY <4>1 DEF IsPost
        <5>2. k \in 1..Len(ledger') /\ k < i /\ ledger'[k].kind = "post"
          BY <1>0, <3>4, <3>6, <5>1
        <5>3. QED
          BY <5>2 DEF Within, IsPost
      <4>2. CASE \E k \in submitted \ {job[r]} : Link[k] = Link[job[r]]
        BY <3>1, <3>6, <4>2 DEF Within
      <4>3. CASE overlapped /\ \E k \in posted : creditsUsed[k] = 0
        <5>1. overlapped' /\ \E k \in posted' : creditsUsed'[k] = 0
          BY <4>3, Grows
        <5>2. QED
          BY <5>1 DEF Within
      <4>4. CASE \E k \in FaultKinds : faults[k] > 0
        BY <3>1, <4>4 DEF Within
      <4>5. QED
        BY <3>9, <4>1, <4>2, <4>3, <4>4 DEF Excused
    <3>10. QED
      BY <3>8, <3>9
  <2>3. QED
    BY <1>2, <2>1, <2>2, LedgerSteps DEF liveVars
<1>3. QED
  BY <1>1, <1>2

ChargeInv == TypeInv /\ NoLoss /\ OneRoute /\ LedgerInv /\ ServedInv /\ FundsInv /\ WithinInv

LEMMA ChargeInit == Init => ChargeInv
<1> SUFFICES ASSUME Init PROVE ChargeInv
  OBVIOUS
<1>1. TypeInv
  BY TypeInit
<1>2. employer # NoRecord /\ submitted = {} /\ ledger = <<>> /\ posted = {} /\ live = Opening
      /\ \A a \in Actors : pc[a] = "idle"
  <2>1. employer \in EmployerRecord
    BY CountsAssumption DEF Init, EmployerRecord
  <2>2. QED
    BY <2>1, NoneAssumption DEF Init
<1>3. NoLoss /\ ServedInv /\ FundsInv
  BY <1>2 DEF NoLoss, ServedInv, FundsInv
<1>4. LedgerInv /\ WithinInv
  <2>1. Len(ledger) = 0 /\ \A i \in 1..Len(ledger) : FALSE
    BY <1>2
  <2>2. QED
    BY <1>2, <2>1 DEF LedgerInv, WithinInv
<1>5. OneRoute
  BY <1>2, Places DEF OneRoute, InProgress
<1>6. QED
  BY <1>1, <1>3, <1>4, <1>5 DEF ChargeInv

LEMMA ChargeStep == ChargeInv /\ [Next]_vars => ChargeInv'
BY TypeStep, NoLossStep, OneRouteStep, LedgerStep, ServedStep, FundsStep, WithinStep DEF ChargeInv

LEMMA ChargeInvariant == Spec => []ChargeInv
BY ChargeInit, ChargeStep, PTL DEF Spec

(* post_job_with_billing charges the live wallet for a job once, by what   *)
(* its private_jobs row shows and never without the row, and the balance   *)
(* covers the charge unless a fault, an earlier charge, a second form or   *)
(* an overlapping free post came between the quote and the charge.         *)
THEOREM ChargedAtMostOnce == Spec => []ChargedOnce
<1>1. ChargeInv => ChargedOnce
  <2> SUFFICES ASSUME ChargeInv PROVE ChargedOnce
    OBVIOUS
  <2>0. TypeOK /\ LedgerInv /\ WithinInv /\ ledger \in Seq(LedgerRow) /\ Len(ledger) \in Nat
    BY DEF ChargeInv, TypeInv, TypeOK
  <2>1. \A i : i \in Posts <=> i \in 1..Len(ledger) /\ IsPost(i)
    BY DEF Posts, IsPost
  <2>2. \A i, k \in Posts : ledger[i].ref = ledger[k].ref => i = k
    BY <2>0, <2>1 DEF LedgerInv
  <2>3. ASSUME NEW j \in Jobs
        PROVE  (j \in posted /\ creditsUsed[j] > 0) <=>
                 \E i \in Posts : ledger[i].ref = j /\ ledger[i].amount = creditsUsed[j]
    <3>1. creditsUsed[j] \in Nat
      BY <2>0 DEF TypeOK
    <3>2. ASSUME j \in posted, creditsUsed[j] > 0
          PROVE  \E i \in Posts : ledger[i].ref = j /\ ledger[i].amount = creditsUsed[j]
      <4>1. PICK i \in 1..Len(ledger) : IsPost(i) /\ ledger[i].ref = j
        BY <2>0, <3>1, <3>2 DEF LedgerInv
      <4>2. QED
        BY <2>0, <2>1, <4>1 DEF LedgerInv
    <3>3. ASSUME NEW i \in Posts, ledger[i].ref = j, ledger[i].amount = creditsUsed[j]
          PROVE  j \in posted /\ creditsUsed[j] > 0
      BY <2>0, <2>1, <3>1, <3>3 DEF LedgerInv
    <3>4. QED
      BY <3>2, <3>3
  <2>4. ASSUME NEW i \in Posts
        PROVE  \/ ledger[i].amount <= IF i = 1 THEN Opening ELSE ledger[i-1].balance
               \/ \E k \in Posts : k < i
               \/ \E j \in submitted \ {ledger[i].ref} : Link[j] = Link[ledger[i].ref]
               \/ overlapped /\ \E j \in posted : creditsUsed[j] = 0
               \/ \E k \in FaultKinds : faults[k] > 0
    <3>1. Within(i)
      BY <2>0, <2>1 DEF WithinInv
    <3>2. QED
      BY <2>1, <3>1 DEF Within
  <2>5. QED
    BY <2>2, <2>3, <2>4 DEF ChargedOnce
<1>2. QED
  BY <1>1, ChargeInvariant, PTL

-----------------------------------------------------------------------------
(* The plan's slots                                                        *)

Free == {j \in posted : creditsUsed[j] = 0}

(* A covered post that has not written its row yet. *)
Taking(r) == pc[r] \in {"list", "last", "clearDraft", "bill", "billApply"} /\ need[r] = 0 /\ job[r] \notin posted

SlotsInv ==
  /\ IsFiniteSet(posted)
  /\ \A r \in Requests : pc[r] = "debit" => need[r] # 0
  /\ ~overlapped => /\ Cardinality(Free) <= Slots + faults["db"]
                    /\ \A r \in Requests : Taking(r) => Cardinality(Free) < Slots + faults["db"]

LEMMA FreeFinite ==
  ASSUME IsFiniteSet(posted)
  PROVE  IsFiniteSet(Free) /\ Cardinality(Free) \in Nat /\ Cardinality(posted) \in Nat
         /\ Cardinality(Free) <= Cardinality(posted)
<1>1. Free \subseteq posted
  BY DEF Free
<1>2. QED
  BY <1>1, FS_Subset, FS_CardinalityType

(* A request's step takes a slot only in the recheck of the plan.          *)
LEMMA TakingStep ==
  ASSUME TypeInv, NEW r \in Requests, Posting(r), pc[r] = "debit" => need[r] # 0
  PROVE  /\ pc'[r] = "debit" => need'[r] # 0
         /\ Taking(r)' => \/ Taking(r)
                          \/ Cover(r) /\ CoveredNow(job[r])
                          \/ CoverFails(r) /\ PlanCovers(job[r], 0)
<1>0. TypeOK /\ r \in Actors /\ PlaceInv(r)
  BY DEF TypeInv, Actors
<1>1. ASSUME NEW s, Goto(r, s) PROVE pc'[r] = s
  BY <1>0, <1>1 DEF Goto, TypeOK
<1> DEFINE Mine == {"list", "last", "clearDraft", "bill", "billApply"}
<1>2. ASSUME NEW s, Goto(r, s), s \notin Mine, s # "debit" PROVE pc'[r] # "debit" /\ ~Taking(r)'
  BY <1>1, <1>2 DEF Taking
<1>3. CASE (\E o \in Orders : Verify(r, o)) \/ LoadPending(r) \/ PurchaseCheck(r) \/ PurchaseApply(r)
           \/ PurchaseFails(r) \/ Finalize(r) \/ BillApply(r) \/ BillFails(r) \/ ClearOrder(r)
  <2>1. \E s : Goto(r, s) /\ s \notin Mine /\ s # "debit"
    BY <1>3 DEF Verify, LoadPending, PurchaseCheck, PurchaseApply, PurchaseFails, Finalize, BillApply,
       BillFails, ClearOrder, Finished
  <2>2. QED
    BY <1>2, <2>1
<1>4. ASSUME NEW covered, Covered(r, covered)
      PROVE  (pc'[r] = "debit" => need'[r] # 0) /\ (Taking(r)' => covered)
  <2>1. need'[r] = (IF covered THEN 0 ELSE Districts[job[r]]) /\ pc'[r] = (IF covered THEN "list" ELSE "debit")
    BY <1>0, <1>1, <1>4 DEF Covered, TypeOK
  <2>2. Districts[job[r]] # 0
    <3>1. job[r] \in Jobs
      BY <1>0, <1>4 DEF Covered, PlaceInv, Working, Finalizing, TypeOK
    <3>2. QED
      BY <3>1, DistrictsAssumption
  <2>3. QED
    BY <2>1, <2>2 DEF Taking
<1>5. CASE Cover(r)
  BY <1>4, <1>5 DEF Cover
<1>6. CASE CoverFails(r)
  <2>1. PICK c \in CoveredBlindly(job[r]) : Covered(r, c)
    BY <1>6 DEF CoverFails
  <2>2. c => PlanCovers(job[r], 0)
    BY <2>1 DEF CoveredBlindly
  <2>3. QED
    BY <1>4, <1>6, <2>1, <2>2
<1>7. CASE ReadRecord(r) \/ WriteRecord(r)
  <2>1. /\ pc[r] \in Updates /\ UNCHANGED <<need, job, posted>>
        /\ pc'[r] = pc[r] \/ pc'[r] = After(r)
    BY <1>1, <1>7 DEF ReadRecord, WriteRecord, actorVars, liveVars
  <2>2. /\ pc'[r] = "debit" => pc[r] = "debit"
        /\ pc'[r] \in Mine => pc[r] \in Mine \cup {"debit"}
    BY <2>1, AfterType DEF Updates
  <2>3. QED
    BY <2>1, <2>2 DEF Taking
<1>8. CASE ClearDraft(r) \/ BillCheck(r)
  <2>1. pc[r] \in Mine /\ pc'[r] # "debit" /\ UNCHANGED <<need, job, posted>>
    BY <1>1, <1>8 DEF ClearDraft, BillCheck, Finished, actorVars, liveVars
  <2>2. QED
    BY <2>1 DEF Taking
<1>9. QED
  BY <1>3, <1>5, <1>6, <1>7, <1>8 DEF Posting

LEMMA SlotsStep ==
  ASSUME TypeInv, OneRoute, SlotsInv, [Next]_vars
  PROVE  SlotsInv'
<1>0. /\ TypeOK /\ posted \subseteq Jobs /\ Slots \in Nat /\ faults["db"] \in Nat /\ faults'["db"] \in Nat
      /\ faults["db"] <= faults'["db"] /\ (overlapped => overlapped')
  BY Grows, CountsAssumption DEF TypeInv, TypeOK
<1>1. /\ IsFiniteSet(posted) /\ IsFiniteSet(Free) /\ Cardinality(Free) \in Nat
      /\ Cardinality(Free) <= Cardinality(posted) /\ Cardinality(posted) \in Nat
  BY FreeFinite DEF SlotsInv
<1>2. ASSUME NEW r \in Requests
      PROVE  /\ pc'[r] = "debit" => need'[r] # 0
             /\ Taking(r)' => \/ Taking(r)
                              \/ Cover(r) /\ CoveredNow(job[r])
                              \/ CoverFails(r) /\ PlanCovers(job[r], 0)
  <2>0. r \in Actors
    BY DEF Actors
  <2>1. CASE Same(r)
    BY <1>0, <2>1, Grows DEF Same, Taking, SlotsInv
  <2>2. CASE Route(r)
    <3>1. ASSUME NEW s, Goto(r, s) PROVE pc'[r] = s
      BY <1>0, <2>0, <3>1 DEF Goto, TypeOK
    <3>2. \E s : Goto(r, s) /\ s \in {"plan", "balance", "sufficient", "finalize", "refused", "offered", "crashed"}
      BY <2>2 DEF Route, Quote, QuotePlan, QuotePlanFails, Quoted, QuoteBalance, QuoteBalanceFails, Crash, Answer
    <3>3. QED
      BY <3>1, <3>2 DEF Taking
  <2>3. CASE Posting(r)
    BY <2>3, TakingStep DEF SlotsInv
  <2>4. QED
    BY <2>0, <2>1, <2>2, <2>3, Mover
<1>3. CASE UNCHANGED <<posted, creditsUsed>>
  <2>1. Free' = Free
    BY <1>3 DEF Free
  <2>2. ASSUME ~overlapped' PROVE Cardinality(Free') <= Slots + faults'["db"]
    BY <1>0, <1>1, <2>1, <2>2 DEF SlotsInv
  <2>3. ASSUME ~overlapped', NEW r \in Requests, Taking(r)'
        PROVE  Cardinality(Free') < Slots + faults'["db"]
    <3>1. CASE Taking(r)
      BY <1>0, <1>1, <2>1, <2>3, <3>1 DEF SlotsInv
    <3>2. CASE Cover(r) /\ CoveredNow(job[r])
      <4>1. Cardinality(posted) < Slots
        BY <3>2 DEF CoveredNow, PlanCovers
      <4>2. QED
        BY <1>0, <1>1, <2>1, <4>1
    <3>3. CASE CoverFails(r)
      <4>1. faults'["db"] = faults["db"] + 1
        BY <1>0, <3>3, FaultType DEF CoverFails
      <4>2. Cardinality(Free) <= Slots + faults["db"]
        BY <1>0, <2>3 DEF SlotsInv
      <4>3. QED
        BY <1>0, <1>1, <2>1, <4>1, <4>2
    <3>4. QED
      BY <1>2, <2>3, <3>1, <3>2, <3>3
  <2>4. QED
    BY <1>1, <1>2, <1>3, <2>2, <2>3 DEF SlotsInv
<1>4. ASSUME NEW r \in Requests, BillApply(r), job[r] \notin posted PROVE SlotsInv'
  <2>1. /\ r \in Actors /\ job[r] \in Jobs /\ need[r] \in Nat /\ posted' = posted \cup {job[r]}
        /\ creditsUsed'[job[r]] = need[r] /\ \A k \in Jobs \ {job[r]} : creditsUsed'[k] = creditsUsed[k]
        /\ faults' = faults /\ overlapped' = overlapped /\ pc[r] = "billApply"
    BY <1>4, BillEffect DEF BillApply, history
  <2>2. IsFiniteSet(posted')
    BY <1>1, <2>1, FS_AddElement
  <2>3. CASE need[r] # 0
    <3>1. Free' = Free
      BY <1>0, <1>4, <2>1, <2>3 DEF Free
    <3>2. \A q \in Requests : Taking(q)' => Taking(q)
      BY <1>2, <2>1, <1>4 DEF BillApply, Cover, Covered, CoverFails, liveVars
    <3>3. QED
      BY <1>2, <2>1, <2>2, <3>1, <3>2 DEF SlotsInv
  <2>4. CASE need[r] = 0
    <3>1. Free' = Free \cup {job[r]} /\ job[r] \notin Free
      BY <1>0, <1>4, <2>1, <2>4 DEF Free
    <3>2. Cardinality(Free') = Cardinality(Free) + 1
      BY <1>1, <3>1, FS_AddElement
    <3>3. ~overlapped => Cardinality(Free) < Slots + faults["db"]
      BY <1>4, <2>1, <2>4 DEF SlotsInv, Taking
    <3>4. ASSUME ~overlapped, NEW q \in Requests PROVE ~Taking(q)'
      <4>1. CASE q = r
        BY <1>0, <1>4, <2>1, <4>1 DEF BillApply, Taking, Goto, Finished, TypeOK
      <4>2. CASE q # r
        <5>1. q \in Actors /\ Same(q)
          BY <1>4, <4>2, PostingAlone DEF Posting, Actors
        <5>2. ~InProgress(q) /\ pc'[q] = pc[q]
          BY <2>1, <3>4, <4>2, <5>1, Places DEF OneRoute, InProgress, Same
        <5>3. QED
          BY <5>2, Places DEF Taking, InProgress
      <4>3. QED
        BY <4>1, <4>2
    <3>5. QED
      BY <1>0, <1>1, <1>2, <2>1, <2>2, <3>2, <3>3, <3>4 DEF SlotsInv
  <2>5. QED
    BY <2>3, <2>4
<1>5. ASSUME NEW r \in Requests, PurchaseApply(r) PROVE UNCHANGED <<posted, creditsUsed>>
  BY <1>5, PurchaseEffect
<1>6. QED
  BY <1>3, <1>4, <1>5, LedgerSteps DEF liveVars

LEMMA SlotsInit == Init => SlotsInv
<1> SUFFICES ASSUME Init PROVE SlotsInv
  OBVIOUS
<1>1. posted = {} /\ faults["db"] = 0 /\ \A r \in Requests : pc[r] = "idle"
  BY DEF Init, Actors
<1>2. Free = {} /\ Cardinality(Free) = 0 /\ IsFiniteSet(posted)
  BY <1>1, FS_EmptySet DEF Free
<1>3. QED
  BY <1>1, <1>2, CountsAssumption DEF SlotsInv, Taking

(* count_active_for_employer: the plan covers no more posts than it has    *)
(* slots while routes are served one at a time, but for a failing count.   *)
THEOREM PlanSlotsSuffice == Spec => []CoveredWithinSlots
<1>1. SlotsInv => CoveredWithinSlots
  BY DEF SlotsInv, CoveredWithinSlots, Free
<1>2. Init => ChargeInv /\ SlotsInv
  BY ChargeInit, SlotsInit
<1>3. ChargeInv /\ SlotsInv /\ [Next]_vars => (ChargeInv /\ SlotsInv)'
  BY ChargeStep, SlotsStep DEF ChargeInv
<1>4. QED
  BY <1>1, <1>2, <1>3, PTL DEF Spec

-----------------------------------------------------------------------------
(* The job list of the employer record                                     *)

Listing == {"last", "clearDraft", "bill", "billApply"}

(* What a step writes to the record: nothing but an update's edit of the   *)
(* copy it read.                                                           *)
LEMMA RecordSteps ==
  ASSUME TypeInv, [Next]_vars
  PROVE  \/ UNCHANGED <<employer, snap, collided>>
         \/ LoseRecord
         \/ \E a \in Actors : Crash(a)
         \/ \E r \in Requests : ReadRecord(r) \/ WriteRecord(r)
<1>1. ASSUME NEW a \in Actors, Route(a) PROVE UNCHANGED <<employer, snap, collided>> \/ Crash(a)
  BY <1>1 DEF Route, Quote, QuotePlan, QuotePlanFails, Quoted, QuoteBalance, QuoteBalanceFails, history
<1>2. ASSUME NEW r \in Requests, Posting(r)
      PROVE  UNCHANGED <<employer, snap, collided>> \/ ReadRecord(r) \/ WriteRecord(r)
  BY <1>2 DEF Posting, Verify, LoadPending, PurchaseCheck, PurchaseApply, PurchaseFails, Finalize,
     Cover, CoverFails, Covered, ClearDraft, BillCheck, BillApply, BillFails, ClearOrder, history
<1>3. QED
  BY <1>1, <1>2 DEF Next, Submit, Pay, vars, history

LEMMA CollidedGrows ==
  ASSUME TypeInv, [Next]_vars, ~collided', faults'["recordLost"] = 0
  PROVE  ~collided /\ faults["recordLost"] = 0 /\ ~LoseRecord
<1>1. faults["recordLost"] = 0
  <2>1. faults["recordLost"] \in Nat /\ faults["recordLost"] <= faults'["recordLost"]
    BY Grows
  <2>2. QED
    BY <2>1
<1>2. ~LoseRecord
  BY <1>1, FaultType DEF LoseRecord, TypeInv
<1>3. ~collided
  BY <1>2, RecordSteps DEF Crash, ReadRecord, WriteRecord, history
<1>4. QED
  BY <1>1, <1>2, <1>3

(* Where a route stands after a step among the last operations of          *)
(* _finalize_job: it stood there before, or it has just listed its job.    *)
LEMMA ListingStep ==
  ASSUME TypeInv, [Next]_vars, NEW a \in Actors, pc'[a] \in Listing
  PROVE  /\ job'[a] = job[a]
         /\ \/ pc[a] \in Listing
            \/ a \in Requests /\ pc[a] = "list" /\ WriteRecord(a)
            \/ a \in Requests /\ pc[a] = "list" /\ ReadRecord(a) /\ employer = NoRecord
<1>0. TypeOK
  BY DEF TypeInv
<1>1. ASSUME NEW s, Goto(a, s) PROVE pc'[a] = s
  BY <1>0, <1>1 DEF Goto, TypeOK
<1>2. CASE Same(a)
  BY <1>2 DEF Same
<1>3. CASE Route(a)
  <2>1. \E s : Goto(a, s) /\ s \notin Listing
    BY <1>3 DEF Route, Quote, QuotePlan, QuotePlanFails, Quoted, QuoteBalance, QuoteBalanceFails, Crash,
       Answer, Listing
  <2>2. QED
    BY <1>1, <2>1
<1>4. CASE a \in Requests /\ Posting(a)
  <2>1. CASE (\E o \in Orders : Verify(a, o)) \/ LoadPending(a) \/ PurchaseCheck(a) \/ PurchaseApply(a)
             \/ PurchaseFails(a) \/ Finalize(a) \/ BillApply(a) \/ BillFails(a) \/ ClearOrder(a)
             \/ Cover(a) \/ CoverFails(a)
    <3>1. \E s : Goto(a, s) /\ s \notin Listing
      BY <2>1 DEF Verify, LoadPending, PurchaseCheck, PurchaseApply, PurchaseFails, Finalize, BillApply,
         BillFails, ClearOrder, Finished, Cover, CoverFails, Covered, Listing
    <3>2. QED
      BY <1>1, <3>1
  <2>2. CASE ClearDraft(a) \/ BillCheck(a)
    BY <2>2 DEF ClearDraft, BillCheck, actorVars, Listing
  <2>3. CASE ReadRecord(a) \/ WriteRecord(a)
    <3>1. pc[a] \in Updates /\ job'[a] = job[a]
      BY <2>3 DEF ReadRecord, WriteRecord, actorVars
    <3>2. pc'[a] = pc[a] \/ (pc'[a] = After(a) /\ (WriteRecord(a) \/ (ReadRecord(a) /\ employer = NoRecord)))
      BY <1>1, <2>3 DEF ReadRecord, WriteRecord
    <3>3. pc'[a] = After(a) => pc[a] \in {"list", "last"}
      BY <3>1, AfterType DEF Listing, Updates
    <3>4. QED
      BY <1>4, <3>1, <3>2, <3>3 DEF Listing
  <2>4. QED
    BY <1>4, <2>1, <2>2, <2>3 DEF Posting
<1>5. QED
  BY <1>2, <1>3, <1>4, Mover

(* Until two updates meet or the record is lost, an update holds the       *)
(* record as it is, alone, and what was listed stays.                      *)
RecordInv ==
  ~collided /\ faults["recordLost"] = 0 =>
    /\ employer # NoRecord
    /\ \A a \in Actors : snap[a] # NoRecord => snap[a] = employer
    /\ \A a, b \in Actors : snap[a] # NoRecord /\ snap[b] # NoRecord => a = b
    /\ \A a \in Actors : pc[a] \in Listing => employer.listed[job[a]] > 0
    /\ \A j \in posted : employer.listed[j] > 0

LEMMA RecordStep ==
  ASSUME TypeInv, RecordInv, [Next]_vars
  PROVE  RecordInv'
<1> SUFFICES ASSUME ~collided', faults'["recordLost"] = 0
             PROVE  RecordInv'
  BY DEF RecordInv
<1>0. ~collided /\ faults["recordLost"] = 0 /\ ~LoseRecord
  BY CollidedGrows
<1>1. /\ TypeOK /\ TypeOK' /\ employer \in EmployerRecord /\ posted \subseteq Jobs
      /\ \A a \in Actors : snap[a] # NoRecord => snap[a] = employer
      /\ \A a, b \in Actors : snap[a] # NoRecord /\ snap[b] # NoRecord => a = b
      /\ \A a \in Actors : pc[a] \in Listing => job[a] \in Jobs /\ employer.listed[job[a]] > 0
      /\ \A j \in posted : employer.listed[j] > 0
  <2>1. TypeInv'
    BY TypeStep
  <2>2. \A a \in Actors : pc[a] \in Listing => job[a] \in Jobs
    BY DEF TypeInv, TypeOK, PlaceInv, Working, Finalizing, Listing
  <2>3. QED
    BY <1>0, <2>1, <2>2 DEF TypeInv, TypeOK, RecordInv
<1>2. \A j \in Jobs : employer.listed[j] \in Nat
  BY <1>1 DEF EmployerRecord
<1>3. ASSUME employer' # NoRecord, \A j \in Jobs : employer'.listed[j] \in Nat /\ employer.listed[j] <= employer'.listed[j],
             \A a \in Requests : pc[a] = "list" /\ WriteRecord(a) => employer'.listed[job[a]] > 0
      PROVE  /\ \A a \in Actors : pc'[a] \in Listing => employer'.listed[job'[a]] > 0
             /\ \A j \in posted' : employer'.listed[j] > 0
  <2>1. ASSUME NEW a \in Actors, pc'[a] \in Listing PROVE employer'.listed[job'[a]] > 0
    <3>1. CASE pc[a] \in Listing
      BY <1>1, <1>2, <1>3, <2>1, <3>1, ListingStep
    <3>2. CASE pc[a] \notin Listing
      <4>1. employer # NoRecord
        BY <1>1, NoneAssumption
      <4>2. a \in Requests /\ pc[a] = "list" /\ WriteRecord(a) /\ job'[a] = job[a]
        BY <2>1, <3>2, <4>1, ListingStep
      <4>3. QED
        BY <1>3, <4>2
    <3>3. QED
      BY <3>1, <3>2
  <2>2. ASSUME NEW j \in posted' PROVE employer'.listed[j] > 0
    <3>1. j \in Jobs /\ employer.listed[j] > 0
      <4>1. CASE j \in posted
        BY <1>1, <4>1
      <4>2. CASE j \notin posted
        <5>1. PICK r \in Requests : BillApply(r) /\ job[r] \notin posted
          BY <2>2, <4>2, LedgerSteps, PurchaseEffect DEF liveVars
        <5>2. j = job[r] /\ r \in Actors /\ pc[r] = "billApply"
          BY <2>2, <4>2, <5>1, BillEffect DEF BillApply
        <5>3. QED
          BY <1>1, <5>2 DEF Listing
      <4>3. QED
        BY <4>1, <4>2
    <3>2. QED
      BY <1>2, <1>3, <3>1
  <2>3. QED
    BY <2>1, <2>2
<1>4. CASE UNCHANGED <<employer, snap, collided>>
  <2>1. employer' # NoRecord
    BY <1>1, <1>4, NoneAssumption
  <2>2. \A a \in Requests : pc[a] = "list" /\ WriteRecord(a) => employer'.listed[job[a]] > 0
    <3>1. SUFFICES ASSUME NEW a \in Requests, WriteRecord(a) PROVE FALSE
      OBVIOUS
    <3>2. QED
      BY <1>1, <1>4, <3>1 DEF WriteRecord, TypeOK, Actors
  <2>3. QED
    BY <1>1, <1>2, <1>3, <1>4, <2>1, <2>2 DEF RecordInv
<1>5. ASSUME NEW a \in Actors, Crash(a)
      PROVE  RecordInv'
  <2>1. employer' = employer /\ snap' = [snap EXCEPT ![a] = NoRecord] /\ Goto(a, "crashed")
        /\ UNCHANGED <<job, posted>>
    BY <1>5 DEF Crash, actorVars, liveVars
  <2>2. \A b \in Actors : snap'[b] # NoRecord => snap'[b] = snap[b]
    BY <1>1, <2>1 DEF TypeOK
  <2>3. \A b \in Actors : pc'[b] \in Listing => pc[b] = pc'[b]
    BY <1>1, <2>1 DEF TypeOK, Goto, Listing
  <2>4. employer # NoRecord
    BY <1>1, NoneAssumption
  <2>5. QED
    BY <1>1, <2>1, <2>2, <2>3, <2>4 DEF RecordInv
<1>6. ASSUME NEW r \in Requests, ReadRecord(r)
      PROVE  RecordInv'
  <2>0. employer # NoRecord /\ r \in Actors
    BY <1>1, NoneAssumption DEF Actors
  <2>1. /\ employer' = employer /\ snap' = [snap EXCEPT ![r] = employer] /\ pc' = pc /\ UNCHANGED <<job, posted>>
        /\ collided' = (collided \/ OthersInUpdate(r))
    BY <1>6, <2>0 DEF ReadRecord, actorVars, liveVars
  <2>2. \A b \in Actors \ {r} : snap[b] = NoRecord
    BY <2>1 DEF OthersInUpdate
  <2>3. snap'[r] = employer /\ \A b \in Actors \ {r} : snap'[b] = NoRecord
    BY <1>1, <2>0, <2>1, <2>2 DEF TypeOK
  <2>4. QED
    BY <1>1, <2>0, <2>1, <2>3 DEF RecordInv
<1>7. ASSUME NEW r \in Requests, WriteRecord(r)
      PROVE  RecordInv'
  <2>0. /\ r \in Actors /\ snap[r] = employer /\ pc[r] \in Updates /\ employer' = Edit(r, employer)
        /\ snap' = [snap EXCEPT ![r] = NoRecord]
    BY <1>1, <1>7 DEF WriteRecord, Actors
  <2>1. \A b \in Actors : snap'[b] = NoRecord
    BY <1>1, <1>7, <2>0 DEF TypeOK, WriteRecord
  <2>2. /\ employer' \in EmployerRecord
        /\ pc[r] # "list" => employer'.listed = employer.listed
        /\ pc[r] = "list" => /\ job[r] \in Jobs
                             /\ employer'.listed[job[r]] = employer.listed[job[r]] + 1
                             /\ \A j \in Jobs \ {job[r]} : employer'.listed[j] = employer.listed[j]
    BY <1>1, <2>0, EditType
  <2>3. employer' # NoRecord /\ \A j \in Jobs : employer'.listed[j] \in Nat
    BY <2>2, NoneAssumption DEF EmployerRecord
  <2>4. \A j \in Jobs : employer.listed[j] <= employer'.listed[j]
    BY <1>2, <2>2
  <2>5. ASSUME NEW a \in Requests, pc[a] = "list", WriteRecord(a) PROVE employer'.listed[job[a]] > 0
    <3>1. a = r
      BY <1>1, <1>7, <2>5 DEF WriteRecord, Actors
    <3>2. QED
      BY <1>2, <2>2, <2>5, <3>1
  <2>6. QED
    BY <1>3, <2>1, <2>3, <2>4, <2>5 DEF RecordInv
<1>8. QED
  BY <1>0, <1>1, <1>2, <1>3, <1>4, <1>5, <1>6, <1>7, RecordSteps

(* A draft that may still enter the list: its form is not submitted, a     *)
(* route is about to list it, or the link still holds it and no route that *)
(* listed it is about to take it away.                                     *)
Listable(j) ==
  \/ j \notin submitted
  \/ \E r \in Requests : pc[r] \in {"cover", "debit", "list"} /\ job[r] = j
  \/ draft[Link[j]] = j /\ ~\E r \in Requests : pc[r] \in {"last", "clearDraft"} /\ job[r] = j

Bounded(rec) ==
  rec # NoRecord =>
    \A j \in Jobs : rec.listed[j] + (IF Listable(j) THEN 1 ELSE 0) <= 1 + faults["crash"]

OnceInv == ~overlapped => Bounded(employer) /\ \A a \in Actors : Bounded(snap[a])

(* Only a crash lets a listed draft be listed again.                       *)
LEMMA ListableStep ==
  ASSUME TypeInv, OneRoute, [Next]_vars, ~overlapped, NEW j \in Jobs, Listable(j)',
         \A a \in Actors : ~Crash(a)
  PROVE  /\ Listable(j)
         /\ \A r \in Requests : WriteRecord(r) /\ pc[r] = "list" => job[r] # j
<1>0. TypeOK /\ DraftInv /\ Requests \subseteq Actors /\ Link[j] \in Tokens /\ j # NoJob
      /\ \A a \in Actors : PlaceInv(a)
  BY LinkAssumption, NoneAssumption DEF TypeInv, Actors
<1>1. ASSUME NEW a \in Actors, NEW s, Goto(a, s) PROVE pc'[a] = s
  BY <1>0, <1>1 DEF Goto, TypeOK
<1>2. ASSUME NEW r \in Requests, WriteRecord(r), pc[r] = "list", job[r] = j PROVE FALSE
  <2>0. r \in Actors /\ pc'[r] = "last" /\ UNCHANGED <<submitted, draft, job>>
    BY <1>0, <1>1, <1>2, AfterType DEF WriteRecord, Updates, actorVars
  <2>1. j \in submitted
    BY <1>0, <1>2, <2>0 DEF PlaceInv, Working, Finalizing
  <2>2. PICK q \in Requests : pc'[q] \in {"cover", "debit", "list"} /\ job'[q] = j
    BY <1>2, <2>0, <2>1 DEF Listable
  <2>3. q # r /\ q \in Actors
    BY <1>0, <2>0, <2>2
  <2>4. pc'[q] = pc[q]
    BY <1>2, <2>3, PostingAlone DEF Posting, Same
  <2>5. InProgress(q) /\ InProgress(r)
    BY <1>2, <2>2, <2>4, Places DEF InProgress
  <2>6. QED
    BY <2>0, <2>3, <2>5 DEF OneRoute
<1>3. ASSUME j \notin submitted' PROVE Listable(j)
  BY <1>3, Grows DEF Listable
<1>4. ASSUME NEW r \in Requests, pc'[r] \in {"cover", "debit", "list"}, job'[r] = j PROVE Listable(j)
  <2>0. r \in Actors
    BY <1>0
  <2>1. CASE pc[r] \in {"cover", "debit", "list"} /\ job[r] = j
    BY <2>1 DEF Listable
  <2>2. CASE Same(r)
    BY <1>4, <2>1, <2>2 DEF Same
  <2>3. CASE Route(r)
    <3>1. \E s : Goto(r, s) /\ s \notin {"cover", "debit", "list"}
      BY <2>3 DEF Route, Quote, QuotePlan, QuotePlanFails, Quoted, QuoteBalance, QuoteBalanceFails, Crash,
         Answer
    <3>2. QED
      BY <1>1, <1>4, <2>0, <3>1
  <2>4. CASE Finalize(r)
    <3>1. pc[r] = "finalize" /\ draft[token[r]] = j /\ token[r] \in Tokens
      <4>1. pc[r] = "finalize"
        BY <2>4 DEF Finalize
      <4>2. draft[token[r]] # NoJob
        BY <1>1, <1>4, <2>0, <2>4 DEF Finalize, Finished
      <4>3. job'[r] = draft[token[r]]
        BY <1>0, <2>0, <2>4, <4>2 DEF Finalize, TypeOK
      <4>4. QED
        BY <1>0, <1>4, <2>0, <4>1, <4>3 DEF PlaceInv
    <3>2. draft[Link[j]] = j
      BY <1>0, <3>1 DEF DraftInv
    <3>3. ASSUME NEW q \in Requests, pc[q] \in {"last", "clearDraft"} PROVE FALSE
      <4>1. InProgress(q) /\ InProgress(r)
        BY <3>1, <3>3, Places DEF InProgress
      <4>2. q = r
        BY <1>0, <2>0, <4>1 DEF OneRoute
      <4>3. QED
        BY <3>1, <3>3, <4>2
    <3>4. QED
      BY <3>2, <3>3 DEF Listable
  <2>5. CASE Cover(r) \/ CoverFails(r)
    BY <1>4, <2>1, <2>5 DEF Cover, CoverFails, Covered
  <2>6. CASE ReadRecord(r) \/ WriteRecord(r)
    <3>1. /\ pc[r] \in Updates /\ job'[r] = job[r]
          /\ pc'[r] = pc[r] \/ pc'[r] = After(r)
      BY <1>1, <2>0, <2>6 DEF ReadRecord, WriteRecord, actorVars
    <3>2. pc[r] \in {"cover", "debit", "list"}
      BY <1>4, <3>1, AfterType DEF Updates
    <3>3. QED
      BY <1>4, <2>1, <3>1, <3>2
  <2>7. CASE (\E o \in Orders : Verify(r, o)) \/ LoadPending(r) \/ PurchaseCheck(r) \/ PurchaseApply(r)
             \/ PurchaseFails(r) \/ ClearDraft(r) \/ BillCheck(r) \/ BillApply(r) \/ BillFails(r)
             \/ ClearOrder(r)
    <3>1. \E s : Goto(r, s) /\ s \notin {"cover", "debit", "list"}
      BY <2>7 DEF Verify, LoadPending, PurchaseCheck, PurchaseApply, PurchaseFails, ClearDraft,
         BillCheck, BillApply, BillFails, ClearOrder, Finished
    <3>2. QED
      BY <1>1, <1>4, <2>0, <3>1
  <2>8. QED
    BY <2>0, <2>2, <2>3, <2>4, <2>5, <2>6, <2>7, Mover DEF Posting
<1>5. ASSUME j \in submitted', draft'[Link[j]] = j,
             ~\E r \in Requests : pc'[r] \in {"last", "clearDraft"} /\ job'[r] = j
      PROVE  Listable(j)
  <2>1. CASE j \notin submitted
    BY <2>1 DEF Listable
  <2>2. CASE j \in submitted
    <3>1. draft[Link[j]] = j
      <4>1. CASE draft' = draft
        BY <1>5, <4>1
      <4>2. ASSUME NEW k \in Jobs, Submit(k) PROVE draft[Link[j]] = j
        BY <1>0, <1>5, <2>2, <4>2, LinkAssumption DEF Submit, TypeOK
      <4>3. ASSUME NEW r \in Requests, ClearDraft(r) PROVE draft[Link[j]] = j
        BY <1>0, <1>5, <4>3 DEF ClearDraft, TypeOK
      <4>4. ASSUME NEW a \in Actors, Route(a) PROVE draft' = draft
        BY <4>4 DEF Route, Quote, QuotePlan, QuotePlanFails, Quoted, QuoteBalance, QuoteBalanceFails, Crash
      <4>5. ASSUME NEW r \in Requests, Posting(r) PROVE draft' = draft \/ ClearDraft(r)
        BY <4>5 DEF Posting, Verify, LoadPending, PurchaseCheck, PurchaseApply, PurchaseFails, Finalize,
           Cover, CoverFails, Covered, ReadRecord, WriteRecord, BillCheck, BillApply, BillFails, ClearOrder
      <4>6. QED
        BY <4>1, <4>2, <4>3, <4>4, <4>5 DEF Next, Pay, LoseRecord, vars
    <3>2. ASSUME NEW q \in Requests, pc[q] \in {"last", "clearDraft"}, job[q] = j PROVE FALSE
      <4>0. q \in Actors
        BY <1>0
      <4>1. CASE pc'[q] \in {"last", "clearDraft"} /\ job'[q] = j
        BY <1>5, <4>1
      <4>2. CASE Same(q)
        BY <3>2, <4>1, <4>2 DEF Same
      <4>3. CASE ClearDraft(q)
        <5>1. token[q] = Link[j] /\ draft' = [draft EXCEPT ![token[q]] = NoJob]
          BY <1>0, <3>2, <4>0, <4>3 DEF ClearDraft, PlaceInv, Working, Finalizing
        <5>2. QED
          BY <1>0, <1>5, <5>1 DEF TypeOK
      <4>4. CASE ReadRecord(q) \/ WriteRecord(q)
        <5>1. job'[q] = job[q] /\ (pc'[q] = pc[q] \/ (pc'[q] = After(q) /\ pc[q] \in Updates))
          BY <1>1, <4>0, <4>4 DEF ReadRecord, WriteRecord, actorVars
        <5>2. pc[q] = "last" \/ pc[q] \notin Updates
          BY <3>2 DEF Updates
        <5>3. QED
          BY <3>2, <4>1, <5>1, <5>2, AfterType
      <4>5. ASSUME Route(q) PROVE FALSE
        BY <1>0, <3>2, <4>0, <4>5 DEF Route, Quote, Serve, QuotePlan, QuotePlanFails, Quoted,
           QuoteBalance, QuoteBalanceFails
      <4>6. ASSUME Posting(q) PROVE ClearDraft(q) \/ ReadRecord(q) \/ WriteRecord(q)
        BY <3>2, <4>6 DEF Posting, Verify, Serve, LoadPending, PurchaseCheck, PurchaseApply, PurchaseFails,
           Finalize, Cover, CoverFails, Covered, BillCheck, BillApply, BillFails, ClearOrder
      <4>7. QED
        BY <4>0, <4>2, <4>3, <4>4, <4>5, <4>6, Mover
    <3>3. QED
      BY <3>1, <3>2 DEF Listable
  <2>3. QED
    BY <2>1, <2>2
<1>6. QED
  BY <1>2, <1>3, <1>4, <1>5 DEF Listable

LEMMA OnceStep ==
  ASSUME TypeInv, OneRoute, OnceInv, [Next]_vars
  PROVE  OnceInv'
<1> SUFFICES ASSUME ~overlapped' PROVE Bounded(employer)' /\ \A a \in Actors : Bounded(snap[a])'
  BY DEF OnceInv
<1>0. /\ TypeOK /\ ~overlapped /\ Requests \subseteq Actors
      /\ faults["crash"] \in Nat /\ faults'["crash"] \in Nat /\ faults["crash"] <= faults'["crash"]
  BY Grows DEF TypeInv, Actors
<1>1. \A rec \in EmployerRecord, j \in Jobs : rec.listed[j] \in Nat
  BY DEF EmployerRecord
(* A record that was there before the step. *)
<1>2. ASSUME NEW rec \in EmployerRecord \cup {NoRecord}, Bounded(rec)
      PROVE  \A x : x = rec => Bounded(x)'
  <2> SUFFICES ASSUME rec # NoRecord, NEW j \in Jobs
               PROVE  rec.listed[j] + (IF Listable(j)' THEN 1 ELSE 0) <= 1 + faults'["crash"]
    BY DEF Bounded
  <2>1. rec.listed[j] + (IF Listable(j) THEN 1 ELSE 0) <= 1 + faults["crash"] /\ rec.listed[j] \in Nat
    BY <1>1, <1>2 DEF Bounded
  <2>2. CASE \E a \in Actors : Crash(a)
    <3>1. faults'["crash"] = faults["crash"] + 1
      BY <1>0, <2>2, FaultType DEF Crash
    <3>2. QED
      BY <1>0, <2>1, <3>1
  <2>3. CASE \A a \in Actors : ~Crash(a)
    BY <1>0, <2>1, <2>3, ListableStep
  <2>4. QED
    BY <2>2, <2>3
<1>3. /\ employer \in EmployerRecord \cup {NoRecord} /\ Bounded(employer)
      /\ \A a \in Actors : snap[a] \in EmployerRecord \cup {NoRecord} /\ Bounded(snap[a])
  BY <1>0 DEF OnceInv, TypeOK
<1>4. \A x : x = employer \/ (\E a \in Actors : x = snap[a]) => Bounded(x)'
  BY <1>2, <1>3
<1>5. \A x : x = NoRecord => Bounded(x)'
  BY DEF Bounded
<1>6. ASSUME NEW r \in Requests, WriteRecord(r) PROVE \A x : x = employer' => Bounded(x)'
  <2>0. /\ r \in Actors /\ snap[r] \in EmployerRecord /\ pc[r] \in Updates /\ employer' = Edit(r, snap[r])
        /\ faults' = faults /\ Bounded(snap[r])
    BY <1>0, <1>3, <1>6 DEF WriteRecord
  <2>1. /\ employer' \in EmployerRecord
        /\ pc[r] # "list" => employer'.listed = snap[r].listed
        /\ pc[r] = "list" => /\ job[r] \in Jobs
                             /\ employer'.listed[job[r]] = snap[r].listed[job[r]] + 1
                             /\ \A j \in Jobs \ {job[r]} : employer'.listed[j] = snap[r].listed[j]
    BY <2>0, EditType
  <2>2. snap[r] # NoRecord /\ employer' # NoRecord
    BY <2>0, <2>1, NoneAssumption
  <2>3. \A a \in Actors : ~Crash(a)
    <3>1. faults["crash"] = faults'["crash"]
      BY <2>0
    <3>2. \A a \in Actors : Crash(a) => faults'["crash"] = faults["crash"] + 1
      BY <1>0, FaultType DEF Crash
    <3>3. QED
      BY <1>0, <3>1, <3>2
  <2>4. ASSUME NEW j \in Jobs
        PROVE  employer'.listed[j] + (IF Listable(j)' THEN 1 ELSE 0) <= 1 + faults["crash"]
    <3>1. snap[r].listed[j] + (IF Listable(j) THEN 1 ELSE 0) <= 1 + faults["crash"]
          /\ snap[r].listed[j] \in Nat
      BY <1>1, <2>0, <2>2 DEF Bounded
    <3>2. Listable(j)' => Listable(j) /\ ~(pc[r] = "list" /\ job[r] = j)
      BY <1>0, <1>6, <2>3, ListableStep
    <3>3. CASE pc[r] = "list" /\ job[r] = j
      <4>1. Listable(j)
        BY <3>3 DEF Listable
      <4>2. employer'.listed[j] = snap[r].listed[j] + 1
        BY <2>1, <3>3
      <4>3. QED
        BY <1>0, <3>1, <3>2, <3>3, <4>1, <4>2
    <3>4. CASE ~(pc[r] = "list" /\ job[r] = j)
      <4>1. employer'.listed[j] = snap[r].listed[j]
        BY <2>1, <3>4
      <4>2. QED
        BY <1>0, <3>1, <3>2, <4>1
    <3>5. QED
      BY <3>3, <3>4
  <2>5. QED
    BY <2>0, <2>4 DEF Bounded
<1>7. \A x : x = employer' => Bounded(x)'
  BY <1>4, <1>5, <1>6, RecordSteps DEF LoseRecord, Crash, ReadRecord
<1>8. ASSUME NEW a \in Actors PROVE \A x : x = snap'[a] => Bounded(x)'
  <2>1. snap'[a] = snap[a] \/ snap'[a] = NoRecord \/ snap'[a] = employer
    BY <1>0, RecordSteps DEF LoseRecord, Crash, ReadRecord, WriteRecord, TypeOK
  <2>2. QED
    BY <1>4, <1>5, <2>1
<1>9. QED
  BY <1>7, <1>8 DEF Bounded

LEMMA ListInit == Init => RecordInv /\ OnceInv
<1> SUFFICES ASSUME Init PROVE RecordInv /\ OnceInv
  OBVIOUS
<1>1. employer \in EmployerRecord /\ \A j \in Jobs : employer.listed[j] = 0
  BY CountsAssumption DEF Init, EmployerRecord
<1>2. posted = {} /\ faults["crash"] = 0 /\ \A a \in Actors : pc[a] = "idle" /\ snap[a] = NoRecord
  BY DEF Init
<1>3. RecordInv
  BY <1>1, <1>2, NoneAssumption DEF RecordInv, Listing
<1>4. Bounded(employer) /\ \A a \in Actors : Bounded(snap[a])
  BY <1>1, <1>2 DEF Bounded
<1>5. QED
  BY <1>3, <1>4 DEF OnceInv

(* add_employer_job and clear_job_draft: a posted job is in the employer's *)
(* list unless the record was lost or two updates of it met, and served    *)
(* one at a time a draft enters the list once, and once more per crash.    *)
THEOREM ListedAtMostOncePerCrash == Spec => []ListedOncePerCrash
<1>1. TypeInv /\ RecordInv /\ OnceInv => ListedOncePerCrash
  <2> SUFFICES ASSUME TypeInv, RecordInv, OnceInv, employer # NoRecord
               PROVE  /\ ~collided /\ faults["recordLost"] = 0 => \A j \in posted : employer.listed[j] > 0
                      /\ ~overlapped => \A j \in Jobs : employer.listed[j] <= 1 + faults["crash"]
    BY DEF ListedOncePerCrash
  <2>1. ASSUME ~overlapped, NEW j \in Jobs PROVE employer.listed[j] <= 1 + faults["crash"]
    <3>1. employer.listed[j] \in Nat /\ faults["crash"] \in Nat
      BY DEF TypeInv, TypeOK, EmployerRecord
    <3>2. employer.listed[j] + (IF Listable(j) THEN 1 ELSE 0) <= 1 + faults["crash"]
      BY <2>1 DEF OnceInv, Bounded
    <3>3. QED
      BY <3>1, <3>2
  <2>2. QED
    BY <2>1 DEF RecordInv
<1>2. Init => ChargeInv /\ RecordInv /\ OnceInv
  BY ChargeInit, ListInit
<1>3. ChargeInv /\ RecordInv /\ OnceInv /\ [Next]_vars => (ChargeInv /\ RecordInv /\ OnceInv)'
  BY ChargeStep, RecordStep, OnceStep DEF ChargeInv
<1>4. QED
  BY <1>1, <1>2, <1>3, PTL DEF Spec, ChargeInv
=============================================================================
