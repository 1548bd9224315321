------------------------- MODULE FollowupScheduler -------------------------
(***************************************************************************)
(* The proactive follow-ups: the schedule_followup tool adds a pending     *)
(* action, and each API worker runs a scheduler that polls the due ones,   *)
(* sends them on WhatsApp and marks them done. Schedulers do not claim     *)
(* what they have read.                                                    *)
(***************************************************************************)
EXTENDS Integers, Sequences, FiniteSets, Functions

CONSTANTS
  FollowUps,   (* rows of agent_pending_actions                                  *)
  RunAfter,    (* the order of their run_after                                   *)
  Bad,         (* follow-ups whose delivery raises every time                    *)
  Blank,       (* follow-ups with no customer or no message to send              *)
  Schedulers,  (* one per API worker                                             *)
  Limit,       (* LIMIT of PendingActionRepository.due                           *)
  MaxFailures  (* bound on each kind of failure in a behaviour                 *)

FailureKinds == {"crash", "db", "http"}

ASSUME CountAssumption  == IsFiniteSet(FollowUps) /\ IsFiniteSet(Schedulers)
ASSUME OrderAssumption  == RunAfter \in [FollowUps -> Nat]
ASSUME BadAssumption    == Bad \subseteq FollowUps
ASSUME BlankAssumption  == Blank \subseteq FollowUps \ Bad
ASSUME LimitAssumption  == Limit \in Nat \ {0}
ASSUME FailuresAssumption == MaxFailures \in [FailureKinds -> Nat]

VARIABLES
  status,   (* of each follow-up; "none" before it is scheduled                  *)
  due,      (* follow-ups whose run_after has passed                             *)
  pc, batch,(* each scheduler: its next await, and the rows it still has to send *)
  failures, (* failures so far, by kind                                          *)
  tried,    (* history: attempts to send each follow-up that did not raise       *)
  sent      (* history: messages of each follow-up that reached WhatsApp         *)

schedulerVars == <<status, due, pc, batch, failures, tried, sent>>

SchedulerInit ==
  /\ status = [f \in FollowUps |-> "none"]
  /\ due = {}
  /\ pc = [w \in Schedulers |-> "poll"]
  /\ batch = [w \in Schedulers |-> <<>>]
  /\ failures = [k \in FailureKinds |-> 0]
  /\ tried = [f \in FollowUps |-> 0]
  /\ sent = [f \in FollowUps |-> 0]

Fails(k) ==
  /\ failures[k] < MaxFailures[k]
  /\ failures' = [failures EXCEPT ![k] = @ + 1]

(* PendingActionRepository.add *)
Schedule(f) ==
  /\ status[f] = "none"
  /\ status' = [status EXCEPT ![f] = "pending"]
  /\ UNCHANGED <<due, pc, batch, failures, tried, sent>>

(* Its run_after passes, in the order of run_after. *)
FallDue(f) ==
  /\ f \notin due
  /\ \A g \in FollowUps : RunAfter[g] < RunAfter[f] => g \in due
  /\ due' = due \cup {f}
  /\ UNCHANGED <<status, pc, batch, failures, tried, sent>>

-----------------------------------------------------------------------------
(* AgentScheduler.run_once *)

Pending == {f \in due : status[f] = "pending"}

(* The first n rows in the order of run_after, which leaves ties open.     *)
InRunAfterOrder(n) ==
  {q \in [1..n -> Pending] :
     /\ IsInjective(q)
     /\ \A i \in 1..n : \A f \in Pending :
          RunAfter[f] < RunAfter[q[i]] => \E k \in 1..i-1 : q[k] = f}

(* Mutant: no LIMIT. *)
OldestAll == InRunAfterOrder(Cardinality(Pending))

(* ORDER BY run_after LIMIT :lim *)
Oldest == InRunAfterOrder(IF Cardinality(Pending) < Limit THEN Cardinality(Pending) ELSE Limit)

(* Mutant: the rows are consumed as they are read. *)
PollConsumes(w) ==
  /\ pc[w] = "poll"
  /\ Pending # {}
  /\ \E q \in Oldest :
       /\ batch' = [batch EXCEPT ![w] = q]
       /\ status' = [f \in FollowUps |-> IF f \in Range(q) THEN "done" ELSE status[f]]
  /\ pc' = [pc EXCEPT ![w] = "deliver"]
  /\ UNCHANGED <<due, failures, tried, sent>>

Poll(w) ==
  /\ pc[w] = "poll"
  /\ Pending # {}
  /\ \E q \in Oldest : batch' = [batch EXCEPT ![w] = q]
  /\ pc' = [pc EXCEPT ![w] = "deliver"]
  /\ UNCHANGED <<status, due, failures, tried, sent>>

(* The row at hand is done with, sent or not. *)
RowDone(w) ==
  /\ batch' = [batch EXCEPT ![w] = Tail(@)]
  /\ pc' = [pc EXCEPT ![w] = IF Len(batch[w]) > 1 THEN "deliver" ELSE "poll"]

(* Nothing to send: the row goes straight to its mark. *)
Skip(w) ==
  /\ pc[w] = "deliver"
  /\ Head(batch[w]) \in Blank
  /\ pc' = [pc EXCEPT ![w] = "mark"]
  /\ UNCHANGED <<status, due, batch, failures, tried, sent>>

(* wa_delivery.deliver; nobody looks at the HTTP status. *)
Deliver(w) ==
  LET f == Head(batch[w]) IN
  /\ pc[w] = "deliver"
  /\ f \notin Bad \cup Blank
  /\ tried' = [tried EXCEPT ![f] = @ + 1]
  /\ \/ sent' = [sent EXCEPT ![f] = @ + 1] /\ UNCHANGED failures
     \/ Fails("http") /\ UNCHANGED sent
  /\ pc' = [pc EXCEPT ![w] = "mark"]
  /\ UNCHANGED <<status, due, batch>>

(* Mutant: an exception ends the drain. *)
DeliverRaisesOut(w) ==
  /\ pc[w] = "deliver"
  /\ Head(batch[w]) \in Bad
  /\ batch' = [batch EXCEPT ![w] = <<>>]
  /\ pc' = [pc EXCEPT ![w] = "poll"]
  /\ UNCHANGED <<status, due, failures, tried, sent>>

(* Anything but an HTTP error raises: the row stays pending. *)
DeliverRaises(w) ==
  /\ pc[w] = "deliver"
  /\ Head(batch[w]) \in Bad
  /\ RowDone(w)
  /\ UNCHANGED <<status, due, failures, tried, sent>>

Mark(w) ==
  /\ pc[w] = "mark"
  /\ status' = [status EXCEPT ![Head(batch[w])] = "done"]
  /\ RowDone(w)
  /\ UNCHANGED <<due, failures, tried, sent>>

MarkFails(w) ==
  /\ pc[w] = "mark"
  /\ Fails("db")
  /\ RowDone(w)
  /\ UNCHANGED <<status, due, tried, sent>>

(* The worker dies between any two awaits and its successor polls anew. *)
WorkerDies(w) ==
  /\ pc[w] # "poll"
  /\ Fails("crash")
  /\ batch' = [batch EXCEPT ![w] = <<>>]
  /\ pc' = [pc EXCEPT ![w] = "poll"]
  /\ UNCHANGED <<status, due, tried, sent>>

RunOnce(w) == Poll(w) \/ Skip(w) \/ Deliver(w) \/ DeliverRaises(w) \/ Mark(w)

SchedulerNext ==
  \/ \E f \in FollowUps : Schedule(f) \/ FallDue(f)
  \/ \E w \in Schedulers : RunOnce(w) \/ MarkFails(w) \/ WorkerDies(w)

SchedulerSpec == SchedulerInit /\ [][SchedulerNext]_schedulerVars

(* _loop polls for ever, and run_once goes through its whole batch. *)
SchedulerFairness == \A w \in Schedulers : WF_schedulerVars(RunOnce(w))

FairSchedulerSpec == SchedulerSpec /\ SchedulerFairness

-----------------------------------------------------------------------------
(* Properties *)

(* Type invariant. *)
SchedulerTypeOK ==
  /\ status \in [FollowUps -> {"none", "pending", "done"}]
  /\ due \in SUBSET FollowUps
  /\ pc \in [Schedulers -> {"poll", "deliver", "mark"}]
  /\ batch \in [Schedulers -> Seq(FollowUps)]
  /\ \A w \in Schedulers : Len(batch[w]) <= Limit /\ (pc[w] = "poll" <=> batch[w] = <<>>)
  /\ failures \in [FailureKinds -> Nat]
  /\ tried \in [FollowUps -> Nat] /\ sent \in [FollowUps -> Nat]

(* Nobody claims a row before sending it, so a customer may get a message  *)
(* more than once: at most once from each scheduler, and once more for     *)
(* each crash or failed mark in between.                                   *)
RepeatsAccounted ==
  \A f \in FollowUps :
    tried[f] <= Cardinality(Schedulers) + failures["crash"] + failures["db"]

(* A follow-up with something to send is done only once it was tried, and  *)
(* it reached WhatsApp unless an HTTP call failed: a crash consumes none.  *)
DoneWasSent ==
  \A f \in FollowUps \ Blank :
    status[f] = "done" => tried[f] > 0 /\ (failures["http"] = 0 => sent[f] > 0)

(* A follow-up is sent neither too often nor too seldom: the two together. *)
DeliveryAccounted == RepeatsAccounted /\ DoneWasSent

(* "One bad action shouldn't stall the rest" (run_once): every follow-up   *)
(* that is due and can be delivered is done in the end, as long as fewer   *)
(* bad ones than a batch holds are ahead of it.                            *)
DueIsDone ==
  Cardinality(Bad) < Limit =>
    \A f \in FollowUps \ Bad : (f \in Pending) ~> (status[f] = "done")
=============================================================================
