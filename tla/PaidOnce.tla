------------------------------ MODULE PaidOnce ------------------------------
(***************************************************************************)
(* The promise behind buying credits, without Redis, requests or retries:  *)
(* an order is paid, and a paid order is added to the wallet exactly once. *)
(* The one exception is an order whose buyer's clients contend for it: it  *)
(* may be added again. Other writers of the wallet may move the balance by *)
(* one at a time.                                                          *)
(***************************************************************************)
EXTENDS Integers

CONSTANTS Orders, Grant, WelcomeCredits

VARIABLES paid, contested, credited, balance

vars == <<paid, contested, credited, balance>>

Init == paid = {} /\ contested = {} /\ credited = {} /\ balance = WelcomeCredits

Pay(o) ==
  /\ o \notin paid
  /\ paid' = paid \cup {o}
  /\ UNCHANGED <<contested, credited, balance>>

(* A paid order is claimed by two clients at once. *)
Contest(o) ==
  /\ o \in paid \ contested
  /\ contested' = contested \cup {o}
  /\ UNCHANGED <<paid, credited, balance>>

Credit(o) ==
  /\ o \in paid
  /\ o \in credited => o \in contested
  /\ credited' = credited \cup {o}
  /\ balance' = balance + Grant[o]
  /\ UNCHANGED <<paid, contested>>

Foreign(d) ==
  /\ balance + d >= 0
  /\ balance' = balance + d
  /\ UNCHANGED <<paid, contested, credited>>

Next ==
  \/ \E o \in Orders : Pay(o) \/ Contest(o) \/ Credit(o)
  \/ \E d \in {-1, 1} : Foreign(d)

Spec == Init /\ [][Next]_vars
=============================================================================
