----------------------------- MODULE AgentTurn -----------------------------
(***************************************************************************)
(* The turns of one WhatsApp sender through the agent's graph: load the    *)
(* context, identify the sender, route to a lane, reply. The agent lane    *)
(* plans, executes tools and reflects under a budget.                      *)
(*                                                                         *)
(* One action per node of the graph. A node returns the part of the state  *)
(* it changes and the rest flows on, so what one node stages another may   *)
(* send. The webhook sends the staged cards, or else the staged            *)
(* interactive message, or else the text that was drafted. A payload is    *)
(* modelled by the node that made it. One turn at a time; Conversation     *)
(* models turns that overlap.                                              *)
(***************************************************************************)
EXTENDS Naturals, Sequences

CONSTANTS
  MaxLoops,      (* settings.agent_max_loops                       *)
  MaxSteps,      (* bound on the steps of a plan                   *)
  MaxTurns,      (* bound on the turns of a behaviour              *)
  MaxTurnFaults  (* bound on each kind of fault in a behaviour     *)

TurnFaultKinds == {"lookup", "store", "turn"}

(* What the routers tell apart in an inbound message. *)
Messages == {"closer", "switch", "greeting", "seeker", "creator", "text"}
Lanes    == {"none", "seeker", "creator"}

(* Nodes that draft a reply. *)
Repliers == {"onboarding", "greeting", "role_select", "creator", "menu", "browse", "responder"}
Nodes    == Repliers \cup {"idle", "load_context", "identify", "lookup", "summarize", "planner",
                           "execute", "reflect", "humanize", "persist", "deliver"}
AgentLane == {"menu", "browse", "summarize", "planner", "execute", "reflect", "responder"}
Sources   == Repliers \cup {"none", "lookup"}

ASSUME BudgetAssumption == MaxLoops \in Nat \ {0} /\ MaxSteps \in Nat /\ MaxTurns \in Nat
ASSUME TurnFaultsAssumption == MaxTurnFaults \in [TurnFaultKinds -> Nat]

VARIABLES
  registered,  (* the job board has this number                            *)
  lane,        (* the lane remembered among the customer facts             *)
  offered,     (* the registration form has been sent                      *)
  turns,       (* turns so far                                             *)
  node,        (* where the turn is                                        *)
  turn,        (* the turn's state, see Turn                               *)
  plan,        (* status of each step of the plan                          *)
  loops,       (* loop_count                                               *)
  late,        (* the turn's deadline has passed                           *)
  sent,        (* the last reply, see Sent                                 *)
  turnFaults   (* faults so far, by kind                                   *)

turnVars == <<registered, lane, offered, turns, node, turn, plan, loops, late, sent, turnFaults>>
reasoning == <<plan, loops, late>>

(* One turn: the message, the lane in its copy of the facts, is_known, who *)
(* drafted the text and staged the interactive message and the cards. Then *)
(* history: what held when it began, and whether its lookup failed.        *)
Turn == [msg: Messages, lane: Lanes, known: BOOLEAN, draft: Sources,
         interactive: Sources, cards: Sources,
         wasRegistered: BOOLEAN, hadLane: Lanes, blind: BOOLEAN]

(* A delivered reply: the turn, and who made what was sent. *)
Sent == [turn: Turn, payload: Sources]
Nothing == [payload |-> "none"]

NewTurn(m) ==
  [msg |-> m, lane |-> "none", known |-> FALSE, draft |-> "none", interactive |-> "none",
   cards |-> "none", wasRegistered |-> registered, hadLane |-> lane, blind |-> FALSE]

TurnInit ==
  /\ registered \in BOOLEAN
  /\ lane = "none"
  /\ offered = FALSE
  /\ turns = 0
  /\ node = "idle"
  /\ turn = NewTurn("text")
  /\ plan = <<>> /\ loops = 0 /\ late = FALSE
  /\ sent = Nothing
  /\ turnFaults = [k \in TurnFaultKinds |-> 0]

TurnFault(k) ==
  /\ turnFaults[k] < MaxTurnFaults[k]
  /\ turnFaults' = [turnFaults EXCEPT ![k] = @ + 1]

-----------------------------------------------------------------------------
(* The sender *)

(* AgentRuntime.handle: a fresh state for every message. *)
Begin(m) ==
  /\ node = "idle" /\ turns < MaxTurns
  /\ node' = "load_context"
  /\ turn' = NewTurn(m)
  /\ turns' = turns + 1
  /\ plan' = <<>> /\ loops' = 0 /\ late' = FALSE
  /\ UNCHANGED <<registered, lane, offered, sent, turnFaults>>

(* The form is submitted and written to the job board, at any moment. *)
Register ==
  /\ offered /\ ~registered
  /\ registered' = TRUE
  /\ UNCHANGED <<lane, offered, turns, node, turn, reasoning, sent, turnFaults>>

(* agent_deadline_seconds pass while the agent reasons. *)
Elapse ==
  /\ node \in {"planner", "execute", "reflect"} /\ ~late
  /\ late' = TRUE
  /\ UNCHANGED <<registered, lane, offered, turns, node, turn, plan, loops, sent, turnFaults>>

-----------------------------------------------------------------------------
(* load_context and identify *)

LoadContext ==
  /\ node = "load_context"
  /\ turn' = [turn EXCEPT !.lane = lane]
  /\ node' = "identify"
  /\ UNCHANGED <<registered, lane, offered, turns, reasoning, sent, turnFaults>>

Picked == turn.msg \in {"seeker", "creator"}

(* The lane picked this turn is remembered; if that fails, it still counts *)
(* for this turn.                                                          *)
Remember(stored) ==
  /\ node = "identify"
  /\ turn' = [turn EXCEPT !.lane = IF Picked THEN turn.msg ELSE @]
  /\ lane' = IF Picked /\ stored THEN turn.msg ELSE lane
  /\ node' = "lookup"
  /\ UNCHANGED <<registered, offered, turns, reasoning, sent>>

RememberLane == Remember(TRUE) /\ UNCHANGED turnFaults

RememberFails ==
  /\ Picked /\ turn.lane # turn.msg
  /\ Remember(FALSE)
  /\ TurnFault("store")

(* Mutant: a stranger in the seeker lane reaches the agent. *)
DestinationAgent(known) ==
  IF turn.msg = "closer" THEN "greeting"
  ELSE IF turn.msg = "switch" THEN "role_select"
  ELSE CASE turn.lane = "creator" -> "creator"
         [] turn.lane = "seeker"  -> "menu"
         [] turn.lane = "none"    -> IF known /\ turn.msg # "greeting" THEN "menu"
                                     ELSE "role_select"

(* _route_after_identify *)
Destination(known) ==
  IF turn.msg = "closer" THEN "greeting"
  ELSE IF turn.msg = "switch" THEN "role_select"
  ELSE CASE turn.lane = "creator" -> "creator"
         [] turn.lane = "seeker"  -> IF ~known THEN "onboarding"
                                     ELSE IF Picked \/ turn.msg = "greeting" THEN "greeting"
                                     ELSE "menu"
         [] turn.lane = "none"    -> IF known /\ turn.msg # "greeting" THEN "menu"
                                     ELSE "role_select"

(* The rest of identify: a number the job board does not have is given the *)
(* registration form, staged for the onboarding reply, unless it is an     *)
(* employer's.                                                             *)
Identified(found, blind) ==
  /\ node = "lookup"
  /\ turn' = [turn EXCEPT !.known = found, !.blind = blind,
                          !.interactive = IF found \/ turn.lane = "creator" THEN "none" ELSE "lookup"]
  /\ node' = Destination(found)
  /\ UNCHANGED <<registered, lane, offered, turns, reasoning, sent>>

Lookup == Identified(registered, FALSE) /\ UNCHANGED turnFaults

(* The lookup raises, and counts as "not on the job board". *)
LookupFails == Identified(FALSE, TRUE) /\ TurnFault("lookup")

-----------------------------------------------------------------------------
(* Replies *)

(* The node drafts a reply and stages what it returns. *)
Reply(n, interactive, cards) ==
  /\ node = n
  /\ turn' = [turn EXCEPT !.draft = n, !.interactive = interactive, !.cards = cards]
  /\ node' = "humanize"
  /\ UNCHANGED <<registered, lane, offered, turns, reasoning, sent, turnFaults>>

(* Keeps what identify staged. *)
Onboarding == Reply("onboarding", turn.interactive, turn.cards)

(* A farewell sets no interactive message; the seeker hub does. *)
Greeting ==
  Reply("greeting", IF turn.msg = "closer" THEN turn.interactive ELSE "greeting", turn.cards)

(* Mutant: the question without its buttons. *)
RoleSelectText == Reply("role_select", turn.interactive, turn.cards)

RoleSelect == Reply("role_select", "role_select", turn.cards)

(* _creator_reply always sets the interactive message, if only to None:    *)
(* forms and the unlock button have one, a list of unlocked candidates or  *)
(* of posted jobs has none, the hub is two cards.                          *)
CreatorForm == Reply("creator", "creator", turn.cards)
CreatorText == Reply("creator", "none", turn.cards)
CreatorHub  == Reply("creator", "none", "creator")

Creator == CreatorForm \/ CreatorText \/ CreatorHub

Pass(from, to) ==
  /\ node = from
  /\ node' = to
  /\ UNCHANGED <<registered, lane, offered, turns, turn, reasoning, sent, turnFaults>>

(* The category list, the recommendations and the lane hint are            *)
(* interactive; the application status, and having nothing to recommend,   *)
(* are texts. Anything else, and a failing query, falls through.           *)
MenuList == Reply("menu", "menu", turn.cards)
MenuText == Reply("menu", turn.interactive, turn.cards)
NoMenu   == Pass("menu", "browse")

Menu == MenuList \/ MenuText \/ NoMenu

(* Categories, roles and single jobs are shown as cards, actions on a job  *)
(* and steps of an application are answered in text or cards.              *)
BrowseCards  == Reply("browse", turn.interactive, "browse")
BrowseText   == Reply("browse", turn.interactive, turn.cards)
NoBrowse     == Pass("browse", "summarize")

Browse == BrowseCards \/ BrowseText \/ NoBrowse

-----------------------------------------------------------------------------
(* The agent lane *)

Summarize == Pass("summarize", "planner")

(* Mutant: a plan that does not count. *)
PlannerUncounted ==
  /\ node = "planner"
  /\ \E n \in 0..MaxSteps :
       /\ plan' = [i \in 1..n |-> "pending"]
       /\ node' = IF n = 0 THEN "responder" ELSE "execute"
  /\ UNCHANGED <<registered, lane, offered, turns, turn, loops, late, sent, turnFaults>>

(* A direct answer has no steps; otherwise the model, or the fallback, has *)
(* at least one.                                                           *)
Planner ==
  /\ node = "planner"
  /\ \E n \in 0..MaxSteps :
       /\ plan' = [i \in 1..n |-> "pending"]
       /\ node' = IF n = 0 THEN "responder" ELSE "execute"
  /\ loops' = loops + 1
  /\ UNCHANGED <<registered, lane, offered, turns, turn, late, sent, turnFaults>>

(* Every pending step is dispatched; dispatch does not raise. *)
Execute ==
  /\ node = "execute"
  /\ plan' \in [DOMAIN plan -> {"done", "failed"}]
  /\ node' = IF plan' = <<"done">> THEN "responder" ELSE "reflect"
  /\ UNCHANGED <<registered, lane, offered, turns, turn, loops, late, sent, turnFaults>>

(* Mutant: one round too many. *)
CanLoopOnceMore == loops <= MaxLoops /\ ~late

CanLoop == loops < MaxLoops /\ ~late

(* The verdict is the model's; finish when it is not understood. *)
Reflect ==
  /\ node = "reflect"
  /\ node' \in {"responder"} \cup (IF CanLoop THEN {"planner"} ELSE {})
  /\ UNCHANGED <<registered, lane, offered, turns, turn, reasoning, sent, turnFaults>>

(* Only the hand-over to the app has a button. *)
Responder == Reply("responder", "responder", turn.cards) \/ Reply("responder", turn.interactive, turn.cards)

-----------------------------------------------------------------------------
(* humanize, persist and the webhook's delivery *)

Humanize == Pass("humanize", "persist")
Persist  == Pass("persist", "deliver")

Payload ==
  IF turn.cards # "none" THEN turn.cards
  ELSE IF turn.interactive # "none" THEN turn.interactive ELSE turn.draft

(* An interactive message that is rejected gives way to the drafted text. *)
Deliver ==
  /\ node = "deliver"
  /\ \E p \in {Payload} \cup (IF turn.cards = "none" THEN {turn.draft} ELSE {}) :
       /\ sent' = [turn |-> turn, payload |-> p]
       /\ offered' = (offered \/ p = "lookup" \/ turn.draft = "onboarding")
  /\ node' = "idle"
  /\ UNCHANGED <<registered, lane, turns, turn, reasoning, turnFaults>>

(* Redis, the session store or the summary raises: the route answers 500. *)
TurnFails ==
  /\ node # "idle"
  /\ TurnFault("turn")
  /\ node' = "idle"
  /\ UNCHANGED <<registered, lane, offered, turns, turn, reasoning, sent>>

-----------------------------------------------------------------------------
TurnStep ==
  \/ LoadContext \/ RememberLane \/ RememberFails \/ Lookup \/ LookupFails
  \/ Onboarding \/ Greeting \/ RoleSelect \/ Creator \/ Menu \/ Browse
  \/ Summarize \/ Planner \/ Execute \/ Reflect \/ Responder
  \/ Humanize \/ Persist \/ Deliver

TurnNext ==
  \/ \E m \in Messages : Begin(m)
  \/ TurnStep \/ Register \/ Elapse \/ TurnFails

TurnSpec == TurnInit /\ [][TurnNext]_turnVars

(* The event loop runs a started turn on: every node's awaits time out. *)
FairTurnSpec == TurnSpec /\ WF_turnVars(TurnStep)

-----------------------------------------------------------------------------
(* Properties *)

(* Type invariant. The budget of the reasoning loop is part of it: the     *)
(* planner runs at most MaxLoops times in a turn.                          *)
TurnTypeOK ==
  /\ registered \in BOOLEAN /\ offered \in BOOLEAN /\ late \in BOOLEAN
  /\ lane \in Lanes
  /\ turns \in 0..MaxTurns
  /\ node \in Nodes
  /\ turn \in Turn
  /\ plan \in Seq({"pending", "done", "failed"}) /\ Len(plan) <= MaxSteps
  /\ loops \in 0..MaxLoops
  /\ sent = Nothing \/ sent \in Sent
  /\ turnFaults \in [TurnFaultKinds -> Nat]

(* Only numbers on the job board are reasoned about, searched for and      *)
(* given tools: "A new number (not in the DB) is always onboarded"         *)
(* (_identify), whatever its lane, its history of failures and the moment  *)
(* its form arrives.                                                       *)
StrangersUseNoTools == node \in AgentLane => registered

(* A sender who was on the job board when the turn began is asked to       *)
(* register again only if this turn's lookup failed: "once it lands the    *)
(* next turn's phone lookup finds them and they're known" (_identify).     *)
NeverReonboarded ==
  (sent # Nothing /\ sent.turn.draft = "onboarding" /\ sent.turn.wasRegistered) => sent.turn.blind

(* "Once a lane is chosen it's remembered, so it's never re-asked"         *)
(* (_route_after_identify): a sender whose lane was stored gets the choice *)
(* again only by typing "switch".                                          *)
LaneAskedOnce ==
  (sent # Nothing /\ sent.turn.draft = "role_select" /\ sent.turn.hadLane # "none") =>
    sent.turn.msg = "switch"

(* Where a turn goes follows from what is known of the sender, at every    *)
(* turn: the three together.                                               *)
RoutedByIdentity == StrangersUseNoTools /\ NeverReonboarded /\ LaneAskedOnce

(* What is sent was made by the node that answered; the onboarding reply   *)
(* sends the form that identify made for it.                               *)
Answers(s) == s.payload = s.turn.draft \/ (s.payload = "lookup" /\ s.turn.draft = "onboarding")

(* "never lets a stale button (e.g. a leaked onboarding cta) ride out"     *)
(* (_creator_reply), of every node: no reply carries another node's        *)
(* payload, but for the farewell, which does send an unregistered number   *)
(* the form that identify staged.                                          *)
StaleOnlyOnFarewell ==
  (sent # Nothing /\ ~Answers(sent)) => sent.turn.msg = "closer" /\ ~sent.turn.known

(* Every turn ends: with a reply or an error, however often the model      *)
(* asks to replan.                                                         *)
TurnEnds == (node # "idle") ~> (node = "idle")
=============================================================================
