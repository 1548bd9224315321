----------------------------- MODULE SearchTurn -----------------------------
(***************************************************************************)
(* The turns of one job seeker, from a message in any language to a reply  *)
(* in the same: the menu and browse shortcuts, the agent's tools, the      *)
(* reply and its grounding, the job pinned for the next turn, translation. *)
(* AgentTurn has the lanes and nodes around it. Here is what they read and *)
(* say, while the job board changes between any two awaits.                *)
(*                                                                         *)
(* handle takes no lock, so turns of one sender overlap. One is followed   *)
(* step by step; the others that are under way are Rivals, and do at any   *)
(* moment what a turn does to the memory that all share.                   *)
(*                                                                         *)
(* A turn that raises sends nothing; Conversation and AgentTurn have that. *)
(***************************************************************************)
EXTENDS Grounding, Localize

CONSTANTS
  Rivals,       (* other turns of the sender that may be under way         *)
  Seeker,       (* the sender                                              *)
  SeekerSkills, (* the skills of the sender's registration                 *)
  SeekerPlace,  (* the place in the form, or Unasked                       *)
  Pays,         (* salaries                                                *)
  Opening,      (* job -> its salary at the start                          *)
  FirstStatus,  (* job -> its status at the start                          *)
  Messages,     (* what the sender may send, see Message                   *)
  Calls,        (* steps that the model may plan, see Step                 *)
  Claims,       (* claims that a draft of the model may make               *)
  MaxLoops,     (* settings.agent_max_loops                                *)
  CardLimit,    (* _CATEGORY_CARD_LIMIT, the limit of the title search     *)
  MaxTurns, MaxEdits, MaxFaults, MaxSteps, (* bounds of a behaviour: its   *)
  MaxEvents     (* turns, edits, faults, planned steps, and all together   *)

NoJob == Unasked
Menus == {"menu_search", "menu_recommend", "menu_status"}

(* What the regular expressions and searches find in a message's English,  *)
(* its script and its numbers; whether it is a label of the glossary; for  *)
(* a tap, the same of the button's label, and what is tapped.              *)
Message ==
  [script: DOMAIN Scripts, label: BOOLEAN, typed: SUBSET Nat,
   words: SUBSET UNION {Title[j] \cup Skills[j] \cup CategoryWords[Category[j]] : j \in Jobs},
   phrased: SUBSET Jobs, phrase: Phrases \cup {Unasked},
   followup: BOOLEAN, apply: BOOLEAN, order: BOOLEAN, menu: Menus \cup {""},
   tap: {"", "view", "category"} \cup Menus, ref: {Slug[j] : j \in Jobs} \cup {Unasked}]

ASSUME MessagesAssumption == Messages \subseteq Message
ASSUME CallsAssumption ==
  \A c \in Calls : c.tool \in Tools /\ c.phrase \in Phrases \cup {Unasked} /\ c.limit \in Nat
ASSUME ClaimsAssumption ==
  /\ NoClaim \in Claims
  /\ Claims \subseteq {NoClaim} \cup [what: {"salary"}, of: Pays, seen: BOOLEAN]
                                \cup [what: {"count"}, of: Nat, seen: BOOLEAN]
ASSUME BoardAssumption ==
  \A j \in Jobs : Opening[j] \in Pays \cup {None} /\ FirstStatus[j] \in Statuses
ASSUME BoundsAssumption ==
  /\ {MaxSteps, MaxLoops, CardLimit, MaxTurns, MaxEdits, MaxFaults, MaxEvents} \subseteq Nat
  /\ CardLimit > 0 /\ MaxSteps > 0

NoFact == [category |-> Unasked, hits |-> <<>>]
NoPin  == [job |-> NoJob, loose |-> FALSE]
NoPush == [lang |-> "en", expected |-> "en", left |-> {}, excused |-> TRUE]

(* A turn of another message: how far it is, the language the message is   *)
(* in, what it found stored, the job it has pinned and not shown yet; and  *)
(* history, as of the turn that is followed.                               *)
NoRival ==
  [at |-> "gone", says |-> "unsaid", found |-> "en", job |-> NoJob,
   spoke |-> [lang |-> "en", kept |-> FALSE], alone |-> FALSE]

(* A reply: its text, the jobs it shows in order, the claim of the model.  *)
Blank == [text |-> "", shown |-> <<>>, claim |-> NoClaim]

VARIABLES
  board,     (* private_jobs                                               *)
  applied,   (* private_job_applications                                   *)
  pin,       (* the current job, in Redis; and whether it may not be shown *)
  stored,    (* the fact "lang" of the sender                              *)
  cache,     (* the translation cache of the process                       *)
  others,    (* the other turns that are under way                         *)
  node,      (* where the turn is                                          *)
  turn,      (* the turn: see NewTurn                                      *)
  plan,      (* its steps yet to run                                       *)
  steps,     (* how many steps the plan had                                *)
  loops,     (* loop_count                                                 *)
  fact,      (* what a first query found, which a second one uses          *)
  results,   (* tool_results                                               *)
  catalog,   (* catalog_hits                                               *)
  draft,     (* the reply                                                  *)
  left,      (* texts of the reply that are left in English                *)
  pushed,    (* the last message sent out of band since the last turn      *)
  count,     (* how many turns, edits, faults, planned steps so far        *)
  shown,     (* history: jobs that a list or a card of a reply has shown   *)
  owed,      (* history: jobs pinned by a reply that is not out, or lost   *)
  speaks     (* history: the language used last, and if it is sure to be   *)
             (* what is stored                                             *)

thoughts  == <<plan, steps, loops, fact, results>>
reply     == <<catalog, draft, left>>
world     == <<board, applied>>
memory    == <<pin, stored, cache, others>>
history   == <<pushed, shown, speaks, owed>>
vars      == <<world, memory, node, turn, thoughts, reply, history, count>>

-----------------------------------------------------------------------------
(* The language of a message: of what is typed; of the label that is       *)
(* tapped if it has one. A reply is in that, or else in the remembered.    *)
Unsaid == "unsaid"
Says(m) == IF m.tap # "" /\ Scripts[m.script] = "en" THEN Unsaid ELSE Scripts[m.script]
Language(says, found) == IF says = Unsaid THEN found ELSE says

(* Turns that may still store a language. *)
InFlight   == node \notin {"idle", "deliver"}
Crossing(r) == others[r].at \in {"begun", "loaded", "pinned"}
Quiet      == ~InFlight /\ \A r \in Rivals : ~Crossing(r)

(* History goes by the column alone. *)
Live(b) == {j \in Jobs : b[j].status = "LIVE"}

CountsOf(b) ==
  {Cardinality(Live(b)), Cardinality({Category[j] : j \in Live(b)})}
    \cup {Cardinality({k \in Live(b) : Category[k] = Category[j]}) : j \in Live(b)}

(* A turn: the message, whether its text is read in English, the language  *)
(* of the reply, the language and the pin that are loaded for it, whether  *)
(* the follow-up shortcut planned it. Then history: the jobs that were     *)
(* open at some moment of the turn and at all of them, the salaries of     *)
(* open jobs and how many there were, whether the sender had applied, the  *)
(* language of the turn before, whether the turn is the only one under way *)
(* so far, and what has failed.                                            *)
NewTurn(m) ==
  [msg |-> m, english |-> (m.tap # "" \/ Scripts[m.script] = "en"), lang |-> Language(Says(m), "en"),
   found |-> "en", pin |-> NoPin, shortcut |-> FALSE,
   live |-> Live(board), always |-> Live(board), pays |-> {board[j].pay : j \in Live(board)},
   counts |-> CountsOf(board), hadApplied |-> (\E a \in applied : Applicant[a] = Seeker),
   spoke |-> speaks, alone |-> Quiet, failed |-> {}]

NoMessage ==
  [script |-> "none", label |-> FALSE, typed |-> {}, words |-> {}, phrased |-> {}, phrase |-> Unasked,
   followup |-> FALSE, apply |-> FALSE, order |-> FALSE, menu |-> "", tap |-> "", ref |-> Unasked]

NoTurn ==
  [msg |-> NoMessage, english |-> TRUE, lang |-> "en", found |-> "en", pin |-> NoPin, shortcut |-> FALSE,
   live |-> {}, always |-> {}, pays |-> {}, counts |-> {}, hadApplied |-> FALSE,
   spoke |-> [lang |-> "en", kept |-> FALSE], alone |-> FALSE, failed |-> {}]

Init ==
  /\ board = [j \in Jobs |-> [status |-> FirstStatus[j], pay |-> Opening[j]]]
  /\ applied \in {{}, {a \in Applications : Applicant[a] = Seeker}}
  /\ pin = NoPin /\ stored = "en"
  /\ cache = [k \in Fixed \X Languages |-> "nothing"]
  /\ others = [r \in Rivals |-> NoRival]
  /\ node = "idle" /\ turn = NoTurn
  /\ plan = <<>> /\ steps = 0 /\ loops = 0 /\ fact = NoFact /\ results = <<>>
  /\ catalog = <<>> /\ draft = Blank /\ left = {}
  /\ pushed = NoPush /\ shown = {} /\ owed = {} /\ speaks = [lang |-> "en", kept |-> TRUE]
  /\ count = [turns |-> 0, edits |-> 0, faults |-> 0, steps |-> 0]

Left == MaxEvents - (count.turns + count.edits + count.faults + count.steps)

Goto(from, to) == node = from /\ node' = to

Mishap ==
  /\ count.faults < MaxFaults /\ Left > 0
  /\ count' = [count EXCEPT !.faults = @ + 1]

Fault(what) ==
  /\ Mishap
  /\ turn' = [turn EXCEPT !.failed = @ \cup {what}]

NoFault == UNCHANGED <<count, turn>>

(* A node drafts the reply and stages the jobs it found. *)
Say(text, jobs, rows) ==
  /\ draft' = [text |-> text, shown |-> jobs, claim |-> NoClaim]
  /\ catalog' = rows
  /\ node' = "persist"
  /\ UNCHANGED <<world, memory, history, left>>

(* The turn goes on without a reply. *)
Pass(from, to) ==
  /\ Goto(from, to)
  /\ UNCHANGED <<world, memory, history, reply>>

-----------------------------------------------------------------------------
(* Around the turn *)

(* The turn's history of the board is what is open now, too. *)
Watch ==
  turn' = IF node = "idle" THEN turn
          ELSE [turn EXCEPT !.live = @ \cup Live(board'), !.always = @ \cap Live(board'),
                            !.pays = @ \cup {board'[j].pay : j \in Live(board')},
                            !.counts = @ \cup CountsOf(board')]

(* Nothing of the world is read from here on. *)
Answered == node \in {"persist", "localize", "remember", "deliver"}

(* Employers, the team that approves and the expiry job change the board.  *)
Edit(j, row) ==
  /\ ~Answered /\ count.edits < MaxEdits /\ Left > 0
  /\ board' = [board EXCEPT ![j] = row]
  /\ board' # board
  /\ count' = [count EXCEPT !.edits = @ + 1]
  /\ Watch
  /\ UNCHANGED <<applied, memory, node, thoughts, reply, history>>

(* An application arrives, from the app or from another turn. *)
ApplyElsewhere(a) ==
  /\ a \notin applied /\ ~Answered /\ count.edits < MaxEdits /\ Left > 0
  /\ applied' = applied \cup {a}
  /\ count' = [count EXCEPT !.edits = @ + 1]
  /\ UNCHANGED <<board, memory, node, turn, thoughts, reply, history>>

(* _CACHE_MAX pushes the oldest entry out; a restart, all of them. *)
Evict(k) ==
  /\ node = "idle" /\ cache[k] # "nothing"
  /\ cache' = [cache EXCEPT ![k] = "nothing"]
  /\ UNCHANGED <<world, pin, stored, others, node, turn, thoughts, reply, history, count>>

(* The pin's TTL passes, or a farewell clears it. *)
Unpin ==
  /\ pin # NoPin /\ pin' = NoPin
  /\ UNCHANGED <<world, stored, cache, others, node, turn, thoughts, reply, history, count>>

(* localize.send: a notice in the language that is stored; what the model  *)
(* misses stays English. The turns it may interrupt are rivals.            *)
Push ==
  /\ node = "idle" /\ count.turns > 0
  /\ \E found \in BOOLEAN :
       LET lang == IF found THEN stored ELSE "en"
           todo == Todo(cache, {"notice", "buttons"}, lang)
       IN \E done \in IF lang = "en" THEN {todo} ELSE SUBSET todo :
            /\ pushed' = [lang |-> lang, expected |-> speaks.lang,
                          excused |-> ~found \/ done # todo \/ ~speaks.kept,
                          left |-> IF lang = "en" THEN {}
                                   ELSE LeftInEnglish(cache, {"notice", "buttons"}, lang, done)]
            /\ cache' = IF lang = "en" THEN cache ELSE Cached(cache, {"notice", "buttons"}, lang, done)
            /\ IF found /\ done = todo THEN UNCHANGED count ELSE Mishap
  /\ UNCHANGED <<world, pin, stored, others, node, turn, thoughts, reply, shown, speaks, owed>>

-----------------------------------------------------------------------------
(* The message *)

(* Every turn that is under way is not alone any more. *)
Crossed == [r \in Rivals |-> [others[r] EXCEPT !.alone = FALSE]]

Arrival(says) ==
  /\ count.turns < MaxTurns /\ Left > 0
  /\ count' = [count EXCEPT !.turns = @ + 1]
  /\ speaks' = [lang |-> Language(says, speaks.lang), kept |-> FALSE]
  /\ pushed' = NoPush

(* handle: a fresh state for every message; what is typed in another       *)
(* script is translated first.                                             *)
Begin(m) ==
  /\ node = "idle"
  /\ Arrival(Says(m))
  /\ node' = IF m.tap = "" /\ Scripts[m.script] # "en" THEN "to_english" ELSE "load"
  /\ turn' = NewTurn(m)
  /\ others' = Crossed
  /\ UNCHANGED <<world, pin, stored, cache, thoughts, reply, shown, owed>>

(* A label of the glossary needs no model. *)
ToEnglish ==
  /\ Goto("to_english", "load")
  /\ turn' = [turn EXCEPT !.english = TRUE]
  /\ UNCHANGED <<world, memory, thoughts, reply, history, count>>

(* The original is routed as it is: nothing English is found in it. *)
ToEnglishFails ==
  /\ ~turn.msg.label
  /\ Fault("translate")
  /\ Pass("to_english", "load") /\ UNCHANGED thoughts

(* load_context: the facts and the pin, which the turn does not read again *)
(* whatever other turns do to them.                                        *)
LoadContext ==
  /\ Goto("load", "menu")
  /\ turn' = [turn EXCEPT !.found = stored, !.pin = pin, !.lang = Language(Says(turn.msg), stored)]
  /\ UNCHANGED <<world, memory, thoughts, reply, history, count>>

Phrase == IF turn.english THEN turn.msg.phrase ELSE Unasked
Words  == IF turn.english THEN turn.msg.words ELSE {}
OrderHint == turn.english /\ turn.msg.order
Followup  == turn.english /\ turn.msg.followup
Wants(entry) == turn.msg.tap = entry \/ (turn.english /\ turn.msg.menu = entry)

-----------------------------------------------------------------------------
(* The menu *)

(* _category_menu: how many open jobs there are, and the areas to pick. *)
MenuSearch ==
  /\ node = "menu" /\ Wants("menu_search") /\ Open(board) # {}
  /\ Say("categories", <<>>, catalog)
  /\ NoFault /\ UNCHANGED thoughts

List(rows) == Say("list", Top(rows, CardLimit), Top(rows, CardLimit)) /\ NoFault /\ UNCHANGED thoughts

(* _recommend_menu: by skills, or else by similarity, or else the newest. *)
MenuRecommend ==
  /\ node = "menu" /\ Wants("menu_recommend")
  /\ LET rows == RecommendBySkills(board, SeekerSkills, CardLimit)
     IN rows # <<>> /\ List(rows)

MenuRecommendHits ==
  /\ Pass("menu", "recommend")
  /\ Wants("menu_recommend")
  /\ \E hits \in Hits : fact' = [NoFact EXCEPT !.hits = hits]
  /\ IF RecommendBySkills(board, SeekerSkills, CardLimit) = <<>> THEN NoFault ELSE Fault("search")
  /\ UNCHANGED <<plan, steps, loops, results>>

Recommended == Hydrate(board, fact.hits, [NoFacets EXCEPT !.place = SeekerPlace], CardLimit)

RecommendByRole == node = "recommend" /\ Recommended # <<>> /\ List(Recommended)

(* Nothing is found by similarity; then a query of its own. *)
RecommendNone ==
  /\ Pass("recommend", "newest")
  /\ Recommended = <<>>
  /\ NoFault /\ UNCHANGED thoughts

RecommendNewest ==
  /\ node = "newest"
  /\ LET rows == Search(board, Unasked, NoFacets, CardLimit)
     IN IF rows = <<>> THEN Say("nothing", <<>>, <<>>) /\ NoFault /\ UNCHANGED thoughts ELSE List(rows)

(* Its queries raise: it says there is nothing, and the turn goes on. *)
RecommendFails ==
  /\ node \in {"recommend", "newest"}
  /\ Fault("search")
  /\ Say("nothing", <<>>, <<>>) /\ UNCHANGED thoughts

(* _status_menu *)
MenuStatus ==
  /\ node = "menu" /\ Wants("menu_status")
  /\ LET step   == Step("get_application_status")
         result == [NoResult(step) EXCEPT !.apps = ApplicationStatus(applied, Seeker, Unasked)]
     IN \E text \in StatusReply(<<result>>) : Say(text, <<>>, catalog)
  /\ NoFault /\ UNCHANGED thoughts

(* Anything else is for the browse node, and so is an area menu with no    *)
(* areas; and whatever is asked if its query raises.                       *)
NoMenu ==
  /\ Pass("menu", "browse")
  /\ UNCHANGED thoughts
  /\ \/ ~\E entry \in Menus : Wants(entry)
     \/ Wants("menu_search") /\ Open(board) = {}
  /\ NoFault

MenuFails ==
  /\ Pass("menu", "browse")
  /\ UNCHANGED thoughts
  /\ Wants("menu_search") \/ Wants("menu_status")
  /\ Fault("menu")

Menu == MenuSearch \/ MenuRecommend \/ MenuRecommendHits \/ MenuStatus \/ NoMenu \/ MenuFails
Recommend == RecommendByRole \/ RecommendNone \/ RecommendNewest \/ RecommendFails

-----------------------------------------------------------------------------
(* Browsing without the model *)

(* Mutant: a card for every job. *)
AllCards(rows) == rows

(* job_cards: one message each. *)
Cards(rows) == Top(rows, CardLimit)

Typed == turn.msg.tap \notin {"view", "category"} /\ ~OrderHint

Named == IF Phrase = Unasked THEN Unasked ELSE MatchCategory(board, Phrase)

(* _browse_one: the job of a card or a row that is tapped. *)
BrowseOne ==
  /\ node = "browse" /\ turn.msg.tap = "view"
  /\ \E j \in GetByRef(board, turn.msg.ref) :
       LET rows == <<Row(board, j)>> IN Say("cards", Cards(rows), rows)
  /\ NoFault /\ UNCHANGED thoughts

BrowseNone ==
  /\ Pass("browse", "planner")
  /\ \/ turn.msg.tap = "view" /\ GetByRef(board, turn.msg.ref) = {}
     \/ turn.msg.tap = "category" /\ Named = Unasked
     \/ turn.msg.tap \notin {"view", "category"} /\ OrderHint
  /\ NoFault /\ UNCHANGED thoughts

BrowseOneFails ==
  /\ Pass("browse", "planner") /\ turn.msg.tap = "view"
  /\ Fault("search") /\ UNCHANGED thoughts

(* A category that is tapped, or named in the text. *)
NameCategory ==
  /\ Pass("browse", "browse_category")
  /\ (turn.msg.tap = "category" \/ Typed) /\ Named # Unasked
  /\ fact' = [NoFact EXCEPT !.category = Named]
  /\ NoFault /\ UNCHANGED <<plan, steps, loops, results>>

NameNoCategory ==
  /\ Pass("browse", "browse_title")
  /\ Typed /\ Named = Unasked
  /\ NoFault /\ UNCHANGED thoughts

(* Its jobs are read by a query of its own. *)
BrowseCategory ==
  /\ node \in {"browse_category", "browse_classified"}
  /\ LET rows == Search(board, fact.category, NoFacets, CategoryLimit)
     IN rows # <<>> /\ Say("cards", Cards(rows), rows)
  /\ NoFault /\ UNCHANGED thoughts

(* The last of them has closed since, or the query raises. *)
Uncategorised ==
  /\ \/ Pass("browse_category", IF turn.msg.tap = "category" THEN "planner" ELSE "browse_title")
     \/ Pass("browse_classified", "planner")
  /\ fact' = NoFact
  /\ UNCHANGED <<plan, steps, loops, results>>

BrowseEmpty == Uncategorised /\ Search(board, fact.category, NoFacets, CategoryLimit) = <<>> /\ NoFault
BrowseFails == Uncategorised /\ Fault("search")

Titled == SearchByTitle(board, Words, turn.msg.phrased, CardLimit)

(* _browse_role_search *)
BrowseTitle ==
  /\ node = "browse_title" /\ Titled # <<>>
  /\ Say("cards", Cards(Titled), Titled)
  /\ NoFault /\ UNCHANGED thoughts

AfterTitle == IF turn.lang = "en" \/ turn.msg.tap # "" THEN "planner" ELSE "classify"

BrowseTitleNone == Pass("browse_title", AfterTitle) /\ Titled = <<>> /\ NoFault /\ UNCHANGED thoughts
BrowseTitleFails == Pass("browse_title", AfterTitle) /\ Fault("search") /\ UNCHANGED thoughts

(* _browse_category_classified: what is typed in another language, as a    *)
(* category: one whose translation it is, or one that the model names. The *)
(* name is then matched like a text.                                       *)
Classify ==
  /\ node = "classify"
  /\ \E done \in SUBSET Todo(cache, {"categories"}, turn.lang) :
       /\ cache' = Cached(cache, {"categories"}, turn.lang, done)
       /\ IF done = Todo(cache, {"categories"}, turn.lang) THEN NoFault ELSE Fault("translate")
  /\ \E name \in Labels \cup {Unasked} :
       LET category == IF name = Unasked THEN Unasked ELSE MatchCategory(board, name)
       IN /\ fact' = [NoFact EXCEPT !.category = category]
          /\ node' = IF category = Unasked THEN "planner" ELSE "browse_classified"
  /\ UNCHANGED <<world, pin, stored, others, history, reply, plan, steps, loops, results>>

Browse ==
  \/ BrowseOne \/ BrowseNone \/ BrowseOneFails \/ NameCategory \/ NameNoCategory \/ BrowseCategory
  \/ BrowseEmpty \/ BrowseFails \/ BrowseTitle \/ BrowseTitleNone \/ BrowseTitleFails \/ Classify

-----------------------------------------------------------------------------
(* The agent *)

(* The plan of the planner node. *)
Plan(p) ==
  /\ plan' = p /\ steps' = Len(p)
  /\ loops' = loops + 1
  /\ node' = IF p = <<>> THEN "responder" ELSE "execute"
  /\ UNCHANGED <<world, memory, history, reply, fact, results>>

OnPinned == turn.pin.job # NoJob /\ Followup

(* A follow-up on the job that was shown last is answered from memory, or  *)
(* is an application for it.                                               *)
PlanFollowup ==
  /\ node = "planner" /\ OnPinned
  /\ Plan(IF turn.msg.apply THEN <<[Step("submit_application") EXCEPT !.ref = Slug[turn.pin.job]]>> ELSE <<>>)
  /\ turn' = [turn EXCEPT !.shortcut = TRUE]
  /\ UNCHANGED count

(* Any plan of the model; a search for what was typed if it makes none. *)
PlanModel ==
  /\ node = "planner" /\ ~OnPinned
  /\ \E p \in SeqOf(Calls \cup {Step("search_jobs")}, Min({Left, MaxSteps - count.steps})) :
       /\ Plan(p)
       /\ count' = [count EXCEPT !.steps = @ + Len(p)]
  /\ UNCHANGED turn

Call == Head(plan)

(* A step has its result: the next one, or the route after the last. *)
Executed(result) ==
  /\ results' = Append(results, result)
  /\ catalog' = IF result.rows # <<>> THEN result.rows ELSE catalog
  /\ plan' = Tail(plan)
  /\ fact' = NoFact
  /\ node' = IF Tail(plan) # <<>> THEN "execute"
             ELSE IF steps = 1 /\ ~result.failed THEN "responder" ELSE "reflect"
  /\ UNCHANGED <<world, memory, history, draft, left, steps, loops>>

(* A tool that reads once. *)
Answer(call) ==
  CASE call.tool = "list_jobs_overview" -> {[NoResult(call) EXCEPT !.counts = Counts(board)]}
    [] call.tool = "submit_application" ->
         {[NoResult(call) EXCEPT !.link = link, !.failed = (link = {})] : link \in SubmitApplication(board, call.ref)}
    [] call.tool = "get_application_status" ->
         {[NoResult(call) EXCEPT !.apps = ApplicationStatus(applied, Seeker, call.ref)]}
    [] call.tool = "search_docs" -> {[NoResult(call) EXCEPT !.counts = {n}] : n \in 0..DocLimit}
    [] call.tool = "other" -> {NoResult(call)}
    [] OTHER -> {}

Dispatch == node = "execute" /\ (\E result \in Answer(Call) : Executed(result)) /\ NoFault

(* A search reads twice: the category or the vectors first, then the rows. *)
SearchFirst ==
  /\ Pass("execute", "search_rows")
  /\ Call.tool = "search_jobs"
  /\ IF Call.phrase # Unasked
     THEN fact' = [NoFact EXCEPT !.category = ResolveCategory(board, Call.phrase)]
     ELSE \E hits \in Hits : fact' = [NoFact EXCEPT !.hits = hits]
  /\ NoFault /\ UNCHANGED <<plan, steps, loops, results>>

Wider(limit) == IF limit > CategoryLimit THEN limit ELSE CategoryLimit

SearchRows ==
  /\ node = "search_rows"
  /\ LET rows == IF fact.category # Unasked
                 THEN Search(board, fact.category, Call.facets, Wider(Call.limit))
                 ELSE Hydrate(board, fact.hits, Call.facets, Call.limit)
     IN Executed([NoResult(Call) EXCEPT !.rows = rows])
  /\ NoFault

(* dispatch does not raise. *)
DispatchFails ==
  /\ node \in {"execute", "search_rows"}
  /\ Executed(FailedResult(Call))
  /\ Fault("tool")

Execute == Dispatch \/ SearchFirst \/ SearchRows \/ DispatchFails

(* The model finishes or, within the budget, asks for another plan. *)
Reflect ==
  /\ \/ Pass("reflect", "responder")
     \/ loops < MaxLoops /\ Pass("reflect", "planner")
  /\ NoFault /\ UNCHANGED thoughts

-----------------------------------------------------------------------------
(* The responder *)

RespondStatus ==
  /\ node = "responder"
  /\ \E text \in StatusReply(results) : Say(text, <<>>, catalog)
  /\ NoFault /\ UNCHANGED thoughts

(* The link is of the job, as a card of it would be. *)
RespondLink ==
  /\ node = "responder" /\ StatusReply(results) = {}
  /\ \E j \in LinkReply(results) : Say("link", <<[job |-> j, pay |-> None]>>, catalog)
  /\ NoFault /\ UNCHANGED thoughts

ToModel == StatusReply(results) = {} /\ LinkReply(results) = {}

RespondListing ==
  /\ node = "responder" /\ ToModel
  /\ \E rows \in ListingReply(results) : Say("listing", rows, catalog)
  /\ NoFault /\ UNCHANGED thoughts

(* The model's text, with its claim. *)
Write(text, claim) ==
  /\ draft' = [text |-> text, shown |-> <<>>, claim |-> claim]
  /\ node' = "persist"
  /\ UNCHANGED <<world, memory, history, catalog, left, thoughts>>

Drafting == node = "responder" /\ ToModel /\ ListingReply(results) = {}

Supported(claim) == Valid(claim, results, turn.msg.typed)

RespondDraft == Drafting /\ (\E c \in Claims : Supported(c) /\ Write("answer", c)) /\ NoFault

RespondBusy == Drafting /\ Write("busy", NoClaim) /\ Fault("model")

(* A draft that says more than it may is written once more. *)
RespondRewrite ==
  /\ Drafting /\ (\E c \in Claims : ~Supported(c))
  /\ Pass("responder", "rewrite") /\ NoFault /\ UNCHANGED thoughts

(* Mutant: the second draft is taken as it is. *)
RewriteUnread == node = "rewrite" /\ (\E c \in Claims : Write("answer", c)) /\ NoFault

(* _validate_or_regenerate: a second draft that is no better, or none, is  *)
(* replaced by a question.                                                 *)
Rewrite ==
  /\ node = "rewrite"
  /\ \E c \in Claims : IF Supported(c) THEN Write("answer", c) ELSE Write("safe", NoClaim)
  /\ NoFault

RewriteFails == node = "rewrite" /\ Write("safe", NoClaim) /\ Fault("model")

Respond == RespondStatus \/ RespondLink \/ RespondListing \/ RespondDraft \/ RespondBusy
           \/ RespondRewrite \/ Rewrite \/ RewriteFails

-----------------------------------------------------------------------------
(* The end of the turn *)

(* The jobs of the last search may not be the ones the reply tells of: a   *)
(* draft is free to tell of any, a listing is of the first search.         *)
Loose == results # <<>> /\ (draft.text # "listing" \/ \E m, n \in Finds(results) : m # n)

(* Mutant: the job that was found last. *)
PinnedLast == [job |-> Last(catalog).job, loose |-> Loose]

(* _focus_product *)
Pinned == [job |-> Head(catalog).job, loose |-> Loose]

Pinning == ~OrderHint /\ catalog # <<>>

(* What the reply has to show since it is pinned: history. *)
Own == IF Pinning /\ ~Pinned.loose THEN {Pinned.job} ELSE {}

(* The pin is set for whatever turn loads it next; the reply is not out.   *)
Persist ==
  /\ Goto("persist", IF turn.lang = "en" THEN "remember" ELSE "localize")
  /\ pin' = IF Pinning THEN Pinned ELSE pin
  /\ owed' = owed \cup Own
  /\ UNCHANGED <<world, stored, cache, others, turn, thoughts, reply, pushed, shown, speaks, count>>

(* What is read in a reply: its text, the areas, the labels of buttons. *)
Texts ==
  {"text"} \cup (IF draft.text = "categories" THEN {"categories"} ELSE {})
           \cup (IF draft.text \in {"cards", "list", "categories", "link"} THEN {"buttons"} ELSE {})

(* _localize_outputs *)
Localize ==
  /\ Goto("localize", "remember")
  /\ \E done \in SUBSET Todo(cache, Texts, turn.lang) :
       /\ left' = LeftInEnglish(cache, Texts, turn.lang, done)
       /\ cache' = Cached(cache, Texts, turn.lang, done)
       /\ IF done = Todo(cache, Texts, turn.lang) THEN NoFault ELSE Fault("translate")
  /\ UNCHANGED <<world, pin, stored, others, thoughts, catalog, draft, history>>

(* What a turn makes sure of that stored its language and met no other:    *)
(* history.                                                                *)
Kept(says, spoke, alone) == alone /\ (says # Unsaid \/ spoke.kept)

(* _persist_lang, if it is not what was loaded; it may fail. *)
Remember ==
  /\ Goto("remember", "deliver")
  /\ \/ /\ stored' = IF turn.lang # turn.found THEN turn.lang ELSE stored
        /\ speaks' = [speaks EXCEPT !.kept = Kept(Says(turn.msg), turn.spoke, turn.alone)]
        /\ NoFault
     \/ turn.lang # turn.found /\ UNCHANGED <<stored, speaks>> /\ Fault("remember")
  /\ UNCHANGED <<world, pin, cache, others, thoughts, reply, pushed, shown, owed>>

(* The turn's state is dropped. *)
Reset ==
  /\ turn' = NoTurn
  /\ plan' = <<>> /\ steps' = 0 /\ loops' = 0 /\ fact' = NoFact /\ results' = <<>>
  /\ catalog' = <<>> /\ draft' = Blank /\ left' = {}

Shows == IF draft.text \in {"cards", "list", "listing"} THEN JobsOf(draft.shown) ELSE {}

(* The reply is sent, in one message or several; what WhatsApp refuses or  *)
(* does not answer is logged, and lost.                                    *)
Deliver ==
  /\ Goto("deliver", "idle")
  /\ \E sent \in SUBSET Shows :
       /\ shown' = shown \cup sent
       /\ \/ sent = Shows /\ owed' = owed \ Own /\ UNCHANGED count
          \/ sent # Shows /\ UNCHANGED owed /\ Mishap
  /\ Reset
  /\ UNCHANGED <<world, memory, pushed, speaks>>

(* The process dies, or a step raises: nothing is sent. What was persisted *)
(* stays.                                                                  *)
Die ==
  /\ node # "idle" /\ node' = "idle"
  /\ Reset /\ Mishap
  /\ UNCHANGED <<world, memory, history>>

-----------------------------------------------------------------------------
(* Other turns of the same sender: what they do to the shared memory. What *)
(* they find, say and pin may be anything.                                 *)

Advance(r, from, to) == others[r].at = from /\ others' = [others EXCEPT ![r] = to]

RivalBegins(r, says) ==
  /\ others[r].at = "gone"
  /\ Arrival(says)
  /\ others' = [Crossed EXCEPT ![r] = [NoRival EXCEPT !.at = "begun", !.says = says, !.spoke = speaks, !.alone = Quiet]]
  /\ turn' = IF InFlight
             THEN [turn EXCEPT !.alone = FALSE, !.spoke.kept = @ /\ node \notin {"to_english", "load"}]
             ELSE turn
  /\ UNCHANGED <<world, pin, stored, cache, node, thoughts, reply, shown, owed>>

RivalLoads(r) ==
  /\ Advance(r, "begun", [others[r] EXCEPT !.at = "loaded", !.found = stored])
  /\ UNCHANGED <<world, pin, stored, cache, node, turn, thoughts, reply, history, count>>

(* The job of a loose pin is not owed: it need not be in the reply.        *)
RivalPins(r, j, loose) ==
  /\ Advance(r, "loaded", [others[r] EXCEPT !.at = "pinned", !.job = IF loose THEN NoJob ELSE j])
  /\ pin' = [job |-> j, loose |-> loose]
  /\ owed' = IF loose THEN owed ELSE owed \cup {j}
  /\ UNCHANGED <<world, stored, cache, node, turn, thoughts, reply, pushed, shown, speaks, count>>

RivalPinsNone(r) ==
  /\ Advance(r, "loaded", [others[r] EXCEPT !.at = "pinned"])
  /\ UNCHANGED <<world, pin, stored, cache, node, turn, thoughts, reply, history, count>>

RivalTranslates(r, x) ==
  LET lang == Language(others[r].says, others[r].found)
  IN /\ others[r].at = "pinned" /\ lang # "en"
     /\ cache' = Cached(cache, {x}, lang, {x})
     /\ UNCHANGED <<world, pin, stored, others, node, turn, thoughts, reply, history, count>>

RivalStores(r) ==
  LET o    == others[r]
      lang == Language(o.says, o.found)
  IN /\ Advance(r, "pinned", [o EXCEPT !.at = "stored", !.alone = FALSE])
     /\ \/ /\ stored' = IF lang # o.found THEN lang ELSE stored
           /\ speaks' = [speaks EXCEPT !.kept = Kept(o.says, o.spoke, o.alone)]
           /\ UNCHANGED count
        \/ lang # o.found /\ UNCHANGED <<stored, speaks>> /\ Mishap
     /\ UNCHANGED <<world, pin, cache, node, turn, thoughts, reply, pushed, shown, owed>>

RivalSends(r) ==
  /\ Advance(r, "stored", NoRival)
  /\ shown' = shown \cup ({others[r].job} \ {NoJob})
  /\ owed' = owed \ {others[r].job}
  /\ UNCHANGED <<world, pin, stored, cache, node, turn, thoughts, reply, pushed, speaks, count>>

(* Its reply is lost, or it dies. *)
RivalDies(r) ==
  /\ others[r].at # "gone" /\ others' = [others EXCEPT ![r] = NoRival]
  /\ Mishap
  /\ UNCHANGED <<world, pin, stored, cache, node, turn, thoughts, reply, history>>

RivalSteps(r) ==
  \/ \E m \in Messages : RivalBegins(r, Says(m))
  \/ RivalLoads(r)
  \/ \E j \in Jobs, loose \in BOOLEAN : RivalPins(r, j, loose)
  \/ RivalPinsNone(r)
  \/ \E x \in Fixed \ Glossary : RivalTranslates(r, x)
  \/ RivalStores(r) \/ RivalSends(r) \/ RivalDies(r)

-----------------------------------------------------------------------------
Turn ==
  \/ ToEnglish \/ ToEnglishFails \/ LoadContext \/ Menu \/ Recommend \/ Browse
  \/ PlanFollowup \/ PlanModel \/ Execute \/ Reflect \/ Respond
  \/ Persist \/ Localize \/ Remember \/ Deliver \/ Die

Next ==
  \/ \E m \in Messages : Begin(m)
  \/ Turn
  \/ \E j \in Jobs, status \in Statuses : Edit(j, [board[j] EXCEPT !.status = status])
  \/ \E j \in Jobs, pay \in Pays : Edit(j, [board[j] EXCEPT !.pay = pay])
  \/ \E a \in Applications : ApplyElsewhere(a)
  \/ \E k \in DOMAIN cache : Evict(k)
  \/ Unpin \/ Push
  \/ \E r \in Rivals : RivalSteps(r)

Spec == Init /\ [][Next]_vars

-----------------------------------------------------------------------------
(* Properties *)

Replies(texts) == node = "deliver" /\ draft.text \in texts

(* Type invariant, with the limits of the messages. *)
TypeOK ==
  /\ board \in [Jobs -> [status: Statuses, pay: Pays \cup {None}]]
  /\ applied \subseteq Applications
  /\ pin.job \in Jobs \cup {NoJob} /\ stored \in Languages
  /\ cache \in [Fixed \X Languages -> CacheValues]
  /\ \A r \in Rivals : others[r].found \in Languages /\ others[r].job \in Jobs \cup {NoJob}
  /\ loops \in {0, 1} \cup 0..MaxLoops /\ Len(plan) <= steps /\ steps <= MaxSteps
  /\ ToSet(catalog) \subseteq [job: Jobs, pay: Pays \cup {None}]
  /\ draft.claim \in Claims
  /\ shown \subseteq Jobs /\ owed \subseteq Jobs /\ left \subseteq Texts
  /\ draft.text \in {"cards", "list"} => Len(draft.shown) \in 1..CardLimit

(* What a category holds all turn long: only the limit can hide a job. *)
Complete(rows, category) ==
  \/ {j \in turn.always : Category[j] = category} \subseteq JobsOf(rows)
  \/ Len(rows) >= CategoryLimit

(* The cards of a category, all of it, under a header that counts them; or *)
(* as many as are sent, under one that says of how many.                   *)
Presented(category) ==
  LET open == {j \in turn.always : Category[j] = category}
  IN \/ Len(catalog) >= CategoryLimit
     \/ /\ Cardinality(open) <= Len(catalog)
        /\ open \subseteq JobsOf(draft.shown) \/ (Len(draft.shown) = CardLimit /\ CardLimit < Len(catalog))

(* A type of the tool's schema that _EMPLOYMENT_MAP lacks filters nothing. *)
KindFits(call, j) ==
  SameKind(call.facets.kind, j) \/ (call.phrase # Unasked /\ Kind[j] \in EmploymentTypes(call.facets.kind))

(* Rows that are what a search asked for; of a phrase alone, the area that *)
(* it names best, if that had jobs all along.                              *)
Answers(call, rows) ==
  /\ \A i \in DOMAIN rows :
       /\ PlaceFits(rows[i].job, call.facets) /\ PayFits(rows[i].pay, call.facets)
       /\ KindFits(call, rows[i].job)
  /\ call.phrase # Unasked /\ call.facets = NoFacets /\ Names[call.phrase] # <<>> =>
       LET c == Head(Names[call.phrase])
       IN (\E j \in turn.always : Category[j] = c) => Complete(rows, c)

(* "Transactional truth (salary band, status) always comes from SQL, never *)
(* vectors", "we list EVERY live job in it" (search_jobs_core): what a     *)
(* card, a list or a listing shows was open during the turn, though the    *)
(* index, the category and the rows are read at different moments; it is   *)
(* what was asked for; and a category that is shown lacks no job of that   *)
(* category that was open all along, but those that the header counts.     *)
ListingSound ==
  Replies({"cards", "list", "listing"}) =>
    /\ JobsOf(draft.shown) \subseteq turn.live
    /\ \A i \in DOMAIN draft.shown : draft.shown[i].pay \in turn.pays
    /\ draft.text = "cards" /\ fact.category # Unasked => Presented(fact.category)
    /\ draft.text = "listing" => \A r \in Listed(results) : Answers(r.call, draft.shown)

(* A claim of the model about the job board, that held during the turn, or *)
(* that repeats the sender's own number: how many jobs were open, in all   *)
(* or of a category, or how many categories; or how many open jobs a       *)
(* search found. The lengths of lists of documents pass for counts.        *)
Held(claim) ==
  CASE claim.what = "none"    -> TRUE
    [] claim.what = "salary"  -> claim.of \in turn.pays \cup turn.msg.typed
    [] claim.what = "count"   ->
         \/ claim.of \in turn.counts \cup turn.msg.typed
         \/ \E n \in Of(results, "search_jobs") :
              LET jobs == JobsOf(results[n].rows) IN jobs \subseteq turn.live /\ claim.of = Cardinality(jobs)
         \/ Of(results, "search_docs") # {}

(* "Grounding = tool results" (respond), "one strict regenerate, then fall *)
(* back": no reply states a salary or a count, in a form that the          *)
(* validator sees, that the job board did not have during the turn,        *)
(* however often the model writes it; and a sender who has applied is told *)
(* of having no applications only if the tool failed or was asked for a    *)
(* reference that is not theirs.                                           *)
ReplyTruthful ==
  /\ Replies({"answer"}) /\ draft.claim.seen => Held(draft.claim)
  /\ Replies({"none"}) /\ turn.hadApplied =>
       \E r \in FirstOf(results, "get_application_status") : r.failed \/ r.call.ref # Unasked

(* "Lets us apply to exactly the role on screen without a fresh search"    *)
(* (planner): a link that answers a "yes" is for a job that is open and    *)
(* that a reply has shown, whichever turns overlap; unless the reply that  *)
(* goes with the pin was lost, or is still on its way; or unless the job   *)
(* was pinned in a turn whose reply the model wrote, or that searched      *)
(* twice: then it is of the last search, whatever the reply told of. Jobs  *)
(* of the same title have the same reference, and any of them may be the   *)
(* one that is linked.                                                     *)
AppliesToShown ==
  Replies({"link"}) /\ turn.shortcut =>
    \A j \in JobsOf(draft.shown) :
      /\ j \in turn.live
      /\ Slug[j] \in {Slug[k] : k \in shown} \/ turn.pin.loose \/ turn.pin.job \in owed

(* The language that the sender used last, be it of an earlier turn. *)
Expected == Language(Says(turn.msg), turn.spoke.lang)

(* "the conversation follows the most recent action" (handle): a reply is  *)
(* in the language the sender used last, and so is what is sent out of     *)
(* band, unless that language could not be stored, or turns that overlap   *)
(* have not left it stored when it is read; and a text of it is left in    *)
(* English only if the model failed in this very turn: no failure of an    *)
(* earlier one is kept by the cache.                                       *)
SpeaksTheirLanguage ==
  /\ node = "deliver" =>
       /\ turn.lang = Expected \/ ~turn.spoke.kept
       /\ left # {} => "translate" \in turn.failed
       /\ turn.lang # "en" \/ left = {}
  /\ ~pushed.excused => pushed.left = {} /\ pushed.lang = pushed.expected
=============================================================================
