---------------------------- MODULE Conversation ----------------------------
(***************************************************************************)
(* One WhatsApp conversation: the webhook's dedupe by message id, and what *)
(* a turn reads from and writes to the conversation's memory: the history  *)
(* in Redis, capped at its newest entries, and the session row with its    *)
(* rolling summary in Postgres.                                            *)
(*                                                                         *)
(* Meta posts a message until it gets a 200. Each post is handled by a     *)
(* request of its own, no lock orders the requests of a conversation, and  *)
(* an action is what runs between two awaits. What a turn says is          *)
(* abstracted to its kind: the agent lane may summarize, the short lanes   *)
(* do not, a farewell resets the session. The summary is the set of        *)
(* entries it was made from.  What is sent for a reply is a list of        *)
(* pieces, one post to Meta each: plain bubbles, a link, a card with       *)
(* buttons for each job, or one menu in the place of the bubbles.  A piece *)
(* is its form and its contents: words, and choices to tap.                *)
(***************************************************************************)
EXTENDS Naturals, FiniteSets, SequencesExt

CONSTANTS
  Messages,   (* inbound message ids                                       *)
  Requests,   (* bound on the requests in flight                           *)
  Cap,        (* _MAX_TURNS, and _SUMMARY_AFTER_TURNS: both are 12         *)
  MaxFaults   (* bound on the faults of a behaviour                        *)

FaultKinds == {"redis", "expiry", "lapse", "turn", "meta"}
Kinds      == {"talk", "short", "bye", "image", "voice"}
Entries    == Messages \X {"user", "assistant"}
Places     == {"idle", "mark", "session", "history", "summarize", "user", "assistant",
               "clear", "close", "post"}

(* Two words, the choices of two cards, and those of a menu.               *)
AllWords  == {1, 2}
MenuItems == {5}
Offers   == {3, 4} \cup MenuItems
Contents  == AllWords \cup Offers
Forms     == {"text", "link", "card", "menu"}
Pieces    == [form: Forms, words: SUBSET Contents]
Text(w)   == [form |-> "text", words |-> w]
Link(w)   == [form |-> "link", words |-> w]
Card(w)   == [form |-> "card", words |-> w]
Menu(w)   == [form |-> "menu", words |-> w]
Nudge     == <<Text(AllWords)>>
Bubbles   == <<Text({1}), Text({2})>>

ASSUME CapAssumption == Cap \in Nat \ {0}
(* A turn adds two entries: the trim never parts what was folded in.       *)
ASSUME EvenAssumption == Cap % 2 = 0
ASSUME FaultsAssumption == MaxFaults \in Nat

VARIABLES
  seen,        (* seen:<message id> keys in Redis                          *)
  acked,       (* messages Meta got a 200 for                              *)
  kind,        (* what each posted message is, "none" before               *)
  replies,     (* replies sent to each message                             *)
  history,     (* the conversation's list in Redis                         *)
  summary,     (* rolling_summary                                          *)
  req,         (* the requests in flight, see Request                      *)
  faults,      (* faults so far, by kind                                   *)
  lost,        (* history: what of the replies to each message Meta did not take *)
  cost,        (* history: what refusals may have cost them, see Cost      *)
  said,        (* history: entries appended since the last farewell        *)
  lapsed,      (* history: those that expired before they were summarized  *)
  torn,        (* history: the list expired between a turn's two entries   *)
  overlapped,  (* history: two turns ran side by side                      *)
  crowded      (* history: a short turn began at a full history            *)

webhook == <<seen, acked, kind, replies, lost, cost>>
memory  == <<history, summary, said, lapsed>>
ghosts  == <<torn, overlapped, crowded>>
vars    == <<webhook, memory, req, faults, ghosts>>

(* A request: where it is, its message, the history and the summary it     *)
(* loaded, what is due to the customer and the pieces yet to be sent.      *)
Idle == [at |-> "idle"]
Request == {Idle} \cup
  [at: Places \ {"idle"}, msg: Messages, history: Seq(Entries), summary: SUBSET Entries,
   due: SUBSET Contents, out: Seq(Pieces)]

Init ==
  /\ seen = {} /\ acked = {}
  /\ kind = [m \in Messages |-> "none"]
  /\ replies = [m \in Messages |-> 0]
  /\ history = <<>> /\ summary = {}
  /\ req = [r \in Requests |-> Idle]
  /\ faults = [k \in FaultKinds |-> 0]
  /\ lost = [m \in Messages |-> {}] /\ cost = [m \in Messages |-> {}]
  /\ said = {} /\ lapsed = {}
  /\ torn = FALSE /\ overlapped = FALSE /\ crowded = FALSE

Fault(k) ==
  /\ FoldFunction(+, 0, faults) < MaxFaults
  /\ faults' = [faults EXCEPT ![k] = @ + 1]

Inside(r) == req[r].at \notin {"idle", "mark"}

At(r, place) == req[r].at = place
Goto(r, place) == req' = [req EXCEPT ![r].at = place]
Finish(r) == req' = [req EXCEPT ![r] = Idle]

-----------------------------------------------------------------------------
(* The webhook *)

Webhook(r, m) ==
  /\ At(r, "idle") /\ m \notin acked
  /\ req' = [req EXCEPT ![r] = [at |-> "mark", msg |-> m, history |-> <<>>, summary |-> {},
                                    due |-> {}, out |-> <<>>]]
  /\ UNCHANGED <<seen, acked, replies, lost, cost, memory, faults, ghosts>>

(* Meta posts a new message. *)
Receive(r, m) ==
  /\ kind[m] = "none"
  /\ \E k \in Kinds : kind' = [kind EXCEPT ![m] = k]
  /\ Webhook(r, m)

(* Meta posts it again: no 200 yet, be it that the turn failed or is slow. *)
Retry(r, m) ==
  /\ kind[m] # "none"
  /\ Webhook(r, m)
  /\ UNCHANGED kind

(* An image gets a nudge and no turn; what is neither text, a tap, a       *)
(* document nor an image is acknowledged and left at that.                 *)
Begin(r) ==
  LET m == req[r].msg
      turn == kind[m] \in {"talk", "short", "bye"}
  IN
  /\ req' = [req EXCEPT ![r] = CASE turn              -> [@ EXCEPT !.at = "session"]
                                 [] kind[m] = "image" -> [@ EXCEPT !.at = "post", !.out = Nudge,
                                                                           !.due = AllWords]
                                 [] kind[m] = "voice" -> Idle]
  /\ acked' = IF kind[m] = "voice" THEN acked \cup {m} ELSE acked
  /\ overlapped' = (overlapped \/ (turn /\ \E q \in Requests \ {r} : Inside(q)))
  /\ UNCHANGED <<kind, replies, lost, cost, memory, torn, crowded>>

(* Mutant: the key is read before it is set. *)
MarkBlind(r) ==
  /\ At(r, "mark")
  /\ seen' = seen \cup {req[r].msg}
  /\ Begin(r)
  /\ UNCHANGED faults

(* SET NX. *)
Mark(r) ==
  /\ At(r, "mark") /\ req[r].msg \notin seen
  /\ seen' = seen \cup {req[r].msg}
  /\ Begin(r)
  /\ UNCHANGED faults

(* "fail open: a rare dup beats dropping a message". *)
MarkFails(r) ==
  /\ At(r, "mark")
  /\ Fault("redis")
  /\ Begin(r)
  /\ UNCHANGED seen

Duplicate(r) ==
  /\ At(r, "mark") /\ req[r].msg \in seen
  /\ acked' = acked \cup {req[r].msg}
  /\ Finish(r)
  /\ UNCHANGED <<seen, kind, replies, lost, cost, memory, faults, ghosts>>

(* The key's 600 seconds pass. *)
ExpireSeen(m) ==
  /\ m \in seen
  /\ Fault("expiry")
  /\ seen' = seen \ {m}
  /\ UNCHANGED <<acked, kind, replies, lost, cost, memory, req, ghosts>>

-----------------------------------------------------------------------------
(* The turn *)

(* The session row is read, then the history. *)
LoadSession(r) ==
  /\ At(r, "session")
  /\ req' = [req EXCEPT ![r].at = "history", ![r].summary = summary]
  /\ UNCHANGED <<webhook, memory, faults, ghosts>>

(* What was loaded is of no use to the turn's writes any more. *)
Loaded(r) == req' = [req EXCEPT ![r].at = "user", ![r].history = <<>>, ![r].summary = {}]

LoadHistory(r) ==
  /\ At(r, "history")
  /\ LET full == Len(history) >= Cap
         talk == kind[req[r].msg] = "talk"
     IN /\ IF talk /\ full
           THEN req' = [req EXCEPT ![r].history = history, ![r].at = "summarize"]
           ELSE Loaded(r)
        /\ crowded' = (crowded \/ (full /\ ~talk))
  /\ UNCHANGED <<webhook, memory, faults, torn, overlapped>>

(* Mutant: the previous summary is not folded in. *)
SummarizeAnew(r) ==
  /\ At(r, "summarize")
  /\ summary' = ToSet(req[r].history)
  /\ Loaded(r)
  /\ UNCHANGED <<webhook, history, said, lapsed, faults, ghosts>>

(* The loaded history is folded into the loaded summary; the row is        *)
(* overwritten.                                                            *)
Summarize(r) ==
  /\ At(r, "summarize")
  /\ summary' = req[r].summary \cup ToSet(req[r].history)
  /\ Loaded(r)
  /\ UNCHANGED <<webhook, history, said, lapsed, faults, ghosts>>

(* Mutant: the list keeps one entry more. *)
NewestPlusOne(s) == SubSeq(s, IF Len(s) > Cap + 1 THEN Len(s) - Cap ELSE 1, Len(s))

(* RPUSH and LTRIM, in a transaction. *)
Newest(s) == SubSeq(s, IF Len(s) > Cap THEN Len(s) - Cap + 1 ELSE 1, Len(s))

Add(e) ==
  /\ history' = Newest(Append(history, e))
  /\ said' = said \cup {e} /\ lapsed' = lapsed \ {e}

(* An hour passes since the last entry, or Redis is short of memory: the  *)
(* list is gone, be it in the middle of a turn.                            *)
LapseHistory ==
  /\ history # <<>>
  /\ Fault("lapse")
  /\ history' = <<>>
  /\ lapsed' = lapsed \cup (ToSet(history) \ summary)
  /\ torn' = (torn \/ \E r \in Requests : At(r, "assistant"))
  /\ UNCHANGED <<webhook, summary, said, req, overlapped, crowded>>

(* What the turn came to decides the form of what is sent: bubbles, a card *)
(* for each job, a form's link and a button to skip it, or a menu, whose   *)
(* rows the bubbles repeat (categories, a form's link) or not (greeting).  *)
Plans ==
  {Bubbles,
   <<Card({1, 3}), Card({2, 4})>>,
   <<Link({1}), Card({2, 4})>>,
   <<Menu(AllWords)>>,
   <<Menu(AllWords \cup MenuItems)>>}

Words(out) == UNION {p.words : p \in ToSet(out)}

Deliver(r) ==
  \E out \in Plans :
    req' = [req EXCEPT ![r].at = "post", ![r].due = Words(out), ![r].out = out]

AppendUser(r) ==
  /\ At(r, "user")
  /\ Add(<<req[r].msg, "user">>)
  /\ Goto(r, "assistant")
  /\ UNCHANGED <<webhook, summary, faults, ghosts>>

AppendAssistant(r) ==
  /\ At(r, "assistant")
  /\ Add(<<req[r].msg, "assistant">>)
  /\ IF kind[req[r].msg] = "bye" THEN Goto(r, "clear") ELSE Deliver(r)
  /\ UNCHANGED <<webhook, summary, faults, ghosts>>

(* reset_session: the keys in Redis, then the row. *)
ClearHistory(r) ==
  /\ At(r, "clear")
  /\ history' = <<>> /\ said' = {} /\ lapsed' = {}
  /\ Goto(r, "close")
  /\ UNCHANGED <<webhook, summary, faults, ghosts>>

CloseSession(r) ==
  /\ At(r, "close")
  /\ summary' = {}
  /\ Deliver(r)
  /\ UNCHANGED <<webhook, history, said, lapsed, faults, ghosts>>

(* The 200 goes out after the last piece, whatever became of it.  Nothing  *)
(* looks at the pieces between two posts: those Meta takes are one step.   *)
Ack(r, left) ==
  LET m == req[r].msg IN
  /\ replies' = [replies EXCEPT ![m] = @ + 1]
  /\ lost' = [lost EXCEPT ![m] = @ \cup left]
  /\ acked' = acked \cup {m}
  /\ Finish(r)

Post(r) ==
  /\ At(r, "post")
  /\ Ack(r, req[r].due \ Words(req[r].out))
  /\ UNCHANGED <<seen, kind, cost, memory, faults, ghosts>>

(* Mutant: only a menu has a fallback. *)
InsteadOfMenu(p) == IF p.form = "menu" THEN Bubbles ELSE <<>>

(* The fallback of a refused piece: its text, with the link of a link but  *)
(* without a card's buttons; the bubbles for a menu; nothing for a text.   *)
Instead(p) ==
  CASE p.form = "text" -> <<>>
    [] p.form = "link" -> <<Text(p.words)>>
    [] p.form = "card" -> <<Text(p.words \ Offers)>>
    [] p.form = "menu" -> Bubbles

(* What it costs at most: the words of a text, the choices of the others.  *)
Cost(p) == IF p.form = "text" THEN p.words ELSE p.words \cap Offers

(* Meta answers other than 200 or 201, or not at all, to the n-th piece. *)
PostRefused(r) ==
  LET m == req[r].msg
      out == req[r].out
  IN
  /\ At(r, "post")
  /\ Fault("meta")
  /\ \E n \in DOMAIN out :
       LET left == req[r].due \ Words(SubSeq(out, 1, n - 1))
           rest == Instead(out[n]) \o SubSeq(out, n + 1, Len(out))
       IN
       /\ cost' = [cost EXCEPT ![m] = @ \cup Cost(out[n])]
       /\ IF rest = <<>>
          THEN Ack(r, left)
          ELSE /\ req' = [req EXCEPT ![r].out = rest, ![r].due = left]
               /\ UNCHANGED <<replies, lost, acked>>
  /\ UNCHANGED <<seen, kind, memory, ghosts>>

(* An await raises, or the worker dies: no 200, and the key stays. *)
Fail(r) ==
  /\ Inside(r)
  /\ Fault("turn")
  /\ Finish(r)
  /\ UNCHANGED <<webhook, memory, ghosts>>

-----------------------------------------------------------------------------
Step(r) ==
  \/ Mark(r) \/ Duplicate(r) \/ LoadSession(r) \/ LoadHistory(r) \/ Summarize(r)
  \/ AppendUser(r) \/ AppendAssistant(r) \/ ClearHistory(r) \/ CloseSession(r)
  \/ Post(r)

Next ==
  \/ \E r \in Requests : Step(r) \/ MarkFails(r) \/ PostRefused(r) \/ Fail(r)
  \/ \E r \in Requests, m \in Messages : Receive(r, m) \/ Retry(r, m)
  \/ \E m \in Messages : ExpireSeen(m)
  \/ LapseHistory

Spec == Init /\ [][Next]_vars

-----------------------------------------------------------------------------
(* Properties *)

(* Type invariant; the history never exceeds its cap. *)
TypeOK ==
  /\ seen \subseteq Messages /\ acked \subseteq Messages
  /\ kind \in [Messages -> Kinds \cup {"none"}]
  /\ replies \in [Messages -> Nat]
  /\ history \in Seq(Entries) /\ Len(history) <= Cap
  /\ lost \in [Messages -> SUBSET Contents] /\ cost \in [Messages -> SUBSET Contents]
  /\ summary \subseteq Entries /\ said \subseteq Entries /\ lapsed \subseteq Entries
  /\ req \in [Requests -> Request]
  /\ faults \in [FaultKinds -> Nat]
  /\ torn \in BOOLEAN /\ overlapped \in BOOLEAN /\ crowded \in BOOLEAN

(* A message is answered once, whatever Meta retries and however the       *)
(* retries overlap the turn; each Redis failure or expired key may cost    *)
(* one more: "a rare dup beats dropping a message" (receive_webhook).      *)
AnsweredOnce ==
  \A m \in Messages : replies[m] <= 1 + faults["redis"] + faults["expiry"]

(* A message Meta believes delivered was answered or is being answered,    *)
(* but for one per failed turn: the key set before the turn turns the      *)
(* retry of a failed one into a duplicate.  A voice message never is.      *)
Unanswered ==
  {m \in acked : /\ replies[m] = 0 /\ kind[m] # "voice"
                 /\ \A r \in Requests : Inside(r) => req[r].msg # m}

(* And an answer reached the customer, though Meta may refuse to show its  *)
(* cards, links and menus (receive_webhook, interactive_fallback_text):    *)
(* what was lost of it was a plain text that was refused, or the           *)
(* buttons and rows of a refused message, never the words with them.       *)
DroppedAccounted ==
  /\ Cardinality(Unanswered) <= faults["turn"]
  /\ \A m \in Messages : lost[m] \subseteq cost[m]

(* While turns come one at a time and none fails or is short at a full     *)
(* history, what was said since the last farewell is in the history or in  *)
(* the summary, but for what was in neither when the list expired whole:   *)
(* the trim only drops what was folded in before.                          *)
NothingForgotten ==
  (~overlapped /\ ~crowded /\ ~torn /\ faults["turn"] = 0) =>
    said \ lapsed \subseteq ToSet(history) \cup summary

(* "Farewell → refresh this customer's session so the next chat starts     *)
(* clean (no stale topic carryover)" (persist): between turns that come    *)
(* one at a time the memory holds only what was said since.                *)
CleanStart ==
  (~overlapped /\ faults["turn"] = 0 /\ \A r \in Requests : ~Inside(r)) =>
    ToSet(history) \cup summary \subseteq said

(* What the memory of a conversation is for: nothing too little, nothing   *)
(* too much.                                                               *)
MemorySound == NothingForgotten /\ CleanStart
=============================================================================
