# A TLA+ model of the Jobs7 WhatsApp recruiting agent

The program is a FastAPI service that talks to job seekers and employers on
WhatsApp. It runs as two gunicorn workers (`docker-compose.yml:45`), each an
asyncio event loop, over Redis (no persistence, LRU eviction,
`docker-compose.yml:106`), Postgres (READ COMMITTED), Qdrant, an LLM, the Meta
Graph API and Razorpay. Every `await` is a place where another request runs; two
workers run at the same time. The models below make each awaited operation an
action and let requests interleave, crash and fail there.

## 1. Inventory

| Component | State it keeps | Operations | What is hard | What makes it correct |
|---|---|---|---|---|
| Credit purchase: `buy_credits_order`, `buy_credits_verify` in `api/routes/employer.py` | employer record and staged order in Redis; `private_payments`, `credit_wallets`, `credit_ledger` | create and stage an order, verify a payment, grant, mirror, mark, clear | overlapping and repeated verifies, crashes between the stores, evicted keys, whole-record read-modify-write | a captured payment is added to the live wallet once, unless its verifies met; nothing unpaid is granted; the ledger replays to the balance |
| Job posting: `post_job_*`, `_finalize_job` | draft by form link, employer record, `private_jobs`, wallet and ledger | submit, activate, order the shortfall, verify and post | a quote that is stale when paid, double activation, a slot count that is stale, a floor at zero | a job is charged once and in full; a plan covers no more posts than its slots; a posted job is listed |
| Subscriptions: `subscribe_*`, `_apply_due_renewal`, `SubscriptionRepository` | subscription rows, staged order and cached plan in Redis, payment row, live wallet | activate, cancel, expire and renew lazily | concurrent activations, repeated verifies, a payment row that is missing or not found, renewals claimed by several requests, crash between claim and grant | one ACTIVE row; one row per payment whose row is found; no cycle granted twice |
| Follow-up scheduler: `workers/agent_scheduler.py` | `agent_pending_actions` | schedule, poll, deliver, mark | several schedulers without claims, crash before the mark, HTTP errors, rows that always raise | repeats bounded, nothing consumed unsent, the rest drained |
| Embedding queue: `workers/queue.py`, `workers/embedding_worker.py`, `api/routes/admin.py`, the writing half of `vector/store.py` | Redis list, event in hand, Qdrant collections and points | connect (list, check, create), reindex, pop, upsert | at-most-once pop, overlapping reindexes, several consumers, processes that start together or with another setting | the index ends at what was pushed last; a fault costs one event; nobody writes vectors of another kind than the collection has |
| Employer registration: `register_submit`; the row and lock of `onboarding_submit` | 120 s lock, staged record, `employers` or `private_job_seekers` row | submit, save, look up, insert, save again | a stale second save over a concurrent update, a lock that ends before the write | one live row per phone; no posted job lost |
| WhatsApp webhook: `api/routes/whatsapp.py` | `seen:` keys | dedupe, tell kinds apart, run the turn, deliver piece by piece | Meta's retries, failure after the mark, refused cards and buttons, no lock per conversation | each message answered once, and with all its words |
| Agent runtime: `agent/runtime.py`, `agent/nodes/` | the turn's state | identify, route to a lane, plan, execute, reflect, respond, persist | reply parts set by one node and sent by another, bounded replanning | strangers reach no tool; the reply is the one of the node that answered; every turn ends |
| Conversation memory: `memory/gateway.py`, `chatbot/memory.py` | capped history, rolling summary, session row | load, summarise, persist, reset | turns of one conversation in parallel, history trimmed before it is summarised, history that expires whole | nothing is forgotten unsummarised but what expires; a closed session starts clean |
| Apply flow: runtime `_apply_*`, `resume_submit`, `ApplicationRepository` | apply state, staged registration, application records and rows | tap, answer, skip, upload a resume, finalise | a chat answer racing a web upload, a daily cap that is checked and then used | one application per job, none without a check of the cap, none lost once announced |
| Tools and job search: `mcp/tools.py`, `JobRepository`, the reading half of `vector/store.py`, `agent/jobflow.py`, `nodes/responder.py`, `chatbot/validator.py` | the pinned job in Redis; the turn's tool results | search by category, title, skills or similarity; overview; application status; apply link; format or validate a reply; pin | the board changes between two reads of one turn and between two turns; turns that overlap; replies that are lost; errors that read like results; drafts of a model | what is shown is open, fits what was asked and is complete; a draft claims nothing the tools did not return, in the forms that are checked; a "yes" applies to the job that was shown |
| Translation: `i18n.py`, `whatsapp/localize.py` | a cache per process; the stored language of a sender | detect, translate in, translate out, cache, push | partial failures of the model, taps without a script, pushes outside a turn, a tap during the turn that will store the language | a reply and a push are in the sender's language, unless turns overlapped or a failure says why not |
| Everything else | none that matters here | texts and forms, validation, tenancy, configuration, logging, start-up, monitoring UI | | |

How they interact: the webhook calls the runtime; the runtime reads and writes
the memory gateway and hands out links to web forms; the forms' routes write the
same Redis records and the live tables, and push messages back on WhatsApp; the
scheduler sends what the `schedule_followup` tool stored; the embedding worker
feeds the vector index that the search tools read. The employer record in Redis
is shared by registration, purchase, posting, subscriptions and the chat, and
every writer reads and rewrites the whole record.

`PROJECT.json` lists every component with its status, the reason for those that
are left out, and the hazards with their lines.

## 2. Plan

1. `CreditPurchase`, with its abstract specification `PaidOnce` and its proofs: money first. Done.
2. `JobPosting`: the second consumer of the same wallet. Done.
3. `Subscription`: the third, with time. Done.
4. `FollowupScheduler` and `EmbeddingQueue`: the background workers. Done.
5. `AgentTurn`: one turn of the runtime, its lanes, the bounded loop, the reply. Done.
6. `Conversation`: webhook dedupe and the turns of one conversation over the memory tiers. Done.
7. `Registration` and `ApplyFlow`: the forms against the chat. Done.
8. `JobSearch`, `Grounding`, `Localize` and, composed of them, `SearchTurn`: what a
   seeker's turns read and say. Done.
9. `EmbeddingQueue` with the life of the collections, `Conversation` with the pieces of a
   delivery. Done.
10. Left: the rest of onboarding (resume files, the children rows of a registration),
   the employer's texts in the chat, and the composition of purchase, posting and
   subscription over one employer record. Each of those modules has the others' writers
   as an environment (`ForeignWriter`) or not at all; the composed module would show
   which properties survive.
11. Proofs: the type invariant of every module with a next-state relation, every safety
   invariant and the action property the runs check, and the refinement. Done. Left: abstract modules like `PaidOnce` for the
   webhook ("a message is answered at most once per accident") and for the apply flow ("an
   application is submitted once"), with proofs that the detailed modules implement them.

## 3. Modules and how they correspond to the code

Conventions shared by all modules. A request is a process with a program counter
named after the operation it is about to await; the actions carry the names of
the functions or of the awaited operations. `faults` and `MaxFaults` count and
bound each kind of fault: `crash` is a worker's death, or an exception that ends
the route in a 500 (a transaction in progress rolls back), `db` and `redis` are
exceptions the code catches and logs. The code never keeps two requests apart, and
neither do the models: requests, routes, workers and the webhook's turns overlap freely in
every run but two. `turns` follows one turn after the other (what its state meets between
two turns is in `Conversation` and `SearchTurn`), and `search` asks what one turn reads
while the board changes under it; `overlap` has the same module with turns side by side. A
property that the code keeps only while requests do not meet says so itself, with a
history variable that records that they did: `contested` (orders verified twice at once),
`overlapped`, `collided`, `raced`, `crowded`, `torn`, `relinked`, and in `SearchTurn` `kept`,
`alone` and `owed`. History variables only record.
`PROJECT.json` maps every definition to the lines it stands for. The operators
marked "Mutant" are deliberately wrong versions of a definition below them, used
to show that a property can fail.

**PaidOnce.** What a purchase promises: a captured payment is added to the balance
once, unless clients contest it (`Contest`: the order is claimed again while a claim is
being settled), after which it may be added again; other writers may change the balance.

**CreditPurchase.** `CreateOrder`, `StageOrder`, `PersistOrder` are
`buy_credits_order`; `Verify` ... `ClearOrder` are `buy_credits_verify` from the
signature check to the response: `_load_pending_order` (`LoadPending`,
`LoadFromDb`), `grant_credits` (`GrantRead`, `GrantWrite`), `update_employer`,
`record_purchase` (`RecordCheck`, `RecordApply`: a SELECT and the rest of its
transaction), `mark_success` and `clear_payment_order`. The environment pays,
evicts keys, re-registers the employer and writes the live wallet from the job
board. Abstractions: the three buckets are one, since every write touches them in
one SETEX or one transaction; the live wallet row exists from the start (its
get-or-create is idempotent); `Register` re-creates an evicted Redis record under
the same live employer id. `redisTotal` is history: the credits of all grants to the
record, which `MirrorConserved` compares with what is in it; so is `contested`, the orders
of which a verify began while another was in progress.

**JobPosting.** `Submit` is `post_job_submit` with the draft of a form link;
activation, order and verify lead to `_finalize_job`, whose steps are one action
each: the debit and the listing in the Redis record, the billing transaction
`post_job_with_billing` (idempotent on the job), the removal of the draft. The
plan is a constant number of slots, `payments_in_db` is off (the staged order in
Redis is the only context, as in the default settings).

**Subscription.** `subscribe_verify` loads the order staged in Redis (`LoadPending`; the
key may be lost, `LoseOrder`) or an unconsumed one from its payment row (`LoadFromDb`),
grants in Redis, looks for the payment row's id (`PaymentRow`, `PaymentRowFails`: the row
may be `absent`, since the order route writes it at best effort, and the read may fail;
either way `key` is NULL and the duplicate is looked for among the ACTIVE rows of the plan),
activates, marks the payment (`MarkSuccess`, `MarkFails`) and clears the order
(`ClearOrder`), with a crash between any two. `stumbled` is history: the requests that died
or could not mark. Then the statements of `activate` (`FindDuplicate`, `RetirePrior`,
`InsertRow`), of `cancel`, `claim_due_renewal`, `record_renewal_grant` and
`get_entitlement` (`SelectActive`, `FlipExpired`, `Notify`), and the reads and
writes of the cached plan. Row locks: an UPDATE waits for rows another transaction
has locked and re-checks its condition, as READ COMMITTED does. The employer
record is always present; its two buckets are one.

**FollowupScheduler.** `Schedule` is the tool's insert, `Poll` the SELECT with its
LIMIT, `Deliver` the HTTP call whose status nobody looks at, `Skip` a row with
nobody to send to, `Mark` the UPDATE. `ORDER BY run_after` leaves rows of the same time
in any order. `Bad` rows raise every time. A `db` fault
is a failed UPDATE; a restart begins a new poll.

**EmbeddingQueue.** `Reindex` reads the rows, `Enqueue` pushes one event per row,
`Dequeue` is BLPOP, `Upsert` the rest of `_process` with `VectorStore.upsert`. Rows carry
a version so that an older event can be told from a newer one; `edits` bounds the edits. `Connect` is what every
process does when it starts: `List` is `get_collections` and the check of each schema,
`Create` the `create_collection` that follows, which raises if another process was
faster; the process then ends and is started again. `mode` is VECTOR_MODE: over HTTP the
API and the workers are processes of their own and a collection of the other kind stops
the start; embedded, the one process drops it, and every vector with it. `Switch` changes
HYBRID_SEARCH_ENABLED, `Stop` ends a process for it when nothing is in hand, and
`DeleteCollection` is the operator who follows the message of the refused start. The four
collections are one. Rows that stop being live, and the delete and image events nobody
produces, are left out.

**AgentTurn.** One action per node of the LangGraph graph, one turn of one sender
at a time. A turn's state is who drafted the text, who staged the interactive
message and the cards, whether the sender is known and which lane applies; a
payload is the name of the node that made it. `Destination` is
`_route_after_identify`; `CanLoop` is `_can_loop`, the only bound on the planner,
executor and reflector; the deadline may pass at any step (`Elapse`). The job board
may register the sender at any moment, also during the turn. Which cards or texts
the browse, menu and creator nodes choose is nondeterministic.

**Conversation.** The webhook's `seen:` key before the turn, the turn's reads and
writes of the memory, and Meta's retries. A turn loads the history and the summary,
may fold the history into a new summary, appends its two entries (the capped list
drops the oldest), and on a farewell closes the session and clears the memory. The list
may expire whole, or be evicted, at any moment (`LapseHistory`), also between a turn's two
entries. An image gets a nudge and no turn (`Begin`, `Nudge`), a voice message nothing.
`Deliver` chooses the form of what is sent: texts, cards, a form's link or a menu, each with
words and, but for a text, with things to choose (`Offers`: the buttons of a card, the rows
of a menu). `Post` posts the pieces that are left, `PostRefused` is a piece that Meta
refuses and its fallback (`Instead`: the body of a card without its buttons, with the URL of
a link, the bubbles for a menu); the 200 goes out in any case (`Ack`). Several turns run
side by side. History: `said` is what should be remembered, `lapsed` what of it expired
before it was summarised, `torn` that a list expired between a turn's two entries, `crowded`
that a turn failed to summarise a full history, `lost` what of an answer Meta did not
take, `cost` what its refusals may have cost.

**ApplyFlow.** One seeker's taps, answers and uploads. `LoadApply` is the read of the
apply state with which `_browse` and `resume_submit` begin; `CheckCap`, `LoadProfile`
and `AskResume` are `_apply_start`; `LookAnswer`, `ClearAnswered`, `Stage`, `Keep`,
`Insert` are `_apply_answer` and `_apply_finalize`; `LookUpload`, `Stage`, `Keep`,
`ClearUploaded`, `Insert` are `resume_submit`. `Write` is the INSERT ... ON CONFLICT
DO NOTHING, where a seeker without a profile row never conflicts. `live` says whether the
seeker has a row in the job board: the insert of the registration may have failed, and then
`_apply_finalize` and `resume_submit` return before the insert of the application and still
say "Applied" (`InsertSkipped`; `skipped` is history); `GoLive` is a form sent again. The cap counts
`Applications`, the rows of the table, and those of others. Links to the upload
page belong to the conversation, not to a job, and stay valid.

**Registration.** `form` says whose form it is. `register_submit`: look for the record,
take the lock, save the record, look for the live row, insert it or take over its id
and save the record again (`Relink`). `onboarding_submit`: stage, take the lock, look
for the row, insert; staging that fails is logged and the rest follows (`StageFails`), a
failed insert releases the lock. `ExpireLock` and `LoseRecord` end
locks and records early.

**JobSearch.** The queries as operators on `board`, the table `private_jobs` at the moment
of the read: `Search`, `GetByRef`, `GetByIds`, `SearchByTitle`, `RecommendBySkills` and
`Counts` are methods of `JobRepository`, `Hydrate` and `ResolveCategory` the two halves of
`search_jobs_core`, `MatchesFacets` the filter that repeats the SQL's in Python, and does
not repeat it exactly. A job may be in no category (`Null`): the summary counts such jobs
under a label, "Other" (`Label`), which no filter on the category's name matches. Words of a
title search are found in the title, the skills and the category's name (`CategoryWords`).
`Hits` is what the index may answer: any jobs it ever embedded. A query is a set, put `InOrder` and cut at its limit: `OrderOf` is the order of a sequence
(the newest first, or the rank of the hits), `ByScore` an order by a number of matches and
then by age.

**Grounding.** A step of a plan and an entry of `tool_results` (`Of` is the places of one
tool's entries, `First` the first of some places), the three replies that are
formatted without the model (`StatusReply`, `LinkReply`, `ListingReply`), and what the
validator lets a draft say (`Valid`). A draft makes one claim, a salary or a count, in a form
that the validator's expressions match or in one that they do not (`seen`): "₹25,000" and
"12 open jobs" are examined, "25 lakh" and "69 sales jobs" are not. Each figure is judged alone.

**Localize.** `Scripts` is `detect_lang`; `Todo`, `Cached` and `LeftInEnglish` are what
`translate_many` asks the model for, keeps, and leaves as it was.

**SearchTurn.** Turns of one seeker over the three modules above. One is followed, with an
action for each await: translate the message, load the pin and the language (`LoadContext`),
the menu, the browse shortcuts, the plan, each tool in one or two reads, the reflection, the
draft and its second version, the pin (`Persist`), the translation of what is sent, the
stored language (`Remember`), the delivery (`Deliver`, which may lose messages: WhatsApp's
refusals are logged and no more). It may die anywhere (`Die`), and leaves what it has
written. `Rivals` are other turns of the sender that are under way, whatever their messages:
each begins, loads the language, pins a job or none, puts translations in the cache, stores
its language, and sends its reply or dies. A message is what the code's expressions find in
it: a phrase that names an area, words of titles, a menu entry, a tap and its reference.
`Edit` changes the board and `ApplyElsewhere` the applications between any two reads; the
pin expires or is cleared (`Unpin`). `turn` also keeps history: which jobs were open at some
or at all moments of the turn, how many there were, what failed, what language the sender used
before (`spoke`) and whether the turn is the only one so far (`alone`). `kept` says that the
language used last is sure to be stored: the turn that used it met no other and did not fail to store it. `owed` are the jobs that
are pinned while the reply that shows them is on its way or lost. `Push` is a notice sent
out of band. The model of the language model is any plan over `Calls`, any claim of `Claims`.

## 4. Runs

Every run is bounded; the deadlock check is off everywhere because the systems
do stop: requests, orders, payments, versions and faults are finite sets, and a
state in which all of them are used up is a legitimate end.

| Run | Question | Bounds |
|---|---|---|
| `purchase` | Is a payment credited once, whatever fails, unless its verifies meet, and is `PaidOnce` implemented? | 2 orders, 2 requests that may verify the same order at once, every kind of fault, at most three faults in a behaviour (`FewFaults`) |
| `twice` | The same with overlapping verifies (violation) | 1 order, 2 requests, no fault |
| `posting` | Charged once and in full, listed, within the plan's slots | 3 drafts on 2 links, 1 slot for posts of at most 2 districts, 1 order, 2 requests, every fault |
| `plan` | Activation, cancellation, renewal and expiry | a free and a paid plan, 1 payment with or without a row, 3 requests, two cycles of the paid plan and the end of the free one, one fault of each kind |
| `deliver` | Repeats, lost follow-ups, and are the due ones done in the end? | 4 follow-ups, 2 schedulers, LIMIT 2, every fault, fair schedulers |
| `index` | What a fault or a start costs the index, does it ever go back to an older row, and does what was pushed arrive? | 2 jobs, 1 edit, 2 reindexes, the API and 2 workers, both modes, one fault or one switch of the setting, fair workers and restarts |
| `turns` | Routing, replies and termination of turns | 3 turns, 3 loops, 2 steps, one fault of each kind, fair steps |
| `chat` | Retries and parallel turns of one conversation, refused pieces, an expired history | 3 messages of 5 kinds, 2 requests, replies of 1 or 2 pieces of 4 forms, history of 2, 1 fault |
| `applies` | Chat answers against uploads, of seekers in the job board or not | 2 jobs, 2 requests, 4 taps or uploads, cap 2, 1 fault |
| `register` | Double taps, slow writes, retries of both forms | 3 requests, 4 submits, 1 posted job, 2 faults |
| `search` | Is what a seeker is shown and told true, while the board changes? | 4 jobs in 2 areas and in none, 8 messages, 9 calls, 5 claims; 4 events in all: of these at most 2 turns, 2 planned steps, 1 edit, 1 fault |
| `overlap` | Does a "yes" reach the job that was shown, and is every reply in the sender's language, when turns overlap and replies are lost? | 2 jobs, 4 messages, 1 rival beside the turn, 3 turns, 1 fault, no calls of the model |

Why the bounds are enough: the hazards are races of two requests, or one
request, one accident and one retry; two or three requests and one fault of each
kind contain all of those, and a third request covers a retry after both. In `purchase`
any three of the five kinds of fault meet in one behaviour, one more than its two requests
need. Two cycles of the
paid plan contain a renewal and a second one, the end of the free plan an expiry, and three
requests a verify that dies, a cancellation or another plan, and the verify repeated.
LIMIT 2 with one bad row ahead is the smallest batch in which a bad row could
stall a good one. A history of two entries is full after one turn, so three
messages trim it twice, and a lapse may come before, between or after the trims. A cap of two is reached by the seeker alone, with others,
or by others alone. Three loops leave room to replan after a first and a second
reflection. In `index` a switch of the setting is followed by stops, refused starts and
the operator's deletion in any order, and two of the three processes may start at once;
more than one fault at a time would only lose more events, each counted. In `search`, one
area's name contains the other's, a job is in no area, two jobs have the same title and
therefore the same reference, one job waits for approval, and the limits of lists, cards and
hits are small enough that a list is cut and a listing is long; two turns are the fewest in
which a pin or a cached translation is used. In `overlap` a rival does anything that
any turn may do to the shared memory, so one beside the turn that is followed contains every
race of two; three turns are one that sets the pin or the language, one that overlaps it,
and one that reads what they left; what the model plans changes neither the pin's life nor
the language, so it plans nothing there. What does not depend on the bounds is proved (section 6).

Symmetry is used in `purchase`, `posting`, `plan`, `chat` and `applies`,
over orders, jobs, messages or requests that the specification treats alike; none of
those runs checks a liveness property (`PaidOnce` states no fairness).

## 5. Fairness

Three specifications state fairness, and only for what the event loop itself
drives: the scheduler's `_loop` polls every `poll_seconds` and catches what a tick
raises, so `WF(RunOnce(w))`; the worker's `_consume` loops with its exceptions caught
inside, so `WF(Consume(w))`, and the compose file restarts a process that ended
(`restart: unless-stopped`), so `WF(Connect(p))`; a turn that has begun is run on by the
event loop until its graph ends, each awaited call returning or raising under its own
timeout, so `WF(TurnStep)` in `AgentTurn`. Users, payments, the clock, operators, crashes
and failures are never fair. `DueIsDone` assumes fewer undeliverable rows than a batch holds; with `LIMIT` of
them ahead, the code does starve the rest.

## 6. Proofs

Eight modules hold the proofs of the theorems that `PROJECT.json` lists: `THEOREM Spec =>
[]Inv` for every type invariant and every safety invariant of the runs, and their action
property, for every value of the constants. `WorkerProofs` is about both background loops,
`EmbeddingQueue` and
`FollowupScheduler`; `SenderProofs` about what is known of a sender, `Registration` and
`AgentTurn`; each of the others about one module. To be extended together, `AgentTurn` and
`FollowupScheduler` have names of their own (`TurnSpec`, `SchedulerSpec` and so on).
Each theorem is one argument: an inductive
invariant, a lemma that the initial states have it, a lemma that every step keeps it
(one step of the proof per action), and what it implies. The inductive invariants of
all modules were model-checked on the runs' instances before they were proved.

`CreditPurchaseProofs`, about the wallet in Redis and the live one:

- `TypeCorrect` needs two more facts, `SnapOK` (a request about to write back has read a
  record) and `TargetOK` (a request in progress has an order).
- `WalletsAreSound` has two halves. `LedgerAlwaysReplays`: `LedgerReplays` is inductive;
  the argument is the lemma `AppendReplays` about appending a row with the balance it
  produced. `MirrorIsConserved`: until two updates of the record meet or it is lost, one
  request at a time is between its read and its write, and what it read is what is there
  (`MirrorInv`).
- `OnlyPaidGranted`: `PaidInv` adds that a request past its signature check has a
  captured payment, and one past the grant has a granted order.
- `LiveIdempotence`: requests may verify the same order at once, and then the order is
  contested for good. Of an order that is not, one request at a time is in progress
  (`Exclusive`, kept by `ExclusiveStep`), which makes the check of `record_purchase` still
  valid when its INSERT commits; `OnceInv` carries that between the two steps.
- `RegrantsAccounted`: `RegrantInv` counts, of an order that is not contested, the request
  that has granted and not finished as the one grant that no blemish accounts for yet, and
  says when the reconciliation can still find the order unconsumed.
- `PurchaseImplementsPaidOnce`: initial states map to initial states; `RecordApply` maps
  to a credit, `Pay` to a payment, a verify that meets another of its order to `Contest`, a
  foreign write to a foreign write and everything else to a stutter.

No theorem assumes that requests are kept apart: what holds only without an overlap says so in
the property, as a condition on a history variable, and run `twice` shows what goes wrong
with it.

`JobPostingProofs`:

- `ChargedAtMostOnce`: a ledger row of a post is its job's only one (`LedgerInv`); from the
  moment a route has quoted a job until it charges it, the wallet, or the purchase on its
  way, or the plan's free slot, covers the price, unless another job of the link, another
  charge, a lost slot or a fault excuses it (`FundsInv`); so each row was within the balance
  before it (`WithinInv`). What excuses a job is for good (`ExcusedGrows`).
- `PlanSlotsSuffice`: a covered post that has no row yet is the only route, and found a
  slot free (`SlotsInv`).
- `ListedAtMostOncePerCrash`: a job that can still be listed counts as one more listing
  (`OnceInv`); until two updates meet, an update holds the record as it is (`RecordInv`).

`SubscriptionProofs`: `NeverTwice` by the distance between a row's start and its last grant
(`CycleInv`), for which the guard of the claiming UPDATE suffices however many requests
claim; `RenewalsAreAccounted` by counting the requests between claim and grant (`WayInv`);
`OneSubscription` by what an activation alone has found and locked (`SingleInv`: one ACTIVE row,
and one row for each payment id), and, for the rows that lack it, by `PaymentInv`: a row's key
is its own payment or NULL (`OwnKey`); once the request that inserted a row has marked and
cleared its order, nobody can verify that payment again (`SettledInv`), unless the request
stumbled; so one of two rows of a payment is of a request that stumbled (`Repeats`).

`WorkerProofs`:

- `DeliveryIsAccounted` counts, next to the tries of a follow-up, the schedulers that may
  still try it (`MaySend`); a try takes its scheduler out of that set and only a crash or a
  failed mark puts one back (`Allowance`).
- `EventsAreAccounted` has three parts. What waits in the queue or in a worker's hands is
  still owed (`OwedInv`, `LossInv`). A process that is up makes the vectors that the
  collection has, unless an operator deleted it under the process (`VouchInv`,
  `SettingInv`). While nothing fails and no two calls or workers meet, the last event of a
  job, wherever it is, has the newest row read, and if there is none the index has
  (`OrderInv`).
- `IndexNeverOlder`, an action property: the index, the event in hand, the list and the
  rows a call has yet to push hold the versions of a job in this order, each no newer than
  the next and none newer than the row (`ApartInv`). What fails only takes events away,
  which keeps the order (`LessKeepsOrder`), so faults need no exception.

`ConversationProofs`:

- `AnsweredAtMostOnce`: replies, turns at work and the key that is not set yet add up to
  one and a failed SET NX or expired key each (`PotentialInv`).
- `DroppedAreAccounted`: a message nobody will answer any more has a failed turn of its
  own (`DroppedInv`); what is due and no longer in the pieces to post is in the cost of a
  refusal (`CostInv`).
- `MemoryIsSound`: a lone turn's copies are what is stored, but for what lapsed since
  (`FreshInv`), and what the trim is about to drop is in the summary or has lapsed
  (`FoldedInv`).

`SenderProofs`:

- `RowsAreBounded` counts rows, submits about to insert, and, while there is no row, whoever
  holds or may take the lock (`RowsInv`); `JobsAreKept` follows from the lock that is never
  released after a save (`GuardInv`).
- `TurnTypeCorrect`, `SendersAreRouted`, `NoStalePayload` are about `AgentTurn`. What the
  lookup found stays true of the sender for the rest of the turn, because nobody leaves the
  job board (`KnownInv`); a stored lane is the turn's (`LaneInv`); before a node answers only
  identify has staged something, and only for a stranger (`StagedInv`).

`ApplyFlowProofs`: `AppliedOnce` from the conflict clause of the INSERT; `ApplicationsStaySound`
from what a request carries past each step: past the cap's check its job was admitted or a
check failed (`CapInv`), and past the profile it has the resume on file (`ResumeInv`); jobs
announced without a row are no more than the failed writes (`ToldInv`), and but for the jobs
skipped while the seeker was not in the job board; such a seeker has no rows at all
(`StrangerInv`).

`SearchTurnProofs`, about a seeker's turns while the job board changes under them, has three
layers.

- The queries: the rows of a query are its set's members, each once, in order and cut at the
  limit (`InOrderLists`, `TopRows`, `SearchIs`, `HydrateIs` and one lemma for each other
  query). `InOrder` asks for the member that n - 1 others precede; that there is exactly one,
  for a strict order of a finite set, is proved by the least counterexample (`Least`, from
  the library's `WFMin`): the prover cannot instantiate an induction theorem.
- The inductive invariant `Inv`. What a tool returned was on the board at some moment of the
  turn (`ResultsInv`, by `BoardInv`: what is open now was open during the turn, and what was
  open all along is). The area that a phrase names best is the one that is looked for, if it
  had jobs all along (`PhraseInv`), which makes a listing complete. The rows that the pin is
  taken from are those of the last search that found something (`CatalogInv`), a shortcut
  plans nothing but an application for the pin (`ShortcutInv`), and a pin that is not
  `loose`, the one that is stored and the one that the turn has loaded, has been shown or is
  owed (`PinInv`): a turn that overlaps pins a job before its reply is out, and what is lost stays
  owed. The reply keeps all this from when it is drafted until it is sent (`DraftInv`, with
  `Foremost`: the job to pin is among those it shows). A text is left in English only by a
  failure of this turn, because the cache never keeps an original (`LanguageInv`, with the
  cache's type). What the turns know of each other's language is `CrossInv`: a turn that is
  alone, the one that is followed (`TurnCrossOK`) or a rival (`RivalOK`), has met no other
  that may still store; and while `kept` holds, what is stored is what was used last.
- The steps. `SearchTurn` has some seventy actions, but what they change has eight shapes: the
  turn moves on with another fact (`Moves`), drafts a reply (`Drafts`), plans (`Plans`),
  executes (`Executes`), looks for the rows of a search (`Seeks`), reflects (`Considers`),
  passes one of its ends (`Ends`: what it loads, stores, translates and sends), or things
  change around it (`Around`: a new message, the board, the applications, the memory that
  other turns and time change, `Aside`). Each part of `Inv` is shown to survive each shape,
  and each action to have a shape (`NextShapes`).

From `Inv` follow `TypeCorrect`, `ListingsAreSound`, `RepliesAreTruthful`,
`LinksAreOfShown` and `LanguageIsFollowed`.

Assumptions. The constants are as the modules' ASSUMEs say; TLC evaluates them on each
run. Follow-ups, schedulers, and the jobs of the queue and of the apply flow are finite
sets, being rows and processes; the requests in flight may be any set, and what the proofs
need to know of their number is in the invariants. `Conversation` assumes an even cap:
the code has 12 and a turn appends two entries. `JobSearch` assumes that `Newest` orders the
jobs, that a phrase names labels of the menu, best first, and that the name of an area, as a
text, finds the area's own jobs, of jobs that are in one; `SearchTurn` that what the model may ask for and claim is well formed, and that the
channel takes at least one card.

Only model-checked: liveness under fairness (`DueIsDone`, `PushedIsIndexed`, `TurnEnds`) is
out of the prover's reach.

## 7. Findings

Run `twice` checks what the docstring of `record_purchase` says, "Idempotent on ``payment_id``"
(`repositories.py:1336`), and finds it broken: two overlapping verifies both pass the check
and credit one payment twice.

Other statements of the repository are weaker in the code than in its words. The property
that is checked is the weaker one, and names in a condition what the stronger one lacks:

- "A paid sub is keyed on its payment row" (`repositories.py:1701`): a row that is missing or
  not found leaves the key NULL, and a verify repeated after a crash inserts a second
  subscription (`SingleSubscription`: `stumbled`, and the row without the payment's id).
- "Never overwrite it (that would wipe their posted jobs / wallet)" (`employer.py:257`): the
  second save of `register_submit` wipes a job posted since the first (`JobsKept`: `relinked`).
- "Whose text carries the same content, so nothing is lost" (`whatsapp.py:197`): the text that
  replaces a refused menu of the greeting names none of its buttons (`DroppedAccounted`: `cost`).
- "The SQL filter is exact" (`tools.py:217`): a category's cards include those of any category
  whose name contains its name; and "EVERY live job in it" (`tools.py:229`): "Other", under
  which the menu counts the jobs without a category, finds none of them (`ListingSound` asks
  that what is shown be complete, not that it be of one category, nor that it not be empty).
- "25 lakh" is said to be matched by a path of `validate()` (`validator.py:26`) that is not
  there (`ReplyTruthful`: `seen`).
- "Exactly the role on screen" (`planner.py:36`): it is whatever was pinned last, be its reply
  lost or not yet sent (`AppliesToShown`: `owed`, and the pin that is `loose`).
- "The conversation follows the most recent action" (`runtime.py:2231`): a tap that overlaps
  a turn reads the language from before it (`SpeaksTheirLanguage`: `kept`).

The other exceptions of the properties, and why; each is a behaviour of the code that
the model shows when the exception is taken away:

- With the employer record evicted before the verify, a paid order is consumed
  without a grant in Redis; a failed `mark_success` lets a granted order be granted to
  Redis again (`RegrantsAreBlemishes` counts these).
- Two overlapping activations use the plan's last slot twice (`CoveredWithinSlots`),
  or leave two ACTIVE subscriptions; and a payment has a second row when its first verify
  died or could not mark it, and one of the two did not find the payment's row
  (`SingleSubscription`).
- The shortfall is quoted and ordered for one draft and one balance, and the debit is
  floored at 0 (`employer.py:757`): another post, or another job submitted under the same
  link before the payment, or an overlapping route that takes the plan's free slot on which
  the quote counted, makes a job cost less than its price while the ledger shows the full
  price (`ChargedOnce`).
- A worker that dies with an event in hand loses it; overlapping reindexes, or two workers
  with events of the same job, can put an older row over a newer one (`NeverOlder`); a worker that was
  up while an operator deleted the collection goes on making vectors of the kind it started with, and loses every event it pops
  (`EventsAccounted`).
- A farewell from an unregistered number sends the registration form that `_identify`
  staged and not its own text (`StaleOnlyOnFarewell`).
- The webhook marks a message before its turn: Meta's retry of a failed turn is
  treated as a duplicate. A refused plain text is not tried again, and the webhook still
  answers 200. The text that replaces a refused card or list has its body, without buttons
  and rows. A voice message is acknowledged without a word, unlike an image
  (`DroppedAccounted`).
- The daily cap is read at the tap, and the row written an answer later: seekers
  admitted before the cap was reached may exceed it together, and a failed check
  admits anyone. A seeker whose registration never reached the job board is told to have
  applied, and no row is written, without any failure then (`ApplicationsSound`).
- A turn that overlaps a farewell writes its entries into the cleared memory, and one
  that overlaps a summary may overwrite it. The history expires as a whole an hour after its
  last entry, or when Redis needs memory, and what was not summarised by then is forgotten;
  between a turn's two entries this also shifts what the trim drops (`MemorySound`).
- Nothing makes a slug unique: it is the title (`employer.py:195`), and `get_by_ref` takes
  any row. A tap or a "yes" may reach another job of the same title. The pin is written before
  the reply is sent: a "yes" that comes in between, or after a reply that was lost, is for a job
  that nobody was shown (`AppliesToShown`).
- The tool's schema asks for `full_time`, which `_EMPLOYMENT_MAP` does not know: a search by
  category drops the filter; a search by similarity never matches `intern` with
  INTERNSHIP (`ListingSound` asks only for what each path does filter). The cards of a category
  are cut at what the channel takes, under a header that counts them all.
- A listing shows the first search of a turn, the pin takes the first job of the last
  one that found something.
- An error of the status lookup, and a reference that is somebody else's, both read as
  "You don't have any applications on record yet" (`ReplyTruthful`).
- The validator never checks references: it looks for `JOB-...`, and the tools return
  slugs. It never supports a pinned salary either: it looks for a rupee sign, and the pin
  says INR. It does not see amounts without a currency before them, nor counts with a word between
  the number and "jobs". The lengths of lists of documents count as numbers of jobs
  (`ReplyTruthful`).
- A number or an emoji typed by a Tamil speaker is detected as English and overwrites the
  stored language (`SpeaksTheirLanguage` is about the language detected). After turns that
  overlapped, nobody can tell which of their languages is stored, until a turn that meets no other
  detects one.

## 8. Not modelled

TTLs are evictions at any time. Networks to Razorpay and Meta fail only where the
code looks at the failure. Tenancy: one tenant, as every key and query carries it. Layout,
form schemas, prices and the validation of single fields are pure functions outside the
models; similarity scores and the reranker are any choice of hits. In the webhook, the
signature check comes before everything and changes nothing, and the media download has
no caller. The resume file of an upload, the children rows of a registration and the
employer's texts in the chat are not modelled yet (plan, step 10). The legacy chat graph,
the LLM client and monitoring keep no state these properties are about. The page handlers
that only render a form (`_register_html`, `_post_job_html` and the like, about a twentieth
of the code) have no behaviour to check.
