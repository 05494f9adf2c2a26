# Verification of the Hazina / GenEat backend

TLA+ specifications of the Python backend under `src/app` (FastAPI, Postgres,
Redis, WhatsApp), the TLC configurations that check them on small instances, and
TLAPS proofs, for every instance, of all the safety properties that those runs
check.

- [1. The system](#1-the-system)
- [2. Modules, and how they correspond to the code](#2-modules-and-how-they-correspond-to-the-code)
- [3. Runs: what is checked and what it shows](#3-runs-what-is-checked-and-what-it-shows)
- [4. Proofs](#4-proofs)
- [5. Disagreements between documents and code](#5-disagreements-between-documents-and-code)
- [6. What is not modelled](#6-what-is-not-modelled)
- [7. Plan](#7-plan)

## 1. The system

Customers write on WhatsApp. A webhook turns each delivery into a row of
`background_jobs`; a worker claims it, takes a lock on the customer's phone
number, finds the business the message is for, loads the conversation and
answers: with a command, the scripted gift checkout, an order rule of a cafe, a
reply computed from the menu, or the language model and its tools. Orders made
in a chat are paid through Daraja (M-Pesa), IntaSend or another provider, and
fulfilled by staff who send *Ghost Ops* commands on WhatsApp. Staff work on
conversations, knowledge, broadcasts, webhooks, teams and accounts in the admin
console, whose events go over Redis to every process, to the consoles that are
open and, through an outbox, to webhook endpoints.

### Components

| Component | State | Operations | Talks to | Hard because |
|---|---|---|---|---|
| Durable job queue (`jobs/runner.py`) | table `background_jobs` | enqueue, expire, claim, run, mark done, retry or fail, cancel | every component that schedules work | leases lapse while the handler runs; outcomes are written without looking at the lease |
| Inbound turns (`api/whatsapp.py`, `channels/base.py`, `core/redis_client.py`, `services/session_manager.py`, `services/conversation_service.py`) | idempotency keys and locks in Redis; tables `conversations`, `messages` | accept a batch, walk through it, claim, lock, load, save, answer, fall back, escalate, reply | queue, every chat component, console | the lock may lapse during a turn; the row is read before the model runs and written after it |
| Payments (`api/payments.py`, `jobs/handlers.py`, `services/cafe_automation.py`) | `orders.payment_status`, `payment_version`, `mpesa_checkout_id`; callback keys in Redis | stk-push, request from chat, resend, cancel, callback, poll, follow-up | provider, queue, chat turns | provider notices are repeated, late and reordered; the guarded write is tried once |
| Fulfilment and Ghost Ops (`services/ops_automation.py`, `services/fulfillment_*.py`, `jobs/handlers.py`), order tracking (`services/order_tracking.py`) | `orders.details` (JSON: status, flags, audit) | ten status commands, notification task, order.ready, the public page | payments, chat turns, WhatsApp | every writer replaces the whole document it read before |
| Gift checkout (`services/gift_automation.py`, `services/hazina_*.py`) | a draft in Redis and in the customer's row; orders | questions, edits, back, confirm, forms, resend, cancel | orders, payments | two copies, committed apart; overlapping rules; payments that fail half way |
| Cafe orders (`services/cafe_automation.py`, rules in `channels/base.py`) | orders | order by name or by "yes", repeat, resend, cancel, status | payments, fulfilment | what a short text means depends on what was said before |
| Agent (`ai/graph.py`, `ai/tools.py`) | orders, payment claims and photo claims in Redis | model and tool rounds, two attempts, fallbacks | payments, providers | tools repeated by a model that does not know; timeouts that cut anywhere |
| Prices and recommendations (`ai/rag.py`, `ai/quick_replies.py`, `services/hazina_recommender.py`) | caches in each process | answer, check a reply, recommend | knowledge base | stale caches, filters with fallbacks |
| Businesses (`services/business_service.py`, `services/slash_commands.py`) | tables of businesses and conversations | resolve, switch, reset, repair the profile | every turn | precedence of six sources that change |
| Knowledge base (`services/hazina_kb.py`, console) | table `knowledge_base` | repair, edit, re-embed, delete | turns, console | repair within concurrent turns |
| Webhook outbox (`services/outbox.py`, `jobs/outbox_runner.py`) | tables of messages and endpoints | enqueue, claim, deliver, count, disable | event bus, console | claims of 60 s over serial deliveries, counters written in two sessions |
| Event bus (`core/event_bus.py`, `services/webhook_dispatcher.py`) | Redis pub/sub, per-event claim | publish, receive, claim, insert rows | outbox, console stream | every process hears every event |
| Broadcasts (`jobs/handlers.py`, `api/admin_console.py`) | table of broadcasts | send, cancel, run, count | queue | message sent before its count is committed |
| Model providers (`ai/llm.py`, `core/circuit_breaker.py`) | breaker per provider, in the process | call, fall back, trip, half open, close | agent | concurrent callers, calls cancelled by a timeout |
| Rate limiter (`core/rate_limit.py`) | bucket in Redis | take | turns, webhook | clocks of several hosts, expiry against refill |
| Safety (`ai/safety.py`, turn and console) | score and block in the customer's row | judge, flag, block, unblock | turns, staff | the score is read before and written after |
| Voice (`api/voice.py`, `channels/voice_registry.py`, `services/session_manager.py`) | registry in the process, marker in Redis | start, identify, refresh, stop | turns | two calls of one customer, two keys per call |
| Staff desk (`services/staff_dispatch.py`, console) | owner and pause of a conversation | take over, release, resolve, reassign, write | turns | requests that read before they write |
| Accounts and teams (`api/admin_auth.py`, `api/deps.py`, `core/auth.py`) | users, token versions, memberships, audit | sign in, change, delete, add, remove, stream | console | every request holds what it was let in with |
| Privacy (`api/privacy.py`) | all tables of a customer | export, forget | turns | table by table while turns write |
| Health, metrics, logging, settings, provider clients, schema, web clients, scripts | none, or external | | | see section 6 |

Postgres and Redis are the shared state. Components call one another directly
(a chat turn calls the payment code in its own session), through the job queue
(poll, follow-up, order.ready, inbound, broadcast), through the event bus, or
through `asyncio` tasks (notifications, the drain after a webhook).

### What makes each one correct

- **Queue.** A job is settled in the end whatever crashes; it is reported done
  only if a handler returned; no attempt starts past the deadline; a queued row
  can still be served; two live leases on one job only after somebody wrote
  late; the attempt budget grows by one per lapsed lease at most.
- **Turns.** A message is answered once; turns of one customer are serial, and
  in one thread, while its key is in Redis; after a takeover the model gets one
  word in at most; the strike counter never runs ahead; every message of a batch
  has its turn.
- **Payments.** Paid is final and reached only by a charge of a checkout opened
  for the order, at most one of them; a paid callback that took its key is never
  simply gone; every change of status follows a legal edge and takes a version.
- **Fulfilment.** No stage is skipped in spite of lost updates; a notification
  flag is earned; a customer asked to pick up has paid; only overwrites and the
  known unconditional writes leave the transition table or lose an audit entry;
  the tracking page shows a stage only if the order was at it.
- **Chats.** A draft is confirmed complete, ordered as shown and paid once;
  tools act once; prompts are neither doubled nor left unwatched; a price or a
  pick was true within the minute and fits the budget; a business switched to
  stays.
- **Console and services.** Every property is stated next to its code in the
  modules named below.

Everything in the code that is hard to test, line by line, with the properties
that cover it, is the list `hazards` in `PROJECT.json`.

## 2. Modules, and how they correspond to the code

Each component is a module; `MC<Module>` gives it, or the composition it is checked
in, small constants for TLC. Its theorems are in `<Module>Proofs` (the core modules
and Outbox) or in the proof module of its group: `ServicesProofs`, `ConsoleProofs`,
`ChatProofs`. The field `map` of `PROJECT.json` names, for
every definition, the lines it stands for. Some modules define, beside an
operator of the code, a second one with a plausible mistake in it (a comment
says which); these belong to no specification and show that a property notices.

The four core modules, JobQueue, Payments, Fulfillment and InboundTurn, have runs
of their own. The others share no state with each other and are checked in three
compositions, in which the variable `part` says which component a behaviour is
one of. The proofs are about the specification of each component by itself:

| Composition | Components | Proofs |
|---|---|---|
| `MCCheckout` | GiftCheckout, AgentTurn (orders and payments; photos), CafeDesk, Routing, Quotes, Recommender | `ChatProofs` |
| `MCConsole` | Outbox, Knowledge, Access, Memberships, Desk, Profiles | `OutboxProofs`; the others `ConsoleProofs` |
| `MCServices` | VoiceCalls, EventBus, Broadcasts, Failover, RateLimit, Moderation, Intake, Privacy | `ServicesProofs`; Failover and Intake have liveness properties only |

### JobQueue

`job` is the table; `batch`, `until` and `pc` are what one caller of
`run_due_jobs_once` has claimed, the lease it wrote, and where it is in
`_run_one`. `now` is a bounded clock in units of 15 seconds, the first retry
delay.

| Action | Code |
|---|---|
| `Enqueue`, `Cancel` | `enqueue_job`; `_cancel_jobs_for_order` of the chat channel |
| `Claim` | `_claim_due_jobs`: fails what expired, then takes at most `Limit` due rows, inbound first, under one lease. One transaction, `FOR UPDATE SKIP LOCKED`, hence one action |
| `StartHandler`, `HandlerReturns`, `HandlerRaises` | `_run_one` around the handler |
| `MarkDone`, `MarkFailedOrRetry` | the two outcome transactions; neither compares the lease |
| `MarkDoneErrs`, `MarkFailedErrs` | these transactions fail, caught by the safety net of the loop |
| `Crash` | the process dies, or shutdown cancels the loop in mid-batch |
| `Tick` | time passes, also in the middle of a handler |

The retry delay is computed from the attempts in the worker's snapshot, budget
and deadline from the row as it is now, as in the code. `lateMark`, `reclaims`
and `completed` are history variables.

### Payments and PaymentLedger

`order` is the table, `owner` and `notices` the books of the provider (external),
`claimed` the callback keys in Redis, `jobs` the queued poll, follow-up and
ready jobs. `proc` holds what a request, a chat turn or a job handler read before
its last `await`: the order, the checkout, the status and the version. `fate` is
history: what became of the charge of each checkout.

| Actions | Code |
|---|---|
| `StkRequest`, `StkAnswerLost`, `StkCommit` | `POST /stk-push` before and after the provider's answer |
| `ChatRead`, `ChatSend`, `ChatSendFails`, `ChatCommit` | `request_order_payment` with its one retry, alone or in a resend that first cancels jobs; the reference is written without a version |
| `CancelRead`, `CancelCommit` | the customer cancels |
| `Charge`, `Decline` | the customer at the prompt. A declined IntaSend invoice can still be paid; a Daraja prompt cannot |
| `Deliver`, `CallbackRead`, `CallbackRefused`, `Apply` | claim of the key; lookup by the reference the order carries now; amount and receipt; the guarded write |
| `PollFetch`, `PollStillPending`, `PollEnqueue`, `PollRead` | `payment.intasend_poll` |
| `FollowupStart`, `FollowupRecheck`, `FollowupApply` | `payment.unpaid_followup` |
| `Crash` | rollback; the key stays claimed |

`Wins` is the compare-and-set of `_transition_payment_status`: the status is
checked in the session's copy and, with the version, in the `WHERE` clause.
Handlers of jobs may run again after any step (`Take` may leave the job), which
is what JobQueue allows.

`PaymentLedger` is the promise: checkouts are opened for orders, charged, and a
charge credited at most once to the order it was opened for, while that is
unpaid; the credit stays. Payments implements it under the mapping
`credited = {c : fate[c] = "recorded"}`, `paid = {o : order[o].status = "paid"}`,
`charged = ` the checkouts with a paid notice.

### Fulfillment and OrderPage

`order` holds payment status, version and the document `details` (status,
notification flags, length of the audit). `admin`, `task`, `writer` and `ready`
each hold the document a process has read and will write back.

| Actions | Code |
|---|---|
| `OpsRead`, `OpsFlush`, `OpsCommit`, `OpsAbort` | a Ghost Ops command: look-up and `_check_transition`; `_set_fulfillment` (row lock taken, notification task created before the commit); audit and commit |
| `NotifyRead`, `NotifySend`, `NotifyCommit`, `NotifyFails` | the notification task in its own session; the flag is committed after the message |
| `ReadyRead`, `ReadyCommit`, `ReadySend`, `ReadyFails` | `order.ready`: payment check, status write, message |
| `WriterRead`, `Transition`, `CancelCommit`, `BlindCommit`, `WriterGivesUp` | payment transitions, the customer's cancellation, resends and writes of other fields |

`AllowedFrom` is the transition table of the code; `Normalize` maps what is not in
it to `pending_payment`, as the code does. `been`, `sent` and `acked` are history.
OrderPage computes from the same row what the tracking page
(`_timeline_steps`, `public_order_status`) and the chat tell the customer.

### InboundTurn and Intake

In InboundTurn `job` abstracts the queue to status and runs; `turn` is what a
worker's turn holds in memory, `conv` the conversations table, `lock` and
`claimed` the keys in Redis, `rows` the committed user messages.

| Actions | Code |
|---|---|
| `Deliver`, `Start`, `Done`, `Failed`, `Expire` | webhook and queue; `Start` also takes over a lapsed job while its first worker is still running |
| `ClaimMessage`, `ClaimFails`, `Deflect` | idempotency key (duplicates are answered at once), fail-closed claim, rate limit and voice calls |
| `Enter`, `Busy`, `EnterAdvisory`, `Leave`, `LeaveFails` | `acquire_session`: Redis key with compare-and-delete, five seconds of polling, the Postgres fallback |
| `LockLapses`, `RedisRestart`, `Crash` | the key's 30 seconds end; Redis forgets everything; a worker dies |
| `TurnAway`, `Load`, `Control`, `Save`, `Answer`, `FallBack`, `Raise` | the body of `handle_inbound`, cut at its commits and at the call of the model |
| `SendReply`, `SendFails` | the reply after the lock is released |
| `Takeover`, `Release`, `Resolve` | the admin console |

`breached` is history: the customers whose lock has failed to keep turns apart at
some time, by a lapsed key, a Redis restart or the advisory lock (which lives on
a pooled connection that the first commit of the turn gives back). Properties of
the conversation row hold for every other customer; `AnsweredOnce` holds for all,
since `messages.provider_message_id` is unique.

Intake is the way there: the edge limit per sender, the batch stored as one job,
the walk of `process_whatsapp_payload` through its messages with stale and empty
ones, failures that make the job run again as a whole, crashes and deadlines.

### Ways to order in a chat

- **GiftCheckout.** A turn is `Handle` (rules in the order of the code: the desk of
  `channels/base.py`, the gate, interrupts, the draft's rules, the order's
  rules) and `Commit` or `TurnFails`; Redis is written in the first, the row in the
  second. A message is the patterns it hits, its worth as an answer to each
  question, and the fields of a form.
- **AgentTurn.** Two attempts per turn, rounds of model and tools with a commit
  after each, `create_order`, `request_mpesa_payment` and `send_menu_photo` with
  their claims; a cut may come wherever the code waits. What the model asks for
  is arbitrary.
- **CafeDesk.** Every rule of `channels/base.py` that answers a cafe's customer
  before the model, with `create_pending_order` and `request_order_payment`.
- **Quotes.** The menu's rows behind the two caches of `rag.py`, the replies built
  from them, the check of a model's reply against them, under
  staff who change prices. Queries take time, and entries live from before them.
- **Recommender.** `recommend` as operators on a catalog given by constants; its one
  step evaluates an arbitrary request, so the invariant ranges over all of them.
- **Routing.** The sources of a turn's business in their order of precedence,
  `/biz`, `/reset`, the threads, and operators who change the businesses.

### Behind the console

- **Outbox.** Rows, endpoints and two runners; each session of `_process_row` is a
  step, a claim may run out under its runner, receivers answer as they like.
- **Knowledge.** Turns that find the catalog incomplete delete and ingest again in
  their transaction, beside edits, deletions and batches of re-embedding, at READ
  COMMITTED. `mixed` and `doubled` are history.
- **Access, Memberships.** Requests that read the caller, then the row they are about,
  and write changed columns when they commit; tokens as the version they carry.
  Memberships has the teams of two tenants, their audit, and event streams.
- **Desk, Profiles.** The owner and pause of one conversation; the profile of one
  business, a JSON column written as a whole.

### Services

- **EventBus** (rows inserted per endpoint, claim per event, lost subscriptions),
  **Broadcasts** (the row, the requests, the job's copy), **Failover** (breakers
  and chain under concurrent calls), **RateLimit** (the Lua script in integers, with
  late clocks), **Moderation** (score, review, block, unblock), **VoiceCalls**
  (streams, registry, marker), **Privacy** (statements of export and erasure beside
  the commits of a turn).

### How they fit together

The modules meet at the queue and at the order. Payments, InboundTurn, Intake and
Broadcasts model a job as something that may run more than once and at the same
time, which is what JobQueue shows of it (two leases overlap once an outcome was
written late), and bound it by what JobQueue guarantees. Fulfillment contains the
payment transitions with their guard `Swaps`, the same test as `Wins` of
Payments, because they write the document as well. GiftCheckout, CafeDesk and
AgentTurn take from InboundTurn that turns of one customer are serial, and from
Payments that a session may be paid, fail or be forgotten at any time. EventBus
ends with the insert of rows that Outbox begins with. Compositions of modules
that share no state are only a way to check them together: `part` never changes,
so that each behaviour is one of a single component.

## 3. Runs: what is checked and what it shows

Each run takes at most a few minutes with two TLC worker threads. The properties
are stated in the module they are about, each under a comment that says what it
means for the code.

| Run | Distinct states | What it shows |
|---|---|---|
| `job_queue` | 224,847 | Two workers that crash and outlive their leases: `BudgetIsKept`, `ExclusiveUnlessLate`, `SettledStays` and, with fairness, `EveryJobSettles` |
| `payments_daraja` | 222,974 | Prompts, callbacks, cancellations and follow-ups of one order: `ChargesAccountedFor`, `TransitionsAreLegal` |
| `payments_intasend` | 2,234,795 | The same with polls; the whole implements the abstract ledger: `ImplementsLedger` |
| `fulfillment` | 1,362,372 | A command, its notification and two other writers of one document: `StagesInOrder`, `OnlyOverwritesHarm` (what a commit does to the stage and the audit), and of what the customer is told `PageIsEarned` |
| `inbound_turn` | 2,767,271 | Two messages of a customer under repeated delivery, faults and staff: `AnsweredOnce`, `OneAtATime`, `TakeoverSilencesModel`, `StrikesAreReal` |
| `chat_checkout` | 967,229 | GiftCheckout: `DraftsAreSound`, `OrdersAreSound`; AgentTurn: `ToolsActOnce`; CafeDesk: `PromptsAreTracked`; Routing: `SwitchSticks`; Quotes: `PricesAreRight`; Recommender: `GiftsSuit` |
| `console` | 435,110 | Outbox: `ExclusiveDelivery`, `DisabledByStreak`, `DeliveredUnlessCrowded`; Knowledge: `KbIsSound`, `CatalogReturns`; Access: `RevokedStaysRevoked`, `SuperadminStays`; Memberships: `AccessIsAudited`; Desk: `OwnedIsPaused`; Profiles: `PhotosStay` |
| `services` | 411,484 | VoiceCalls: `CallsAreTracked`; EventBus: `DispatchedOnce`; Broadcasts: `SentAsCounted`, `SendingEnds`; RateLimit: `NeverOverspends`; Moderation: `BlocksAreEarned`; Failover: `PrimaryRecovers`; Intake: `EveryMessageHasItsTurn`; Privacy: `DataRights` |
| `payments_conflict` | violation | `PaidCallbackWins` |
| `inbound_retry` | violation | `DoneMeansReplied` |
| `gift_retry` | violation | `RetryPaysOnce` |
| `cafe_yes` | violation | `YesTakesOffers` |

A property that would not hold without qualification names the exception in the
state: `lateMark`, `breached`, `crossed`, `mixed`, `doubled`, `blurred`, `late`
are history variables set by the one step that makes the exception (an outcome
written on a lapsed lease, a lock that failed, requests that overlapped), and
section 5 lists what follows for the program.

Type invariants are defined in every module (`TypeOK`, `KbTypeOK`, ..., and for a
composition `CheckoutTypeOK`, `ConsoleTypeOK`, `ServicesTypeOK`). They hold on the
instances above, and are proved as part of the inductive invariants (section 4); the
runs spend their time on the properties that say more.

### Bounds, and why they are enough

- **JobQueue.** Two workers are enough for every race the code has: the actors are
  the holder of a lapsed lease and its successor. Two jobs give batches longer than
  one and the priority of inbound rows. The horizon leaves time for two leases, a
  takeover and an outcome after the deadline; rows whose deadline is past it are not
  enqueued.
- **Payments.** Every race is between two processes on one order, and two
  checkouts are what a superseded reference needs. `FewChanges` stops the IntaSend
  run at orders that have changed status four times (pay-after-failure,
  cancellation and re-push fit into three), and `PollsOfOne` lets a session be
  polled a second time only while it is the only one; the limit is 12 in the code,
  and only the comparison matters.
- **Fulfillment.** Two documents in flight make every lost update; orders are
  independent, so one is enough, and it is followed until it is delivered
  (`UntilDelivered`): the step to it is still checked. `Targets` and `Kinds` leave out the runner, issue
  and cancel commands and the writers that add no new pattern; the proofs take
  all. `AuditKeep` is 1, 200 in the code: one entry can be lost or kept.
- **InboundTurn.** Two messages of one customer, or one delivered twice, are the two
  ways turns meet. One fault, a lapsed key or lease, a restart or a crash, is what
  it takes to bring two turns into the lock; two runs per job cover retry and takeover.
- **GiftCheckout.** One draft with two orders is what a repeated confirmation needs;
  the two products differ in what `_finalize_*` does with them; one fault. Further
  drafts start from the same empty state.
- **AgentTurn.** Two turns, two attempts each, two tickets and two sessions: a tool can
  be repeated within a round, an attempt, a turn and between turns. One list of items
  and a reference that names no order are charged for; lists do not affect each
  other. A cut may come at any wait, twice, so that both attempts can fail.
- **CafeDesk.** Two items, two orders, one slip: an answer needs at most the newest
  order and one before it.
- **Routing, Quotes, Recommender.** Three businesses (the catalog's, a default, a third) and
  three messages give each source of a business a chance to be overruled; two
  shops, two questions, one price change and a time to live of two ticks with queries of one make
  an entry older than its label; the small catalogue has ties, a piece of a kind
  of its own and a box as cheap as a piece in it.
- **Outbox.** Two runners, two rows, a receiver that accepts and one that may fail;
  `DisableAfter` is 2 for 20.
- **Knowledge.** One row of each source, six ids, two tasks at once, two acts of staff
  and one failure: repair beside repair, edit beside re-embedding.
- **Access, Memberships, Desk, Profiles.** Two persons who act on each other, two requests
  in flight, three or four in a row: a request can be overtaken by another one
  and by the consequences of a third.
- **Services.** Two of everything that races (hosts, processes, runs of a job, turns,
  judges, deliveries), three calls so that two are one customer's, and one or two
  faults. The bucket has room for two calls, is refilled in three ticks a call and
  sees clocks one or two ticks late, up to time 8. In Privacy a customer comes
  back once after an erasure. Of the two events one has two endpoints and one none.

The bounds are bounds of TLC only: the theorems below hold for all values.

### Deadlock and fairness

Deadlock is not checked: every system here may stop, when all jobs are settled
and the bounded inputs are used up. Safety runs assume no fairness. Liveness is
checked under weak fairness of what the code does by itself, never of a customer,
an operator, a receiver, a crash or a failure, except where it is said:

- `EveryJobSettles`: `Tick` (time passes) and each worker's `RunnerStep`. The
  polling loop of every API process runs for ever and catches whatever a batch
  raises, and every call a handler makes has a timeout, so that a claimed job
  returns or raises. Crashes are neither fair nor bounded: every claim first fails
  what is past its deadline, and a row is never requeued beyond it.
- `DeliveredUnlessCrowded`: the steps of the outbox runners (a loop in each process
  that catches everything) and the end of a claim's 60 seconds. A row stays behind
  only while as many rows as a batch holds stand before it and cannot be sent.
- `SendingEnds`: a started run goes on, and the queue claims a job that is due. A
  broadcast whose job was given up stays in "sending", and the property says so.
- `EveryMessageHasItsTurn`: the job that walks through a batch is run while it is
  due; failures and crashes are fewer than the runs a job has.
- `PrimaryRecovers`: turns keep coming, a provider called answers or fails in the
  end (the client has a timeout), and the cooling time passes; outages are finite.
- `CatalogReturns`: customers keep writing to the tenant (nothing else repairs the
  catalog) and a transaction under way commits.

## 4. Proofs

All proofs are checked by TLAPS (SMT, Zenon and PTL) without further assumptions
than the named `ASSUME` of each module; TLC evaluates these assumptions on every run.
Most only say that the constants have the right sort: limits are natural numbers,
positive where zero would disable what is limited, and null values are not members
of the sets. The ones that say more, and why the code justifies them:

- *Moderation:* the score that calls staff and the one that blocks are further apart than
  what one message adds (`safety.py`: 5 and 10, at most 4).
- *Quotes:* the lifetime of a cache entry is longer than a query takes; questions, drafts
  and edits are about shops, items and prices there are.
- *Recommender:* a box is not cheaper than any piece in it.
- *GiftCheckout:* the values offered contain the answers that the code writes on its own
  ("KES", "USD", "phone"); what answers the payment question is one of its two
  choices; a custom form names a box.
- *AgentTurn:* two answers of a tool are not names of baskets. *Broadcasts:* there is a
  request. *Routing:* the businesses are finitely many.

| Module | Theorem | States |
|---|---|---|
| JobQueueProofs | `Invariance`, `TypeCorrect` | the inductive invariant, the types |
| | `BudgetAlwaysKept`, `LeasesExclude`, `SettledIsFinal` | `[]BudgetIsKept`, `[]ExclusiveUnlessLate`, `SettledStays` |
| | `DoneIsTrue`, `ClaimsAreInTime` | `[]DoneWasCompleted`; no attempt starts past a deadline or on a settled job |
| PaymentsProofs | `Invariance`, `TypeCorrect`, `ChargesAreAccountedFor` | `[]ChargesAccountedFor` |
| | `OnlyLegalTransitions` | `TransitionsAreLegal` |
| | `PaymentsImplementLedger` | `Spec => Ledger!Spec`, by step simulation |
| FulfillmentProofs | `Invariance`, `TypeCorrect`, `NoStageIsSkipped` | `[]StagesInOrder` |
| | `FlagsAreEarned`, `PickupsArePaid` | what an order is flagged with was sent; who is asked to pick up has paid |
| | `OverwritesAloneHarm`, `PagesAreEarned` | `OnlyOverwritesHarm`; `[]PageIsEarned` (OrderPage) |
| InboundTurnProofs | `Invariance`, `TypeCorrect` | the inductive invariant, the types |
| | `Serial`, `Thread`, `OneAfterAnother` | turns are serial, threads single; together `[]OneAtATime` |
| | `Once`, `Silence`, `Strikes` | the other invariants of the run |
| OutboxProofs | `DeliveryInvariance`, `DeliveryIsExclusive` | `[]ExclusiveDelivery` |
| | `CountInvariance`, `SwitchOffIsEarned` | `DisabledByStreak` |
| ServicesProofs | `RateInvariance`, `NothingIsOverspent` | `[]NeverOverspends` |
| | `ModInvariance`, `BlocksAreAlwaysEarned` | `[]BlocksAreEarned` |
| | `DispatchInvariance`, `DispatchIsOnce` | `[]DispatchedOnce` |
| | `VoiceInvariance`, `CallsStayTracked` | `[]CallsAreTracked` |
| | `PrivacyInvariance`, `DataRightsHold` | `[]DataRights` |
| | `BroadcastInvariance`, `SendingIsCounted` | `[]SentAsCounted` |
| ConsoleProofs | `AccessInvariance`, `RevokedIsNeverAccepted`, `SuperadminIsKept` | `[]RevokedStaysRevoked`, `SuperadminStays` |
| | `TeamInvariance`, `AccessStaysAudited` | `[]AccessIsAudited` |
| | `DeskInvariance`, `OwnedStaysPaused` | `[]OwnedIsPaused` |
| | `ProfilesInvariance`, `PhotosAreKept` | `PhotosStay` |
| | `KbInvariance`, `KbStaysSound` | `[]KbIsSound` |
| ChatProofs | `CafeInvariance`, `PromptsStayTracked` | `[]PromptsAreTracked` |
| | `AgentInvariance`, `ToolsStayInHand` | `[]ToolsActOnce` |
| | `CheckoutInvariance`, `DraftsStaySound`, `OrdersStaySound` | `[]DraftsAreSound`, `[]OrdersAreSound` |
| | `GiftsAlwaysSuit` | `[]GiftsSuit` |
| | `QuoteInvariance`, `PricesStayRight` | `[]PricesAreRight` |
| | `RouteInvariance`, `SwitchAlwaysSticks` | `[]SwitchSticks` |

Hardly any of the invariants is inductive as it stands. TLC checked the
strengthening of each on the instance of its run.

**JobQueue.** `ExclusiveUnlessLate` speaks of two leases, and a claim only looks
at the row. What ties them is `LeaseIsOnTheRow`: until somebody writes late, the
row of a leased job carries its holder's lease, or has failed at its deadline and
no claim can return it. A claim therefore finds no lapsed lease on it, and the
holder of a live lease is the only one. `ReturnedWasCompleted` carries the return
of the handler to the write of `done`; `BatchesAreDistinct` makes the current job
disappear from the batch when the loop goes on; `AbsentIsFresh` starts each row.

**Payments.** Copies of a pair (order, checkout) are scattered over the table, the
jobs and the memory of processes. The invariant says that every copy agrees with
the provider's books (`RowsOK`, `JobsOK`, `ProcsOK`), and the books only grow, so
that no interleaving can mix the copies up. `ClaimsAreOfNotices` and `OneResult`
make a taken Daraja key a key taken by the result in question; `RecordedIsPaid`
says that a recorded charge stands behind a paid order. The refinement then needs
one fact per step: only the guarded write of a paid result is visible, and its
guard gives `Credit` what it asks for.

**Fulfillment.** Lost updates happen all the time, and yet no stage is skipped.
The reason is that what is written back was once read from a committed row: each
document in flight is *backed* by the stages the order has been at, history only
grows, and a command adds at most the stage that comes next. `FlaggedWasSent`
travels along the same way. `PickupIsPaid` rests on the guard of the payment
transitions: no swap leaves `paid`.

`OnlyOverwritesHarm` needs no more than the types and
`Backed`: a commit that finds the row it read writes what `_check_transition` allowed
for that row. `PageIsEarned` puts `StagesInOrder` beside the arithmetic of the page.

**InboundTurn.** `KeyHeld`: a turn inside a Redis lock that has not lost its key is
the one named in it, so two such turns of one customer are the same. `LossSeen`:
every other turn in the lock has its customer on record. From these, what a turn read of
its conversation is still true when it writes (`Reading`): there is no other turn,
and staff only reset the counter or pause. The counter, the single thread and the
silence after a takeover follow. `Asked` gives `AnsweredOnce` without the lock: the
model works on a message for one turn only, the one that inserted its unique row.

**Outbox.** `HeldOnce`: a row whose claims did not run out is in one batch, once.
`HeldFresh`: its receiver has accepted it only if the delivery in progress says so.
For the counters, an endpoint whose outcomes did not overlap is one outcome ahead of
its column while a runner is between the answer and the commit, and equal to it
otherwise (`CountFollows`), so that the limit is reached by a streak.

**Services.** *RateLimit:* what the calls cost and what the bucket holds was refilled by
the time in the hash, or given away (`Paid`); expiry of the key only ever gives away.
*Moderation:* until a turn commits over an unblock, the score each turn read was earned.
*EventBus:* an event claimed for good has one dispatcher, which has not inserted what
it is still to insert (`OneDispatch`), and whatever was received is chosen for or on its way
(`Reaches`, `Inserts`). *VoiceCalls:* what is in the registry under a call is of that
call. *Privacy:* an erasure or export knows what has been added to the tables behind
it (`Passed`, `Told`). *Broadcasts:* a run is never behind the row (`Backed`), loads the
row before each message (`Stops`), and is at most one message ahead of it while no work
was repeated (`InStep`).

**Console.** A request reads in one step and commits in another. Each invariant says what
a request in hand knows of the row: in *Access* that versions only grow unless two
revocations race, and that a deletion in hand leaves somebody in charge unless
requests overlapped; in *Desk* that the row it wants is coupled. The audit of
*Memberships* is inductive with its types. For *Knowledge*, `HeldApart` is what the row
locks give; a repair that no other overlaps has seen every row of the catalog
(`RepairedAlone`), so that its commit leaves one catalog: the one it inserts, no more rows
than the catalog has items (`InsertedRows`, by a surjection).

**Chats.** *CafeDesk:* orders that a turn is about to commit are tracked like those it
read. *AgentTurn:* the sessions opened for a reference are one more than its key was
renewed, and none more while the key is free or just claimed (`ClaimsCount`); a photo
out of hand leaves a cut over (`PhotosCount`). *GiftCheckout:* a draft in hand was
shown as it is and is not yet ordered, in the row and in the turn under way
(`InHand`); Redis has no other draft unless the turn under way has written
it (`RedisAhead`), until the two went apart. *Quotes:* every entry of a cache and
every row in a turn's hands was true at some time since it says it was read
(`RowsSince`). *Routing:* the business switched to is the last of the threads
(`IsLast`), whatever threads are added, used or closed around it.

What the proofs taught about the models: with a second fault, what Redis forgets in
the middle of a turn was not remembered by the history variable `clean` of
GiftCheckout, which now is reset unless there was no draft to forget; a cart of the cafe
is never empty; the menu cache has one entry per key, so that taking it out is
taking one out; the catalog's boxes hold pieces that exist.

### Only model-checked

The liveness properties (`EveryJobSettles`, `DeliveredUnlessCrowded`, `CatalogReturns`,
`SendingEnds`, `PrimaryRecovers`, `EveryMessageHasItsTurn`) are under fairness, which the
provers do not reach; Failover and Intake have no other properties. The
violated properties are counterexamples and need no proof. Every other property of
a run is a theorem.

## 5. Disagreements between documents and code

Four properties state what a document or a comment of the repository says, and are
violated. The quotations are in `findings` of `PROJECT.json`.

- `PaidCallbackWins`: a paid callback that loses its compare-and-set against a
  concurrent change is answered and dropped, its key kept for seven days.
- `DoneMeansReplied`: the retry of a failed turn finds its own idempotency key, and
  the job is done without a reply.
- `RetryPaysOnce`: the payment of an engraved box that failed to start is retried as a
  second order, and both can be paid.
- `YesTakesOffers`: an "ok" after a report that an order was paid or prompted for
  makes the order again.

### Known departures

What the models contain because the code does it, and the passing properties
therefore make exceptions for:

- **Queue.** A worker that outlived its lease writes the outcome of a row its
  successor runs (`runner.py:182`; `models.py:374` calls the lease exclusive).
- **Payments.** The failure of a superseded session is applied to the order whose new
  session is open (`handlers.py:288`; `README.md:632` promises otherwise). The
  model's payment tool keeps a failed result for ten minutes, does not compare the
  amount it is given with the order, and pushes without any order if none is
  pending. `cafe_automation.py:428` names a variable that does not exist.
- **Fulfilment.** An audit entry of a confirmed command can be erased by another
  writer (`fulfillment_notifications.py:80`; `docs/SYSTEM.md:465-469`). The ready
  notice writes "ready" (`handlers.py:144`; `docs/SYSTEM.md:650`), which the page
  reads as an order not yet paid; the timeline of a cancelled order, or one with an
  issue, starts over.
- **Turns.** An escalated conversation is not found again: the next message opens
  another (`conversation_service.py:80`). `admin.py`'s resolve leaves the AI paused.
  On WhatsApp the number always decides the business, so that `/biz` does not stick
  there (`whatsapp.py:311`, `slash_commands.py:4`).
- **Batches.** One sender over the edge limit drops the whole acknowledged batch
  (`whatsapp.py:73-85`), and a stale message gets its template again on every run.
- **Chats.** A cancellation that names no matching order cancels the newest unpaid one;
  a timed-out push of the demo rule is repeated; a repeated `create_order` is
  recognised, but then nothing asks for its payment; an escalation in a failed
  attempt is forgotten; a photo whose first sending was cut off is sent again
  (`tools.py:710`). The check of a model's prices is skipped when the menu cannot
  be read, and blanks a new price for up to a minute. "Good picks under" a budget
  may list dearer items when the category has none within it.
- **Outbox and bus.** `max_attempts` is stored and never compared (`outbox.py:48`); a
  claim can run out under a delivery.
- **Models.** A half-open breaker lets every caller through, and a call cancelled by its
  turn's timeout is never counted (`circuit_breaker.py:3-10`, `llm.py:268`).
- **Limits.** The guard on requests per minute is forgiven by the expiry of its key after
  60 seconds; clocks that disagree in turns refill a bucket each time.
- **Safety.** An unblock during a turn is overwritten by its commit (`base.py:1703`).
- **Desk.** Takeover and release that overlap leave an owner without a pause
  (`staff_dispatch.py:134`).
- **Accounts.** Two overlapping deletions can remove the last superadmin
  (`admin_auth.py:363`); versions of tokens can repeat after a race; a login that
  overlaps a password change is issued tokens of the new version. A request that
  finds the role it was asked for writes nothing though it is audited, so that the
  audit and the team differ when requests cross; an event stream keeps the
  memberships of the time it was opened.
- **Privacy.** A tool invocation committed after the erasure passed its table survives with
  no conversation, and no later export or erasure finds it. Jobs and outbox rows
  keep what they carry.
- **Knowledge.** Policies are never repaired on their own, and a repair wipes the rows of staff.
- **Voice.** The end of one of two calls of a customer takes the marker of the other
  (`session_manager.py:102`).

## 6. What is not modelled

- *Left out of modelled components:* steps of gift drafts from before the rewrite; what
  fixed answers say; the payment simulator, Paystack and Stripe; amounts (the
  comparison is a choice, `CallbackRefused`); read-only ops commands, runner, issue
  and courier fields; the signature of tracking links and how they find an order;
  the inline delivery used without an outbox; the booking tool; ranking by
  similarity; tools of one round other than photos run one after another; that
  the advisory lock stays held on the pooled connection for later turns.
- *Not suited:* prompts, the FAQ, menus, greetings, language detection and the patterns
  of the safety filter are functions of text chosen by patterns, without state. The
  dashboards, health, metrics and logging only read. Settings are read once.
  Migrations, web clients and scripts keep no protocol state. The other voice and
  Twilio entry points end in the same `handle_inbound`.
- *External:* Postgres (transactions and row locks are atomic actions, statements see
  what was committed before them), Redis (keys may vanish at a restart), the payment
  provider, WhatsApp and the model (each call may succeed, fail or time out).

## 7. Plan

The order was that of importance: first what handles messages and money (JobQueue,
Payments with PaymentLedger, Fulfillment, InboundTurn), then the ways to order in a
chat, then what runs behind the console, then the services. The model is as wide
as planned, and every safety property of its runs is proved. What is left:

1. **More abstract specifications**, refined and proved like PaymentLedger: a lease
   service that JobQueue implements while nobody writes late, and a mailbox that
   accepts and answers each message once for InboundTurn.
2. **The safety half of what is only checked as liveness:** of Intake, that a message never
   has a turn after a batch was given up or before it was stored; of Failover, that a
   breaker opens only for as many failures as it takes.
3. **Composition:** that the assumptions Payments, Broadcasts and Intake make about the runs of
   a job follow from the theorems of JobQueueProofs.
