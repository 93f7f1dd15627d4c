# Sales Copilot: formal models of the server

Sales Copilot is a multi-tenant omnichannel inbox with a shop behind it: agents
(and an AI autopilot) talk to customers over Facebook, Telegram, Zalo and a web
widget, write orders during the conversation, and bank transfers are matched to
these orders. The server is a NestJS application over PostgreSQL (Prisma), Redis
and BullMQ; several instances and several queue workers run at the same time.

This directory holds TLA+ models of the parts of the server where that
concurrency matters, TLC configurations that check them on small instances, and
TLAPS proofs for every value of the constants. Paths below are those of the
repository under `src/`; `S` stands for `src/apps/server/src`.

    tlc -config stock_calls.cfg MCStockMovement.tla
    tlapm OrderTxProofs.tla

Contents

1. Inventory of the system
2. Modules and how they correspond to the code
3. What each run checks, with which bounds
4. Fairness
5. What is proved
6. Where code and documents disagree
7. What is abstracted and what is not modelled
8. What is left

## 1. Inventory

`PROJECT.json` lists the components with their sources and status, and the
hazards at their lines. In outline:

| Component | State | Operations | Hard behaviour | What makes it correct |
|---|---|---|---|---|
| Inventory (`S/modules/commerce/inventory/stock-movement.service.ts`) | `product_variants.stockQuantity`, `reservedQuantity`; the append-only ledger `inventory_transactions` | reserve, commit (reserved or direct), release, restock, adjust (in, out, audit) | several lines per call, row locks, refusal after some lines, rollback, concurrent requests | never `reserved < 0` or `reserved > stock`; ledger and rows agree; no deadlock among stock calls |
| Orders (`.../orders/order-lifecycle.service.ts`, `order-writer.service.ts`, `order-status-guard.ts`) | `orders`, `order_items`, `payment_transactions` | create, edit, confirm, pay, cancel, complete | a status is read, and later written by another statement; the payment lock of Redis has a TTL | goods leave the shelf once; reservations belong to confirmed orders; paid amounts are sums of payments; final statuses are final |
| Reconciliation (`.../reconciliation/*`) | `payment_transactions` (PENDING, SUCCESS), the payment lock | automatic match of a bank transfer, manual match | duplicate transfers, two operators, transfers for cancelled or completed orders | a transfer is credited once, to one order |
| Payment webhooks and queue (`.../webhooks/*`) | BullMQ jobs | receive, enqueue, retry | at-least-once delivery, three attempts, contention costs one, a 200 after a queue error | every acknowledged transfer is entered, or visibly failed |
| Messages and conversations (`S/modules/omnichannel/messages`, `conversations`) | `messages`, `conversations` | create, delete, change the status, pause the AI, find or open | statuses computed from reads before the transaction | nothing unread behind RESOLVED; an active conversation is found, not doubled |
| Outbound delivery (`.../integrations/outbound-*.ts`) | `messages.deliveryStatus`, `externalId`; queue `message-outbound`; a lock per conversation | enqueue, deliver, write back, retry | crash between provider and database, stalled jobs, lock expiry, receipts in between | no unexplained second copy, one sender per conversation, rows settle |
| Channel ingestion (`channel-ingestion.processor.ts`, `channel-webhooks/*`) | `channel_events`, `messages`, `contacts`, `conversations` | receive events and receipts | repeated events, retries, concurrent first messages of a contact, agents who resolve meanwhile | no recorded event is lost, one message per provider id, one contact |
| Contacts and identities (`.../contacts/*`) | `contacts`, `channel_identities` | resolve, create, merge | two workers meet a new customer | one contact per identity |
| AI autopilot (`S/modules/intelligence/ai-agent/*`) | debounce keys, jobs, `isAiPaused`, `aiUsage` | debounce, reply, escalate, takeover, fallback, follow-up | a takeover while a reply is being written, a retry after a saved reply, a key that is deleted or expires | the newest question is the one answered, once; after a takeover only what was past the last look is said |
| Zalo OA tokens (`.../integrations/zalo/*`) | the credentials and settings of a channel, refreshes in flight | deliver, validate, refresh, reauthorize | single-use provider tokens, several servers, lost answers | the pair Zalo takes is the one stored; a channel is marked dead for a cause |
| Personal Zalo sessions (`.../zalo-personal/zalo-personal-connection.service.ts`) | a registry of connections in the server, timers, `isConnected` | QR scan, reconnect, restore at a restart, the owner's disconnect and delete | timers, logins, scans and handlers cross at every `await` | a channel that looks connected is looked after; off stays off |
| Authentication tokens (`S/modules/identity/auth/token.service.ts`) | refresh tokens in Redis | issue, rotate (GETDEL), revoke | two refreshes with one token | a refresh token is used once |
| Auto-assignment (`.../conversations/auto-assignment.service.ts`) | a circular list in Redis | assign | two conversations at once | only online members of the inbox |
| Presence, settings cache, commerce presence | Redis keys with TTL, a cache | heartbeat, join, invalidate | expiry and stale reads | stale for a bounded time |
| Inboxes, labels, teams, workspaces, products, dashboards, administration | one table each | CRUD | none beyond one statement | - |
| Web application, widget, shared packages | none on the server | send requests, show events | none modelled | their requests are the inputs |

How they interact. Controllers and queue workers call the services. The order
services and the reconciliation flows call the stock service **inside their own
transaction** (`{ tx }`), which is why a refused stock line takes the order
update with it. Payments and transfers of one order exclude each other through a
Redis lock. Webhooks store what they received and add a job; workers of the
queues run five at a time on every server. An ingested message is created by the
same `MessagesService.create` that agents and the autopilot use, and publishes
`message.created` after its commit: the dispatcher of the autopilot, the
outbound listener and the takeover listener all start from that in-process
event. Deliveries to Zalo ask the token service for an access token; personal
accounts send and receive over the listener their supervisor keeps.

## 2. Modules

| Module | Models | Variables correspond to |
|---|---|---|
| `StockMovement` | the inventory, one SQL statement per step | `base`/`level`: committed and newest version of a row; `owner`: row lock; `ledger`/`draft`: committed and uncommitted ledger rows; `status`, `call`, `todo`, `seen`: where a call is |
| `OrderTx` (extends `StockMovement`) | orders, payments and reconciliation, one statement or Redis call per step | `orders`, `items`, `payments`: committed tables; `rowOwner`, `itemOwner`: row locks; `lock`: the Redis key; `saw`: what a request read; `plan`: the statements it still has to run; `wrote`, `paying`, `doomed`, `adding`: what it has not committed |
| `TransferBook` | what reconciliation promises: the abstract specification | `entry`: where a transfer is entered; `paid`: the money of an order |
| `PaymentQueue` | the way of a transfer from the webhook into the books | `entry`, `paid`: the tables; `lock`: the payment locks; `job`, `owner`, `failures`, `stalls`: the BullMQ jobs; `at`, `subject`, `target`, `seen`, `failed`: workers and clerks |
| `OutboundDelivery` | outgoing messages from the commit to the write-back | `status`, `external`: the message row; `job`, `queue`, `failures`, `stalls`, `owner`: the job; `pc`, `serving`, `made`: a worker inside `process`; `lock`: the conversation's lock |
| `ChannelIngestion` | events from the provider's post to messages in conversations | `recorded`, `adding`: the webhook; `known`, `contacts`: the identity and its contact; `status`, `unread`, `recent`, `stored`: conversations and messages; `at`, `event`, `pos`, `conv`, `snap`, `bad`: a worker; `desk`: an agent's request |
| `AiAutopilot` | the autopilot of one conversation | `resolved`, `paused`, `usage`: the row; `slot`: the debounce key; `at`: where a message is between the dispatcher and the end of its job; `stamp`, `failures`, `stalls`, `steps`, `read`: the job; `follow`, `wrote`: the follow-up; `desk`: agents and their listener |
| `ZaloTokens` | the token pair of an official account on several servers | `issued`, `live`, `aged`, `session`: Zalo's side; `stored`, `connected`, `flaggedBy`: the row; `inFlight`: `inFlightRefreshes` of a server; `pc`, `ctx`, `seen`, `stage`, `token`, `used`, `again`, `got`, `dead`, `on`: a call; `marks`: marks under way |
| `ZaloPersonal` | the supervisor of one personal account | `channel`, `connected`, `flagged`, `cookie`: the row; `registry`, `listener`, `backoff`, `timer`, `spent`: `connections` and its entries; `late`: an update nobody awaits; `at`, `of`, `using`: re-logins; `scan`, `telling`, `checking`, `leaving`: scans and handlers |

Variables said to be history record what happened and are read by no action.

`MCStockMovement`, `MCOrderTx`, `MCOutboundDelivery`, `MCPaymentQueue`,
`MCChannelIngestion`, `MCAiAutopilot`, `MCZaloTokens` and `MCZaloPersonal` hold the
instances for TLC; `StockMovementProofs`, `OrderTxProofs`,
`OutboundDeliveryProofs`, `PaymentQueueProofs`, `ChannelIngestionProofs`,
`AiAutopilotProofs`, `ZaloTokensProofs` and `ZaloPersonalProofs` hold the theorems.

Two refinements.

* `StockMovement` is both a detailed model of the stock service and the abstract
  specification of what an order flow may do to the stock: `StockProtocol` says
  that `OrderTx` refines it, checked by TLC (`order_overlap`) and proved
  (`OrdersUseStock`). So the theorems about stock hold of every order flow.
* `TransferBook` has three actions: a transfer is entered as unmatched (`Hold`),
  becomes money of one order (`Credit`), or the promise about an order ends
  because a transaction outlived the order's lock (`Overrun`). `PaymentQueue`
  instantiates it as `Book`, and `KeepsTheBook` says that everything webhook,
  queue, workers and a clerk do is a behaviour of it, checked (`payment_queue`)
  and proved (`ReconciliationKeepsTheBook`).

Actions and code (`PROJECT.json` maps each definition to its lines):

* `StockMovement`: `Begin` (entry of a call, with the sort by variant id in
  `Current`), `Reserve`, `CommitReserved`, `CommitDirect`, `ReadBefore`,
  `Release`, `Restock`, `Adjust` (one item each, the UPDATE with its WHERE in
  `Admits` and the ledger INSERT), `Finish`, `Refuse`, `Abort`.
* `OrderTx`: `Start`, then `Peek`, `TakeLock`, `ReadOrder`, `InsertPayment`,
  `SkipCash`, `MarkPayment`, `CallStock`, `StockStatement`, `DeleteItems`,
  `AddItems`, `WriteOrder` in the order the code of the request runs them
  (`Prologue`, `PlanAfterRead` with `CancelPlan` and `CompletePlan`), then `Commit`,
  `Reject` or `Die`; `ExpireLock`.
* `PaymentQueue`: `Report` and `ReportLost` (the webhook; a queue error is
  answered with 200), `Take`, `Hold` (no order: a PENDING row), `AcquireLock` and
  `Busy`, `ReadOrder`, `Commit` (with the key's uniqueness in `Fresh`), `Release`,
  `End` (with what the queue does after a failure in `AfterFailure`); `Choose`
  (a clerk's manual match); `Fail`, `Crash`, `StallDead`, `StallLive`, `ExpireDead`
  and `Lapse`.
* `OutboundDelivery`: `Create`, `Enqueue`, `LoseEvent`, `Delete`, `Receipt` around
  the worker's `Take`, `Read`, `FailTerminal`, `Lock`, `Send`, `Mark`, `Caught`,
  `Return`, `Throw`, and the queue's `Promote`, `Stall`, with `Crash` and `Expire`.
* `ChannelIngestion`: `Receive`, `AddJob`, `AddFails` (webhook); `Take`; for each
  message `Resolve`, `Introduce` (contact), `FindConversation`, `Wake` (a snoozed
  one), `Open`, `ReadConversation`, `Save` (with the reopening in `Reopens`),
  `MessageFailed`, `SaveCollides`; `Close`; `Fail`, `Crash`, `StallDead`,
  `StallLive`; and the agents' `Request`, `WriteStatus`, `CommitReply`.
* `AiAutopilot`: the dispatcher `Arrive`, `NoteContact`, `Guard`, `Reserve`,
  `AddJob`, `LoseDispatch`; the worker `CheckSlot`, `CheckPaused`, `Think`
  (with the guard of the tools in `Guarded`), `SendCard`, `SayFarewell`, `HandOver`, `WipeByTool`, `StopCheck`, `SaveReply`, `ReadUsage`,
  `WriteUsage`, `PlanFollowUp`, with `Fail`, `Retry`, `Apologise`, `Throw`, `Crash`;
  the follow-up `CheckFollowUp`, `SendFollowUp`; the agents `Speak`, `Resolve`,
  `Toggle` and their listener `PauseForSpeaker`, `UnpauseResolved`,
  `WipeByListener`, `ListenerFails`; `Tick` and `Expire`.
* `ZaloTokens`: `Guard`, `Load`, `UseCached`, `Join`, `Lead`, the exchange
  (`Granted`, `AnswerLost`, `Refused`, `ErrorAnswer`, `Unreachable`), `Persist`,
  `PersistFails`, `Reread` (the second try), `RereadFails`, `GiveUp`, `Mark`, `MarkFails`, the call to Zalo
  (`Answered`, `TokenRefused`, `CallFails`) and `Return`; `Age`, `Revoke`,
  `Authorize`, `Reauthorize`, `Crash`.
* `ZaloPersonal`: the listener `Connected`, `Closed`, `Drops`; `Fire` (a timer),
  the re-login `Look`, `Load`, `Login`, `Refused`, `Unreachable`, `Mark`, `MarkFails`;
  `Restart`;
  the scan `Connect`, `Reauthorize`, `WriteScan`, `RegisterScan`; the owner's
  `Disconnect`, `Delete` and their handlers `TellUpdated`, `CheckUpdate`,
  `TellDeleted`, `Leave`; `LateUpdate`, `LogOut`.

A definition marked "a slip" is not part of a model. It is a mapped definition
with a plausible bug (no sort, no WHERE, a missing check), used to confirm that
each property would notice such a bug.

## 3. Runs

Runs that pass:

| Run | Properties | Shows | Bounds |
|---|---|---|---|
| `stock_calls` | `TypeOK`, `NoOversell`, `WaitsAscend`, `LedgerReplays`, `EveryCallEnds` | every kind of stock call, every interleaving of statements, refusals and rollbacks; a call ends without the help of a timeout | 3 transactions, 2 variants, quantities 0 to 2 |
| `order_serial` | `StockConserved`, `PaidMatchesPayments`, `NoWaitCycle` | requests on two orders overlap, payments and transfers of one order too, kept apart by the lock | 2 requests, 2 orders in any state |
| `order_history` | `ReservedMatchesOrders`, `PaidCoversTotal`, `TerminalStays` | every history of three requests that follow each other on one order | 3 requests, 1 order in any state |
| `order_overlap` | `OrderTypeOK`, `StockProtocol` | with any overlap and an expiring lock, stock is still used as `StockMovement` allows | 2 requests, 2 orders |
| `payment_queue` | `TypeOK`, `NothingVanishes`, `KeepsTheBook`, `Settles` | reports repeated, jobs retried and taken back, clerk and worker on one order, locks that lapse, a queue that cannot be reached | 2 transfers (one names an order, one none), 2 orders, 2 workers, 1 clerk, 2 attempts, 1 stall, 2 reports each, 2 faults |
| `outbound_copies` | `TypeOK`, `DuplicatesAreStrays`, `OneSenderPerConversation`, `SettledStays`, `JobsEnd` | one message under every fault: lost answers, crashes, stalled jobs, expiry, deletion, receipts | 1 message, 2 workers, 3 attempts, 1 stall |
| `ingestion` | `TypeOK`, `NothingIsLost`, `StoredOnce`, `ResolvedIsRead`, `OneContact` | a new customer's messages through two workers, while an agent replies and changes the status | 2 events with 2 and 1 messages, 2 workers, 1 agent with one act, 3 conversations, 2 attempts, 1 stall, 2 posts each, 2 faults |
| `ai_autopilot` | `TypeOK`, `NewestRuns`, `NewestIsKept`, `AnsweredOnce`, `TakeoverSilences` | a burst of questions, an agent who takes over, resolves or pauses, and every fault | 2 messages, 1 agent with one act, 2 attempts, 1 stall, 2 steps of the loop, 2 ms, 2 faults |
| `zalo_tokens` | `TypeOK`, `LivePairIsKept`, `MarkedForCause`, `CallsEnd` | refreshes of one pair on two servers, a validation and a new authorization in between | 2 deliveries on one server, 1 validation on the other, 1 pair that ages, 1 fault, crash or authorization |
| `zalo_personal` | `TypeOK`, `Supervised`, `OffStaysOff`, `SettlesAlone` | timers, re-logins, scans and the owner's handlers cross in every order | 4 entries, 2 re-logins, 2 backoff steps, 2 acts of the owner, 2 faults |

Runs that find the disagreements of section 6: `pay_cancel_stock`, `zalo_retry`.

Why the bounds are enough.

* Stock and orders. Two variants are the least on which a lock order can be
  wrong, three transactions the least chain of waiting that is not a pair. Stock
  levels are such that one request is served and the next refused (2 units for
  calls of 1 and 2). Two units of price per order give a deposit, a rest and an
  overpayment. Orders start in every state the flows leave behind (`Shops`:
  DRAFT, CONFIRMED, deposit paid, PAID, and where stated ABSENT, COMPLETED,
  CANCELLED) with stock, reservations and payments that agree with it, so that
  three requests see histories much longer than three. `Supply` (4 and 3) lets
  two orders and an edit be served. `Calls` lists quantities 0 to 3, more than
  any instance asks for.
* Queues. One failed attempt and one stall are enough to have a job run by two
  workers, and a second attempt that is the last; deliveries have a first, a
  middle and a last one. Two faults let a crash follow a fault, or the same one
  come twice. A report or post that arrives twice meets the first one before,
  while and after its job runs.
* `payment_queue`: two transfers that a worker and a clerk give to one order are
  the least that contend for a lock; the second, without an order, goes through
  PENDING.
* `ingestion`: an event with two messages has one stored and one not; the second
  event is the concurrent first contact. Three conversations are enough for each
  to be resolved or opened twice once; `Open` waits when they are used up.
* `ai_autopilot`: two messages have the three relations that matter (same
  millisecond, later, after a wiped key); with two steps the flag changes between
  steps and after the last. Only `Reserve` reads the clock, so `Tick` moves it after
  the first slot and before another `Reserve`: time elsewhere could not be told.
* `zalo_tokens`: two calls of one server share a refresh, the third is the other
  server; one aged pair makes all of them refresh, and the pairs issued in turn
  are compared in order.
* `zalo_personal`: `IdsSuffice` in `MCZaloPersonal` says that four entries are
  never used up; it holds, so `Entries` bounds nothing. Two re-logins at once are
  the least that can overtake each other; a third waits. Two acts are a scan and
  a disconnect or delete, in any order.

`CHECK_DEADLOCK FALSE`: a transaction serves one request, messages, attempts, acts
and faults are finite, so every model comes to rest. Deadlock of the system is
`NoWaitCycle`, `WaitsAscend`, `EveryCallEnds`, `JobsEnd`, `Settles`, `CallsEnd` and
`SettlesAlone` instead.

`order_serial` and `order_history` state when the order properties hold, with
the constant `Alone`: the kinds of request nobody overlaps on the same order or
transfer. It is no assumption about the code but a description of the load; the
overlaps it excludes are the subject of section 6. In `order_serial` payments
and transfers do overlap, with the lock that never expires under its holder; in
`order_history` no two requests overlap on an order. Both loads satisfy
`NobodyOverlaps`, the hypothesis of the theorems about the books of orders
(section 5).

Properties worth reading first:

* `NoOversell`: committed and uncommitted rows keep `0 <= reserved <= stock`.
  It is the conjunction of all WHERE clauses; comparing with the physical stock
  instead of `stock - reserved` in one of them breaks it in two calls.
* `LedgerReplays`: replaying types and quantities of the committed ledger gives
  the committed rows, so a row and its ledger line land together or not at all.
* `StockConserved`, `ReservedMatchesOrders`: what is on the shelf plus what was
  sold is what came in, and what is reserved is what CONFIRMED orders hold.
* `KeepsTheBook`: however often a transfer is reported and its job is run, its
  money reaches one order, once, and an entry is final.
* `NothingVanishes`: a transfer answered with 200 is entered, or has a job or a
  failed job, or met a queue that could not be reached. The last case is the
  loss the code accepts; nothing else is.
* `DuplicatesAreStrays`: a second copy of a message is explained by a copy that
  left no `externalId` in the row. The check of `outbound-delivery.processor.ts:61-67`
  can do no better, and does exactly this.
* `StoredOnce`: the unique key of messages is `(conversationId, externalId)`, so
  a message is stored twice when its second creation finds another conversation.
  Repeated posts are not enough for that, whatever agents do: it takes an attempt
  that broke off.
* `ResolvedIsRead`: `create` decides on reopening from a status it read before its
  transaction; the only way to an unread message behind RESOLVED is a resolution
  in that window.
* `NewestRuns`, `NewestIsKept`: the slot in the debounce key only grows, so of two
  questions of a burst the older one is dropped, even in the same millisecond and
  even as a late retry, and the newest is never dropped for a job that is not there.
* `TakeoverSilences`: what is said after a takeover (a reply, the payment card or
  farewell of a tool, an apology, a follow-up) was past its last look at the
  flag when the agent took over. With `SilentAfterTakeover` (section 6) it marks
  the width of the window.
* `LivePairIsKept`: a refresh token Zalo still takes is in the row, on its way to
  it or in an authorization the owner has yet to confirm. The write at the end of
  a refresh compares nothing, and need not: the next pair is granted only for a
  token that was stored.
* `MarkedForCause`: a channel whose pair was never lost is marked for
  reauthorization only by a refresh that another server's crossed, or that got
  an error about a token Zalo takes. Both exceptions are the code's (section 6);
  out-of-date contexts and shared refreshes are not among them.
* `Supervised`: a channel that looks connected has a session in the registry that
  listens, is about to report its end or has a timer, or a scan or re-login is
  under way. A cleared timer still counts as set
  (`zalo-personal-connection.service.ts:633`), a handler deletes the key of
  whatever is registered: three crossings are named (`orphaned`), each of them
  is needed (section 6), and no other leaves a channel deaf. `SettlesAlone` says
  where it ends: with the listener of the registry connected, or with a row that
  does not look connected.

## 4. Fairness

Runs that check safety only use specifications without fairness.

* `stock_calls`: weak fairness of a transaction's own next step (statement,
  commit or refusal). An awaited query is answered and its continuation is
  scheduled. Nothing is assumed of new calls or of `Abort`: progress does not
  depend on timeouts.
* `outbound_copies`: weak fairness of a worker's next step; of the enqueue of a
  created message (or its loss); of the end of a backoff; of the stalled checker
  for a job whose worker died; of the TTL of a lock whose holder died. BullMQ
  and Redis do these unasked. Nothing is assumed of users, receipts, crashes,
  pauses, or the expiry of a lock whose holder lives.
* `payment_queue`: weak fairness of the next step of a worker or a clerk's
  request, of the queue giving out each waiting job, of the stalled checker for
  the job of a dead worker and of the TTL of a dead holder's lock. Nothing of the
  bank, of clerks starting, of faults. A busy lock fails the attempt, so `Settles`
  needs no strong fairness: attempts are bounded, and a transfer that meets the
  lock every time ends among the failed jobs.
* `zalo_tokens`: weak fairness of every call's next step without an error, and of
  a mark under way. A lead refresh that crashes takes its followers with it, so
  nobody waits for another server. Error answers, lost answers and failed reads
  are faults and not fair. `Guard`, the start of a call, is not fair.
* `zalo_personal`: timers fire, awaited logins and reads return (one way or the
  other), handlers and scans that began go on, and Zalo connects a started
  listener or closes one that is stopping. Nothing of the owner, of drops that
  are faults, of marks that fail, of restarts.

## 5. Proofs

All theorems hold for every value of the constants that satisfies the named
assumptions of the modules (variants are comparable, calls only name variants,
initial levels are sound; variants and orders are finite sets; requests have the
fields the controllers validate, and no client chooses the keys `refund:` and
`cod:` (`RequestsAssumption`); the tables one starts from have their column
types and unique keys (`InitShopsAssumption`); messages are numbered, `Orphan`
and `NoWorker` are no workers; attempts are positive, bounds are numbers, an
event's messages are its own). TLC evaluates every assumption in a run. Each
module has an inductive invariant, a conjunction of named parts; one lemma per
part or per action shows that it is preserved.

`StockMovementProofs`

* `TypeCorrect`, `NeverOversells`, `LocksAreSound`, `NoStockDeadlock`:
  `Spec => []P` for `TypeOK`, `NoOversell`, `LocksCoverDrafts`, `WaitsAscend`.
  The inductive invariant adds to them that a transaction holds locks only on
  rows below those its call has still to update (`LocksBelowTodo`: whoever waits,
  waits for a larger id than all it holds) and that what is still to do are lines
  of the call (`TodoInCall`).
* `CallsAreExact`: a row a transaction holds is the committed one after exactly
  its line of the call (`Exact`), so a commit applies the call once and as a
  whole (`CommitAppliesCall`), and a rollback nothing of it. The order flows rest
  on this.
* `LedgerExplainsStock`: `Spec => []LedgerReplays`. The replay is a recursive
  function of the number of rows; `ReplayedAppend` says what it makes of one more
  row, `RowSaysUpdate` that an UPDATE and its ledger row say the same. The
  invariant adds that replaying the uncommitted rows of the holder as well gives
  the newest version of the row.

`OrderTxProofs`

* `OrdersUseStock`: `OrderSpec => StockProtocol`. Each step of a request is a
  step of one transaction of `StockMovement` or leaves the stock alone; a death
  in the middle is its `Abort`. From it, `OrdersNeverOversell`.
* `GuardedFlowsKeepTerminal`: if all requests are payments, transfers,
  cancellations or edits, no COMPLETED or CANCELLED order changes its status,
  whatever overlaps and whenever the lock expires. (Confirmation, completion and
  manual match update by id and are outside of it.) The invariant relates what a
  transaction has written to the row it holds locked.
* `OrderTypeCorrect`: `OrderSpec => []OrderTypeOK`, whatever overlaps and expires.
  Its invariant `FlowInv` says of each running request what the statements it has
  run left in its hands: the statements a plan may hold ascend in `Rank`
  (`PlanOK`), so what is done is what was planned and is not left (`Did`), and
  `StockFollows`, `PaymentFollows`, `RowFollows`, `ItemsFollow` tell the stock
  call, the payment row, the locked row and the new lines from that.
* `PaymentsAreUnique`: no two payment rows have one idempotency key, whatever
  overlaps. Two running transactions never carry one key (`Keys`).
* The books. Under `NobodyOverlaps` (no lock expires under its holder; of two
  requests that run on one order or with one key, both are payments or automatic
  transfers; requests on different orders overlap freely), and if a book is right
  in the shop one starts from, it stays right:
  `GoodsAreConserved` (`StockConserved`), `ReservationsMatchOrders`
  (`ReservedMatchesOrders`), `PaymentsAddUp` (`PaidMatchesPayments`), `PaidIsCovered`
  (`PaidCoversTotal`). Whatever the books say, under the same load:
  `RequestsNeverDeadlock` (`NoWaitCycle`).

How the books are proved. The hypothesis is about the load, and nothing in the
code enforces it: agents may confirm, cancel, complete, edit and match the same
order at once, and the lock has a TTL. The first table of section 6 shows what
these overlaps break; the theorems say that nothing but such an overlap, or a
lock that expires under its holder, breaks it: not payments and transfers of one
order that overlap, and not requests of other orders on the same goods.
Properties of one order that payments do not touch (its total and its lines, its
refund) would be left with histories of one request after the other, and are not
stated as theorems.

1. A running request either is alone on its order or takes the payment lock, and
   has it from its `lock` statement to the end (`Apart`); so at most one request
   per order is past its read (`OnlyOne`).
2. Therefore what a request read is still true when it commits (`Fresh`): the
   row it updates is the row it saw, and the lines it deletes are all there are;
   the transfer of a manual match is still PENDING (`Marks`).
3. A commit replaces one order, its lines and its payments by what the request
   planned from the true state (`CommitRow`, `CommitItems`, `CommitAppliesCall`). The
   heart is `StatusMoves`: for each kind of request the status it writes is the
   one its stock call calls for (goods set aside as the order becomes CONFIRMED,
   off the shelf as it is sold, back as it is cancelled); `PaidCommit` says the
   same of `paidAmount` and the payment rows.
4. So both sides of each sum change by the same amount (`UnitsMove`, `SumChange`,
   `StockBooksCommit`, `PaidBooksCommit`), and no other step changes a committed
   table (`OnlyCommits`).
5. No deadlock: nobody waits for a row or the lines of an order (`NoOrderWait`);
   who waits for a payment key has neither stock nor payment in hand (`KeyWait`),
   so nobody waits for it; the rest wait for stock rows, and of those the one
   that waits for the largest variant waits for somebody who does not wait
   (`FiniteMax`, `WaitsAscend`).

`Serial` is the conjunction of these parts; `StockBooks`, the conjunction of
`StockConserved` and `ReservedMatchesOrders`, is proved as one, since a sale of
reserved goods changes both.

Induction over data. The library's induction theorems take an operator and cannot
be used here, but induction can be stated with a set of the elements that satisfy
the claim: `NatSetInduction` (`StockMovementProofs`) and `SubsetInduction`
(`OrderTxProofs`, from the well-foundedness of the strict subsets of a finite
set). With these the replay of the ledger is shown to exist and to be unique, and
the sums of the community modules, which are folds over a chosen element, are
shown to be what one expects: `SumIsIter`, `SumRemove` (any element may be taken
out first), `SumChange`, `SumAdd`, `SumNat`. `Price`, `ItemsOf`, `UnitsIn` and the sum of
the payments are these operators of the model, not copies of them.

`OutboundDeliveryProofs`

* `OutboundTypeCorrect`, `NoUnexplainedDuplicate`, `LockSerialisesSenders`,
  `CompletedJobsSettle`, `RetriesUndoNothing`, for any number of messages,
  conversations, workers, attempts and any set of faults.
* `DuplicatesAreStrays` is not inductive: a worker about to send could have read
  a row another worker had already settled. `CopiesCounted` strengthens it: until
  a job is taken from a running worker, a worker between the read and the send
  found no `externalId`, and every copy sent before is a stray, so that a send
  makes at most one more. It rests on `OwnerServes` (a worker serves a message
  only as its job's owner, unless the job was taken from it), which rests on
  `QueueIsWaiting` (a job in the queue is not active). `SenderHoldsLock` gives the
  mutual exclusion, `DoneIsSettled` the settled rows, `AttemptsLeft` the bound on
  failures.

`PaymentQueueProofs`

* `QueueTypeCorrect`, `NoTransferVanishes`. The invariant adds that whoever
  believes to hold a payment lock holds it unless it lapsed (`HolderHasLock`), so
  that the `paidAmount` a transaction read is still the order's (`SeenIsPaid`), and
  that a worker that ends without an error has entered its transfer or found it
  entered (`DoneIsEntered`).
* `ReconciliationKeepsTheBook`: `Spec => Book!Spec` when there is at most one
  clerk. `CommitCredits` maps a commit to `Credit`, by `SeenIsPaid` and by
  `ClerkIsPending`: the transfer a clerk works on stays unmatched until the clerk
  commits, since workers never touch a PENDING row. With two clerks that lemma is
  what fails (section 6).

`ChannelIngestionProofs`

* `IngestionTypeCorrect`, `NoEventIsLost`, `OnlyBrokenAttemptsDuplicate`,
  `ResolvedUnreadWasOvertaken`, `ACustomerIsOneContact`.
* `StoredOnce` needs `OneAttempt`, the heart of it: an event none of whose attempts
  broke off has a single attempt, one worker runs it, and before its job is taken
  none of its messages is anywhere; and `AheadIsNew`: what its worker has not come
  to is nowhere yet. `DoneIsStored` carries `NothingIsLost` over the loop.

`AiAutopilotProofs`

* `AutopilotTypeCorrect`, `OnlyTheNewestRuns`, `TheNewestIsKept`, `AJobAnswersOnce`,
  `TakeoverIsHeard`, `EveryCountIsEarned` (`UsageIsEarned`, by the cardinality of
  the workers between saving a reply and counting it).
* `SlotsGrow`: the key holds the latest slot anybody remembers and some message
  has it. `SaidByPlace`: what a job has said follows from where it is, unless an
  attempt broke off after its reply. `LateIsSpared`: whoever is past its look at
  the flag, a tool past its guard included, while the flag is up was there when it
  went up; `TakeoverIsHeard` is an action property and follows step by step.

`ZaloTokensProofs`

* `ZaloTypeCorrect`, `RotationKeepsThePair`, `MarkedOnlyForCause`.
* Zalo takes one refresh token of each authorization (`OneLive`), a pair on its way
  to the row is the newest of its authorization (`CarriedIsNewest`) and nobody
  else knows it (`CarriedIsFresh`): so no other refresh is granted before it is
  stored, and the pair it overwrites is dead. `Undisturbed` and `SecondTryIsStored` say that a
  refresh nobody overtakes asks, at the second try, with the pair of the row,
  which works (`Alive`): so a refused second try has a cause. `MarkedIsDone` keeps
  the cause: a call that marks is over, and its last exchange stays crossed or
  misread.

`ZaloPersonalProofs`

* `SessionsTypeCorrect`, with `Scanned` (a channel that is there has cookies).
* `SessionsAreSupervised`, with `SpentLeaves` (a timer is cleared only by a handler
  that will take the entry out), `Revived` (a registered session whose listener is
  dead has a timer, a re-login or such a handler before it), `Kept` (a channel
  that looks connected has a session nobody takes out, or one is about to be
  registered, or the row about to be marked) and `DeletedIsGone`. `BeforeKept`
  lists what makes a channel look connected.
* `DisconnectedStaysSo`, with `QuietWhenOff`: once the owner has switched off, and
  no session was being opened then, either a handler is still to run or nothing
  listens, no login and no update is under way.

Only model-checked:

* the liveness properties `EveryCallEnds`, `JobsEnd`, `Settles`, `CallsEnd` and
  `SettlesAlone` (the prover does neither fairness nor ENABLED);
* that the shops the runs start from have right books, the hypothesis of the
  theorems about books: they are data of `MCOrderTx`, and `order_serial` and
  `order_history` check the books in their initial states;
* that COMPLETED and CANCELLED are final for confirmations, completions and
  manual matches that follow each other (`TerminalStays` in `order_history`); the
  theorem about it, `GuardedFlowsKeepTerminal`, is about the other flows, with any
  overlap;
* what goes wrong when requests overlap (section 6): counterexamples are for TLC.

Every other safety property of a passing run is stated by a theorem.

## 6. Where code and documents disagree

Two runs, each with its counterexample, are listed as findings in `PROJECT.json`.

* `pay_cancel_stock`. `cancelOrder` reads a DRAFT order; a payment in full sells
  its goods and commits; the cancellation's `updateMany` accepts any of the four
  cancellable statuses, so it succeeds without restocking
  (`order-lifecycle.service.ts:411`). The comment on the same statement promises
  to abort when the state changed.
* `zalo_retry`. When Zalo refuses an access token, `deliverCsMessage` forces a
  refresh, discards the token it returns and calls itself with the same channel
  context; `getValidAccessToken` finds the refused token there, still unexpired,
  and the retry sends it again (`zalo.adapter.ts:410`). The comment above it says
  "force rotate once and retry" (`:406`).

Other disagreements which the models show as well and no run is kept for.
Payments and orders: take `pay_cancel_stock.cfg`, replace `Requests` and the
invariant (or property).

| Requests | Violates | What happens |
|---|---|---|
| `CompletePay` | `PaidMatchesPayments` | `completeOrder` writes back the `paidAmount` it read, without the payment lock; a transfer credited meanwhile disappears from the order (`order-lifecycle.service.ts:611`) |
| `MatchTwice` (two orders) | `PaidMatchesPayments` | the PENDING check precedes the transaction, and the lock is that of the order: two operators credit one transfer to two orders (`manual-match.service.ts:139`) |
| `ConfirmTwice` | `ReservedMatchesOrders` | both confirmations read DRAFT, both reserve |
| `ConfirmCancel` | `TerminalStays` | a confirmation revives an order cancelled after its read |
| `PayCancel` | `RefundsWhatWasPaid` | a paid order is cancelled without a refund |
| `PayCancel` | `NoWaitCycle` | one locks stock then order, the other order then stock: PostgreSQL ends one of them |
| `MatchCancel` | `TerminalStays` | a manual match revives a cancelled order |
| `EditConfirm` | `OnlyDraftsChange` | an edit rewrites the lines of an order confirmed meanwhile |
| `EditTwice` | `TotalMatchesItems` | both edits' lines remain, with the total of one |
| `Deposits`, `LockMayExpire = TRUE` | `PaidMatchesPayments` | the lock's 10 s pass during a transaction of up to 15 s |

In the other modules: replace the properties of the run by the one named.

| Run | Violated | What happens | What is promised |
|---|---|---|---|
| `payment_queue`, two clerks | `KeepsTheBook` | both find the transfer PENDING, and it is credited to two orders | `docs/product/02-scope-and-requirements.md:107` (NFR-4): no money is added twice |
| `outbound_copies` | `FailedJobsAreMarked` | `attemptsMade` counts earlier failures, so its comparison with `attempts` is false during every attempt (`outbound-delivery.processor.ts:181`); a message refused to the end stays PENDING | the documents and the name of the test say FAILED; the worker of the autopilot compares with `attempts - 1` |
| `outbound_copies`, two messages | `InOrder` | a busy conversation lock costs the job a backoff, and a later message of the conversation is delivered before it (`:118`) | the comment of the processor: the lock keeps them ordered |
| `ai_autopilot` | `SilentAfterTakeover` | a text, or the payment card of a tool, past its last look at the flag is sent after the takeover | `docs/product/prd-ai-agent-framework.md:44`, `docs/audit/phase-4-m4.4-remediation-report.md:26`: it stops at once, no reply after a takeover |
| `ingestion` | `RetriesAreIdempotent` | a retry finds another active conversation and stores its message there too | `channel-ingestion.processor.ts:194-195`: "Retrying is idempotent" |
| `zalo_tokens` | `MarkedForCause` without `overtaken` | the second server reads the row again before the first has stored the pair it was granted, and marks a healthy channel | `zalo-oa-token.service.ts:200-202`: re-read "before declaring the channel dead" |
| `zalo_tokens` | `MarkedIsDefinitive` | any answer with an `error` field, and any 400 or 401, marks the channel (`zalo-oa-token.service.ts:253`), in a rate limit or a 5xx too, while Zalo takes its token | `zalo-oa-token.service.ts:14-17`: "Definitive OAuth rejection", "Distinguished from retryable failures (network, 5xx)" |
| `zalo_personal` | `Supervised` without `orphaned` | the end of a handler deletes whatever is registered under the key, a new session too (`zalo-personal-connection.service.ts:735`, `:713`); the update nobody awaits writes `isConnected` back after the session was stopped (`:622-628`); a mark that fails is only logged (`:690-696`): the channel looks connected and nothing listens | `zalo-personal-connection.service.ts:74-75`: "Owns the live zca-js sessions for every connected ZALO_PERSONAL channel: … reconnect supervision" |
| `zalo_personal` | `ComesToRest` | a new session does not stop the one it replaces; with two alive, each kick of one reopens the other | `zalo-personal-connection.service.ts:341-342`: "restarts the listener"; `docs/backlog/zalo-personal-research.md:28-29`: two listeners of an account loop |

And one of the ledger: `releaseStock`, `restockStock` and `adjustStock` log the
row they read before their UPDATE locked it, so overlapping calls leave ledger
rows whose before and after values do not follow each other
(`stock-movement.service.ts:386`). Types and quantities stay right
(`LedgerReplays`).

Definitions that no run checks are kept for these tables (`TotalMatchesItems`,
`OnlyDraftsChange`, `RefundsWhatWasPaid`, `FailedJobsAreMarked`, `InOrder`,
`SilentAfterTakeover`, `RetriesAreIdempotent`, `MarkedIsDefinitive`, `ComesToRest`)
or because a theorem states them (`LocksCoverDrafts`, `CompletedIsSettled`,
`UsageIsEarned`).

## 7. Abstractions, and what is not modelled

Inventory and orders

* Variants are integers in the order of `localeCompare`; order items are a
  function from variants to quantities (several lines of one variant are merged,
  the code processes them one after the other under the same row lock).
* Each unit costs 1; discounts and shipping fees are left out.
* The read of an order with its items is one step, as are an UPDATE with the
  SELECT and ledger INSERT that follow it under the same row lock; a refused
  statement and the rollback it causes; the end of a transaction and the release
  of the Redis lock. The check for a duplicate key of `payOrder` is part of its
  read; the unique index catches the rest.
* READ COMMITTED: a statement sees the last committed version; an UPDATE waits
  for the row's holder and evaluates its WHERE again. FOR KEY SHARE locks of
  foreign keys do not conflict with these updates and are left out.
* A transaction makes at most one stock call and serves one request.
* A refusal before an UPDATE that would wait (`NoRowMatches`) may happen at once,
  as PostgreSQL evaluates the WHERE clause on the committed version first.
* No endpoint assigns SHIPPING; the guards that accept it are modelled, and no
  initial shop has it.
* `MatcherReads`: the matcher's query includes the relation `shippingAddress`
  (`auto-reconciliation.matcher.ts:111`), which `Order` lacks in
  `schema.prisma`. The runs use TRUE, the query without it.
* Parsing of transfer memos and the choice of the order are inputs; an unmatched
  transfer is a PENDING payment of the initial shop.

Payment queue

* An order is its `paidAmount`; what the transaction does to the status and the
  stock is in `OrderTx`, which has the same statements one by one. A transfer's
  memo is `OrderOf`. Signatures, gateways and the search for the order are left
  out.
* The lock is taken, the order read and the transaction committed in three steps;
  the commit evaluates the unique idempotency key (`Fresh`).
* A clerk's manual match is one request; `Choose` is its PENDING check.

Outbound delivery

* A message is a number, its content and attachments are left out. The missing
  conversation is merged with the missing message (both drop the job); the
  three causes of `failTerminal` before the lock are the fault `unbound`; errors
  before the provider is reached are `refusal`.
* DELIVERED stands for delivery and read receipts. The PATCH of an agent, which
  may set any status, is left out: it would break `SettledStays` by design.
* `made` is the copy of `attemptsMade` the worker got with the job.
* The release of the lock and the end of the job are one step; an error of Redis
  at the release leaves the lock to its TTL.
* A crash between the commit and `queue.add` loses the job (`LoseEvent`):
  nothing reads PENDING rows again. No document promises otherwise, so this is
  a hazard and not a finding.

Channel ingestion

* One customer of one channel; an event is a sequence of messages. Profiles, media,
  reactions and the providers' formats are left out. Facebook's echo of an
  outgoing message is not an event here.
* `unread` is whether `unreadMessagesCount` is positive; `recent` keeps the order
  of `lastActivityAt`, by which `findFirst` chooses among active conversations.
* The creation of a message with its conversation's update is one transaction and
  one step, after the read it depends on (`ReadConversation`).
* A contact and its identity are created in one step; the loser of the unique
  index is rolled back and finds the winner's contact in that step.

AI autopilot

* The model's text and its tools are a choice: a step is text, a silent tool, or one
  of the two tools that speak to the customer, `confirmAndGenerateQR` and
  `escalateToHuman`. A step calls one tool; the SDK may run several at once, each
  behind the guard. What the tools write in orders are `OrderTx`'s requests, and
  the activity lines that order events leave in a conversation are neither sent
  to the customer nor the autopilot's.
* The SDK asks `stopWhen` after every step, as the comment at
  `ai-agent.service.ts:133-135` says. Should it ask only after steps with tool
  calls, a text that was being generated at the takeover would be said too.
* Whether an order may be confirmed is not in this model: `SendCard` stands for a
  tool that sends its card or does not. A retry may send it again (an order that is
  CONFIRMED passes the tool's checks); `AnsweredOnce` counts replies and fallbacks.
* `Date.now()` is a counter; the delay of a job is not kept, any delayed job may
  run. The debounce key expires only as a fault (`expiry`): the code gives it a
  minute, and the job half a second.
* Guardrails are one outcome (`guardrail`); the budget they count is the `usage` of
  `WriteUsage`.
* The notices of the guardrails are said without a look at the flag, by design, and
  are outside of `TakeoverSilences`; the farewell and the payment card are inside.

Zalo tokens and personal sessions

* Pairs and cookies are numbers in the order they are issued. Zalo may refuse any
  access token, takes each refresh token once, and answers may be lost, or be
  errors about a token it takes.
* A delivery or a validation is one call; the queue's retry of a delivery is
  another call. The owner's disconnect of an official account is left out.
* One personal account with one channel; the QR session's own steps (image, scan,
  confirmation) are the step from `Connect` to `WriteScan`. Two updates of
  `isConnected` on their way count as one. Incoming messages and the rate limiter
  are left out. Of the supervisor's own database errors only the failed mark is
  modelled: a read of `attemptReconnect` that fails ends the re-login with a
  rejection nobody handles, and one of `handleChannelUpdated` leaves the listener
  of a disconnected channel running.

Everywhere: BullMQ is modelled by what is relied on: backoff, bounded attempts,
stalled jobs given back a bounded number of times, results of a worker that lost
the job refused, one job per id. PostgreSQL, Redis, BullMQ, Zalo and the model
provider are external. Times are nondeterministic except where the code compares
them.

Not modelled at all: see the components with status `not_modelled` in
`PROJECT.json` and section 8. Encryption, storage, e-mail, adapters'
translations, QR payloads, dashboards and CRUD services keep no state in which
an order of steps could be wrong; together with the web application, the seeds
and the widget they are most of the repository's lines.

## 8. What is left

* `AutoAssignment`: round-robin over a Redis list, two conversations at once
  (`auto-assignment.service.ts`), with the assignment of conversations.
* `RefreshTokens`: rotation with GETDEL against the registry of a user's tokens
  and logout (`token.service.ts:237`).
* Presence and commerce presence (TTL sets), the settings cache, the delivery of
  realtime events: no document promises more than staleness for a bounded time.
* The rest of the conversations: assignment, labels, priorities; the merging of
  contacts; the knowledge base's embedding jobs; the personal accounts' rate
  limiter, whose sends at once wait for the same moment
  (`zalo-personal-rate-limiter.service.ts:66`).
* Proofs: a weaker `NobodyOverlaps`. Which pairs of kinds may overlap on an order
  without breaking a given book (an edit and a payment, say) is known from TLC
  for single pairs only. And, as one lemma, that a lock with a TTL keeps two
  sections apart, which payments and deliveries each prove now.

Runs stay few, one for each question. When a new component needs one, the less
instructive give way, as the violated runs did whose overlaps section 6 describes.
