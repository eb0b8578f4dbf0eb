# TLA+ models of the Realtime Order Inventory System

The repository is a set of Go services: an order service and an inventory
service, each with its own Postgres database and a Redis cache in front of it,
Kafka between them (through an outbox in the order service), and a WebSocket
service that pushes events to browsers. The modules here model the parts of it
in which several goroutines, replicas or systems work on the same state. TLC
checks them on small instances; TLAPS proves the safety properties and the two
refinements for every value of the constants. `PROJECT.json` maps each definition to the lines it
stands for; paths below are relative to `src/`.

## 1. The system

### Components, their state and their operations

| Component | State | Operations |
| --- | --- | --- |
| Inventory service (`internal/inventory`) | tables `inventory`, `inventory_reservations`, `inventory_movements`; Redis copies `stock:{product}` and `stock:warehouse:{product}:{warehouse}` | GetStock, ReserveStock, ReleaseReservation, UpdateStock |
| Order service (`internal/order`) | tables `orders`, `order_items`, `outbox_events`; Redis copies `order:{id}` | CreateOrder, GetOrder, ListOrders, CancelOrder, ConfirmOrder |
| Outbox publisher (`internal/order/adapter/kafka/outbox_publisher.go`), one per replica | the rows of `outbox_events`, the batch in hand | ClaimBatch, publishEvent, MarkPublished, MarkFailed |
| Kafka consumer (`pkg/kafka/consumer.go`), one per replica and topic | the offset of the group, the message in hand, the attempt | Start, handleWithRetry, sendToDLQ |
| Event handlers (`internal/*/adapter/kafka/*_event_handler.go`) | none of their own | order.created and order.cancelled; inventory.reserved and inventory.reservation_failed |
| WebSocket service (`pkg/websocket`, `internal/websocket`) | map of clients, send buffer, channels and connection of each client, a gauge | Register, Unregister, BroadcastToChannel, the two pumps of a client, GetStats, the Redis subscriber |
| Redis cache (`pkg/cache`) | entries with a time to live | Get, Set, Delete, all failing open |
| Connection pool (`pkg/database/postgres.go`) | 25 connections | taken per statement or per transaction |
| Auth service, Traefik, metrics, tracing, logging, configuration | nothing other parts depend on | |

### How they interact

HTTP handlers and Kafka consumers call the use cases; the use cases call a
cache decorator around a Postgres repository. Replicas of a service share its
database, its Redis and its consumer group. The order service writes an event
into `outbox_events` in the transaction that changes the order; the publishers
move events to Kafka topics; the inventory service's consumer reserves stock
for `order.created`. The WebSocket service gets its events from Redis Pub/Sub,
in one goroutine, and hands them to the hub's clients.

### What is hard about it

* The version for optimistic locking comes out of a cache. Late SETs and lost
  DELs leave old copies in it, and `ReleaseQuantity` changes the row without
  raising the version.
* `ReserveStock` and `ReleaseReservation` open a transaction, but the counter
  and the status are written past it, each with a commit of its own.
* `CancelOrder` and `ConfirmOrder` decide on a status that is not tested again
  when it is changed, and no write deletes a cached order.
* Several publishers claim from one table; a publisher can stop, and a
  statement or a Kafka write can fail with its effect done or not. A Kafka write
  can also succeed without it, because no acknowledgement is asked for.
* The consumer's offset is committed before the handler runs.
* The handler of `order.created` reserves item by item, and a retry starts again
  with the first one; nothing in a request tells which message it belongs to.
* The handler of inventory events races HTTP requests for the same order, and a
  COMMIT whose answer is lost makes it repeat a decision that stands.
* `ReserveStock` and `ReleaseReservation` hold one database connection while they
  wait for a second one.
* The hub, the subscriber, the statistics and two pumps per client share a map,
  buffers that are closed by one of them, two kinds of locks and an unbuffered
  channel.

`PROJECT.json` lists these as hazards, each with its line and the properties
that would catch it going wrong.

## 2. The modules

| Module | What it is |
| --- | --- |
| `Inventory` | the inventory service, for one product in one warehouse |
| `StockHolds` | what that service promises: stock is held at most once, and each hold ends at most once |
| `Orders` | the order service: orders, their events and their cache entries |
| `Outbox` | the publishers of the outbox |
| `Consumer` | a consumer group on one partition |
| `Hub` | the WebSocket hub, its clients and the subscriber |
| `OrderEvents` | extends `Orders`: the order service with its consumer of inventory events |
| `InventoryEvents` | extends `Consumer`: the inventory service's handler of order events in its consumer group |
| `ConnPool` | the database connections of the inventory service |
| `MCInventory`, `MCInventoryEvents`, `MCHub` | symmetry and constants for TLC; the other modules are run as they are |
| `Totals` | sums over a finite set, as the number of units they stand for |
| `*_proofs` | the theorems about the module of that name; those about `Orders` are in `OrderEvents_proofs`, `Totals_proofs` has the lemmas on sums |

A step of a model is one point at which a goroutine touches something shared:
a statement, a transaction (atomic in Postgres), a Redis call, a lock, a
channel operation. Between two steps everybody else can run.

### Inventory

`row` is the inventory row (version -1: no row), `cache` the two Redis entries,
`resv` the reservations, `moves` the sums of the movement rows, `job` what each
worker does. `ReserveStock`, `ReleaseReservation`, `UpdateStock` and `GetStock`
start a request; `CacheHit`, `CacheMiss`, `DbGet` and `CacheSet` read the row
through the decorator; `Create`, `AdjustOnHand`, `ReserveQuantity`,
`UpdateStatus` and `ReleaseQuantity` are the five UPDATE and INSERT statements
with their WHERE clauses; `CacheDelete` is the DEL after each of them;
`CommitReservation` and `WriteMovement` are the transactions as far as they
really go. `Fail` stops a request before any of its steps (an error, a
cancelled context, a crash), `RedisFail` loses a Redis call, `CacheExpire` is
the time to live.

Every statement names one (product, warehouse), so one pair is enough; reads of
warehouses by code are left out. GetStock's entry holds a list over all
warehouses; the part that belongs to this one is modelled. `quantity_on_hand`
is an unbounded integer: the widths of the Postgres columns are not reached by
the quantities of an order.

Two constants describe choices outside the code: `OrderItemIdNotNull` is the
schema (the migration the containers load declares the column NOT NULL, the one
the tests use does not), `ReleasesMayOverlap` says whether two requests to
release one reservation can be under way at a time.

### StockHolds, and how Inventory implements it

A holder is a request or a reservation. `Hold` needs room in what is there,
`Pass` hands a hold over, `Drop` ends it. The refinement mapping (`HeldFor`)
says for whom Inventory holds stock: for a request from its `ReserveQuantity`
until its reservation commits, for a reservation from then until the
`ReleaseQuantity` of its release. The property `ImplementsHolds` says that every
step of the service is one of these steps. It is where the counter, the
reservation rows and the requests, all written separately, are put together.

### Orders

`orders`, `outbox` (the events of each order, in order), `cache`, `job` and
`reply`. `CreateOrder`, `GetByIdempotencyKey`, `InsertOrder` are the three parts
of a creation; the others start with the cached read, `Decide` on what they
found and run `UpdateStatusInTx`, one transaction for the status and the event.
The answer to a COMMIT can be lost (`Committed`): the request then ends with an
error although its effect is there.
A request without an idempotency key gets a fresh one in the code, so it is a
request with a key nobody else has. Confirmations come from the handler of
inventory.reserved. Only the three statuses some code writes are modelled.

### Outbox

`status` and `created` are the rows, `pub` the publishers. `writes` counts the calls
of WriteMessages, `accepted` are the events for which it returned no error,
`delivered` those that reached their topic. `SelectPending` (FOR UPDATE SKIP LOCKED)
and `CommitClaim` are the two halves of ClaimBatch, `PublishEvent` the write, `Mark`
the UPDATE after it. `accepted` and `delivered` are independent
(`DeliveredAfter`): the publisher's kafka.Writer sets no `RequiredAcks`, which is
kafka-go's RequireNone, so success says nothing about the broker, and an error may
come after the message has arrived.
`ClaimFails`, `MarkFails` and `Crash` are the error paths. A row is inserted with
a timestamp that was read before its transaction committed, so a new row can be
older than the ones that wait.

### Consumer

Kafka and kafka-go are external, modelled by what `Start` sees of them: with a
group id, `ReadMessage` commits the offset before it returns the message
(`FetchMessage`, then `CommitFirst` or `CommitFirstFails`). `HandleMessage` and
`HandlerFails` are the loop of handleWithRetry, `SendToDLQ` and `CommitMessages`
the rest of `Start`. `Assign`, `Rebalance` and `Crash` are the group. `Poison` are
the messages the handler never accepts. NewConsumer creates the dead letter
writer without a topic and sendToDLQ the message without one, which kafka-go
refuses: `Kept` adds nothing, whatever the configuration says.

### Hub

`clients` and the client's `closed`, `buffered`, `channels`, `conn`, and where
each goroutine is: `reader` (HandleWebSocket, then ReadPump), `writer`
(WritePump), `hub` (Run), `cast` (the subscriber in BroadcastToChannel), `stats`
(GetStats). Sends on the unbuffered channels complete in the step in which the
hub receives (`ReceiveRegister`, `ReceiveFromReader`, `ReceiveFromCast`).
`Hub.mu` is derived from where its users are: `RLocked`, and `hub.locking` for a
writer that waits and keeps new readers out, as sync.RWMutex does. A send on a
closed channel, a second close and a map race end the process (`panic`).
Message contents do not matter, buffers are counts. `late` counts what
`AtMostOneLate` talks about and influences nothing.

`BroadcastMessage` and the `broadcast` case of Run are left out: nothing in the
repository calls BroadcastMessage.

### OrderEvents

`Orders` with some of its workers being the consumers of the replicas. `delivery`
is the event a consumer has in hand and the attempt it is at. `Deliver` takes
`inventory.reserved` (ConfirmOrder) or `inventory.reservation_failed`
(CancelOrder) for an order that exists, any number of times and in any order;
`inventory.released` is only logged in the code. When the use case has returned
(`Returned`), `Retry` starts it again from its cached read if it failed, and
`Done` ends the event, handled or given up. What counts as a failure is in
`Failed`: CancelOrder returns an error for an order that is decided already,
ConfirmOrder does not. `Crash` loses the event, whose offset was committed
before. HTTP workers create, cancel and read at the same time. The action
`Deliver` stands for producers that the repository does not have (section 4);
the handler is modelled for what it would do.

`ImplementsOrders` says that all of this is a behaviour of `Orders` with more
requests: a retry is just another request, so the consumer adds nothing to what
the order service could do before.

### InventoryEvents

`Consumer` with the handler of `order_event_handler.go` in the place of its
abstract one. `Log` is the partition; a message has a type, an order and whether
its payload is wrapped in `data`, without which `Decoded` yields no items and no
error. `done` is the member's place in the loop over the items, `rows` counts the
reservations of every item, `available` the units left. `ReserveItem` is one call
of ReserveStock that succeeds, `ReserveFails` one that does not: no stock, or an
error before anything happened, after the unit was taken, or on the answer to
the COMMIT (the outcomes that `Inventory` derives). `GiveUpAttempt` returns the
error to handleWithRetry, and the next attempt begins with the first item.
`Reported` is publishInventoryReservationFailed: the writer and the message both
name a topic, which kafka-go refuses, and the error is logged.
`HandleOrderCancelled` passes the order id as a reservation id, finds nothing and
fails in every attempt: those messages are the `Poison` of `Consumer`.
`CrashInHandler` ends the process anywhere in the loop, also inside ReserveStock
after the counter was raised and before the reservation is committed. A shutdown
does the same, since main does not wait for the handler.

The inventory is the handler's interface `InventoryUseCase` and not the module
`Inventory`: quantities, versions and caches play no part in what the handler
does. `Stock` is what its requests can reach; they name no warehouse.

### ConnPool

Each use case of the inventory service is the sequence of its database calls
(`ReserveStock`, `ReleaseReservation`, `UpdateStock`, `GetStock`): on the pool
(`query`, or `read` where the cache may answer), `begin`, inside the transaction
(`exec`, or `record` for the movement whose error is dropped), `commit`. `txs` and
`stmts` are the goroutines with a transaction and with a running statement; each of
them has a connection (`InUse`). `Borrow` and `Begin` take a connection if there
is one, `Finish` returns that of a statement. A use case ends with `Commit`, with an
early return (`ReturnEarly`) or when its wait is broken off (`GiveUp`); in the last
two it is the deferred Rollback (`RolledBack`) that gives the transaction's
connection back. `Stuck` says that somebody waits and nobody with a connection will
return it: whoever has one waits too, or has forgotten about it.
Goroutines are split into `Holders`, which serve the two use cases that need a
second connection, and `Others`. The order service has no such use case: between
BeginTxx and Commit it uses its transaction only.

## 3. What TLC checks

| Run | Instance | Shows |
| --- | --- | --- |
| `inventory_race` | 2 workers, 2 reservations, quantities 1 and 2, deliveries of 2, 5 writing requests, any number of reads, 1 fault | `TypeOK`; `CopiesTrail`: no copy is ahead of the row, and one with the current version only errs on the safe side; `VersionGuardsAvailability`: if the version still matches, the stock is still there; `NoOversell`; `HoldsCovered`: the counter covers every hold, exactly so without faults; `AuditTrail`: movements add up to the row; `ImplementsHolds` |
| `orderevents_retries` | 2 HTTP workers and 1 consumer, 2 orders, 1 key, 3 requests or events, 1 retry, 2 faults | `EventTypeOK`; `OneOrderPerKey`; `RefusalsAreTrue`: a request is refused only if the order really is decided; `EventTakesEffect`: an event the consumer is done with has its order decided, unless there were more faults than retries; `EventsEnd`; `CacheConverges`: stale entries disappear for good once writing stops; `ImplementsOrders` |
| `inventoryevents_handler` | 2 members, 5 messages (an order, one with too little stock, a cancellation, the first order again, a third order without the envelope), orders of 2, 3 and 1 items, 1 retry, 2 errors, 1 crash, 1 rebalance | `EventTypeOK`; `ReservedInOrder`: no item has more reservations than the ones before it; `DuplicatesBounded`: at most one reservation per attempt, and one per message for the last item, but for hidden errors; `UnitsAccounted`: at most one unit without a reservation per error or crash; `HandledAsDecoded`: what the handler decoded from a message it accepted is reserved, and nothing else; `Drains` |
| `pool_requests` | 2 holders, 2 others, 2 connections | `StuckMeansHeld`: the pool stops only with every connection in a transaction that waits for a second one; `EveryRequestEnds`: every request ends unless that happens |
| `outbox_publishers` | 2 publishers, 3 events, batches of 2, 2 timestamps, 2 errors, 1 crash | `WrittenAtMostOnce`; `StatusTellsOutcome`: PUBLISHED and FAILED tell what the write reported, and an event in its topic is not claimed again; `OrphansBounded`: an event left CLAIMED was left by a fault, at most a batch per fault; `EventuallySettled`: nothing waits for ever |
| `consumer_group` | 2 members, 4 messages, one of them poison, 1 retry, 2 errors, 2 crashes, 2 rebalances | `HandledAtMostOnce` without rebalances; `LossBounded`: at most one message lost per error or crash, and the poison ones; `Drains`: the end of the partition is reached |
| `hub_race` | 2 clients, 1 channel, buffers of 1 | `TypeOK`; `HubNeverPanics`: one close, no broadcast to a closed channel; `LeaversLeave`: nobody is left in the map; `AtMostOneLate`: at most one message after leaving a channel |
| `hub_live` | 1 client, 2 channels, buffer of 1 | `EventuallyCleanedUp`: both pumps end and the client leaves the map; `BroadcastReturns`: slow clients do not stop the subscriber |
| `inventory_double_release` | as above, overlapping releases | refutes `ReservedMatchesRows` |
| `orders_decided_twice` | 2 workers, 1 order | refutes `DecidedOnce` |
| `hub_closed_send` | 1 client | refutes `NoPanic` |
| `inventoryevents_deployed` | the payloads CreateOrder writes, 1 member | refutes `HandledIsReserved` |

**Bounds.** Requests, faults, errors, crashes and rebalances are counted and
capped by constants; reads are not capped. Two actors are enough for every race
found in the code, which are all between a reader and a writer or two writers of
one row; the second reservation, order, event or message is there so that what
one actor loses can hide behind another. Five requests are a delivery, two
reservations and two releases. A buffer of one is full after one message, like
one of 256 after 256. Two connections for two holders and two other requests are
the smallest pool that the holders can stop and in which the others can be in the
way as well, so `StuckMeansHeld` and `EveryRequestEnds` are checked where the pool
does stop; with three connections it cannot (`PoolNeverStuck`).
One retry makes the difference between the first and the last attempt; the
second order of `inventoryevents_handler` has more items than its first attempt
finds stock for, the first order comes twice, and the third one cannot be decoded.
The theorems below do not depend on any of this.

**Deadlock** is checked for Inventory, OrderEvents and ConnPool, which can always
accept a read. Outbox, Consumer and InventoryEvents run out of events and messages, and the hub's process may
have died, so their runs turn the check off.

**Fairness.** OrderEvents: a request that was started goes on, handleWithRetry
goes on when the use case has returned, and an entry with a time to live expires;
nobody has to send requests or events. Outbox: a ticker fires every
five seconds, so a publisher that can work does. Consumer: a running member goes
on and the coordinator assigns a free partition; InventoryEvents the same.
ConnPool: statements and transactions that have their connection go on, weakly
fair; taking a connection is strongly fair, because database/sql hands a returned
connection to one of the waiting goroutines, chosen at random, so that none is
passed over for ever; nobody has to give up or to be served from the cache. Hub: goroutines that can run
do; strong fairness for the subscriber's RLock, which a waiting writer can
postpone but not for ever (sync.RWMutex lets readers in after each writer), for
senders on an unbuffered channel, which are served in turn, and for the read
error of a closed connection, behind finitely many buffered frames. Peers,
clients and events owe nothing, and crashes and errors never have to happen.

## 4. Where the code and its documents disagree

The four violation runs each refute a statement of the documentation, quoted in
`PROJECT.json`:

* two concurrent releases give stock back twice, because the status and the
  counter are written outside the transaction (`usecase/inventory.go:144`);
* a cancellation and a confirmation of one order can both succeed
  (`order_repo.go:160`);
* a client that was cut off and still answers a frame sends on a closed channel
  (`client.go:186`);
* the payload of `order.created` has no `data` and no list of items
  (`create_order.go:91`), so the inventory service accepts every order and
  reserves nothing for it, where `docs/event_design.md:176` says "Reserve stock
  for each order item".

Others were seen while modelling and have no run of their own. Their steps are
part of the models:

* the schema the containers load has `order_item_id UUID NOT NULL`
  (`migrations/inventory/01-init.sql:59`), and the reservation is inserted with
  NULL: every ReserveStock fails after it raised the counter. The constant
  `OrderItemIdNotNull` of `Inventory` is this choice; all theorems hold for both,
  and only the exactness of the counter in `HoldsCovered` and `AuditTrail` is
  claimed for the schema of the tests alone. The runs use that schema, in which
  reservations can succeed;
* the publisher's kafka.Writer asks for no acknowledgement (`outbox_publisher.go:38`):
  an event that was lost on the way to the broker is marked PUBLISHED and never sent
  again, where `docs/architecture_decision_record.md:73` says "Guarantees
  at-least-once delivery". `DeliveredAfter` has this case, and `StatusTellsOutcome`
  says what a status means all the same;
* as many ReserveStock or ReleaseReservation requests as there are connections stop
  each other, each with a transaction open and waiting for a second connection
  (`usecase/inventory.go:82`); `pool_requests` is an instance in which this happens.
  `docs/testing_strategy.md:344` met it with one connection and raised the test
  database's limit to five, which takes five requests; the service has 25
  connections (`database/postgres.go:32`). A client that gives up ends such a wait;
  the event handler's calls have no deadline;
* events claimed by a publisher that died stay CLAIMED (`order_repo.go:352`),
  against `docs/consistency_and_transaction.md:217`; `OrphansBounded` says how
  many there can be;
* a message that was being handled when the process died is skipped
  (`consumer.go:87`), against `docs/architecture_decision_record.md:382`;
  `LossBounded` says how many there can be;
* the request that the handler of order.created makes names no warehouse
  (`order_event_handler.go:130`): with an empty id in a UUID column ReserveStock
  finds no row whatever the stock is;
* the message inventory.reservation_failed is refused by kafka-go, because the
  writer (`cmd/inventory-service/main.go:108`) and the message
  (`order_event_handler.go:197`) both name the topic. Nothing produces
  inventory.reserved, the only topic the order service reads
  (`cmd/order-service/main.go:101`): no order is ever decided by an event;
* no consumer reads the topic order.cancelled (`cmd/inventory-service/main.go:116`),
  and its handler calls ReleaseReservation with an order id
  (`order_event_handler.go:166`);
* the items reserved before one that fails stay reserved, and every retry
  reserves them again (`order_event_handler.go:129`); `DuplicatesBounded` says how
  often;
* when the answer to a COMMIT is lost, the retry of an event may find the old
  status in the cache and write a second order.confirmed event
  (`create_order.go:243`);
* any failure between ReserveQuantity and the commit leaks reserved stock
  (`usecase/inventory.go:82`), a crash included; `UnitsAccounted` says how much, one
  unit per error or crash, and `HoldsCovered` says only that the counter covers
  what is held, and is exact without faults;
* a reader's SET after a writer's DEL leaves a stale stock entry until it expires
  (`cache/inventory_repo.go:49`), against `docs/caching_strategy.md:114`;
* UpdateStock can make the stock negative (`inventory_repo.go:83`); the CHECK of
  `docs/database_design.md:128` is not in the migrations; `NoOversell` therefore
  assumes that stock is only received;
* CancelOrder does not delete `order:{id}` (`cache/order_repo.go:60`), against
  `docs/caching_strategy.md:65`;
* the second of two simultaneous creations with one key gets an internal error
  and not the 409 of `docs/architecture_decision_record.md:105`;
* one failed Kafka write marks an event FAILED for good (`outbox_publisher.go:99`),
  against `docs/consistency_and_transaction.md:218`;
* the dead letter topic never gets a message (`consumer.go:186`);
* the gauge of connections goes down twice for a slow client (`hub.go:56`);
* GetStats reads the channels of a client without the client's lock
  (`hub.go:144`).

## 5. What is proved

Every invariant, action property and refinement that a passing run checks is a
theorem. Each `*_proofs` module shows that an inductive invariant `IInv` holds
initially and is preserved by every action (one lemma per action or group of
actions), and draws the theorems from it; properties that need more have an
invariant of their own on top of `IInv`. TLC checked these invariants on the
instances of section 3 before they were proved. The assumptions are the named
ASSUMEs of each module (constants have their types, sets of processes are finite
where they are counted, the "no such thing" values are none of the things), and
the hypotheses that four theorems state: releases that do not overlap for the three
about holds, fewer holders than connections for `PoolNeverStuck`.

### The inductive invariants

* **Inventory**: `TypeCorrect`, `CopiesAlwaysTrail`, `NeverOversold`,
  `VersionIsEnough`. `CopiesTrail` carries the argument: a copy with the row's
  version has the row's quantity on hand and at least its reserved quantity, so
  what it shows as available is available. It needs to know what a worker at
  each step works on (`JobConsistent`: a request at `reserveQuantity` found
  enough in its copy) and that an absent row has nothing in it, because a copy
  of the absent row has version -1 as well.
* **Inventory, holds and movements**: `CounterCoversHolds`, `MovementsAddUp`,
  `HoldsImplemented`. `HoldsCovered` is kept by a step only together with
  `ReleasesIInv`: what a request knows of the reservation it releases is true
  (`ReleaseConsistent`), no two requests release the same one, and a reservation
  that exists is of a positive quantity. `AuditTrail` speaks of moments without
  requests; `AuditTrailInFlight` is its inductive form, with the quantities that
  requests under way have written to the row and not to the movements yet. The
  refinement is shown action by action: each changes `Held` for one holder or
  hands a hold over, and `NeverOversold` together with `HoldsCovered` gives the
  room that `Hold` asks for. All three assume `~ReleasesMayOverlap`, because two
  overlapping releases do give stock back twice (`inventory_double_release`).
  Where order_item_id is NOT NULL every ReserveStock raises the counter and
  reserves and records nothing, without that being a fault: the movements then
  still add up to what is held (nothing), not to the counter.
* **Orders**: `TypeCorrect`, `OneOrderForAKey`, `RefusalsTrue`. Copies of a status
  err in one direction only (`CopyTrails`: a copy that shows a decided order is
  right about that), in the cache and in the hands of workers; an order has a
  key exactly if it exists.
* **OrderEvents**: `EventTypeCorrect`, `EventOneOrderForAKey`,
  `EventRefusalsTrue`, `EventHasTakenEffect`, `OrdersImplemented`. The steps of
  Orders keep Orders' own `IInv`, and the three steps of the consumer are
  requests, answers or stutters of Orders. `EventConsistent` adds what the
  consumer knows: every attempt that ended with the order still pending has cost
  a fault, so after the last attempt there were more faults than retries. A stale
  cache cannot break this, because `CopyTrails` lets it show a pending order for a
  decided one but not the reverse: the handler may do too much, never too little.
  For the refinement, `RequestsBounded` says that the requests made so far and
  the retries every consumer has left fit under the bound of the abstract
  specification, so a retry always has a request of Orders to stand for.
* **Outbox**: `AtMostOnce`, `StatusTruthful`, `FewOrphans`. No event is in the
  hands of two publishers (`HandsDisjoint`), events in hand are in the state the
  publisher's step says and not yet written (`PublisherConsistent`), the outcome a
  publisher is about to mark is the one its write reported, and a row that is still
  PENDING was never written. Nothing is proved of `delivered`: without
  acknowledgements no status implies delivery. `BatchesBounded` says that no publisher
  has more than a batch in its hands, so that a fault, which drops what one
  publisher holds, adds at most a batch to the orphans.
* **Consumer**: `AtMostOnce`, `FewLost`. Until the first rebalance only the owner of
  the partition is at work, its message is the committed one, and nothing beyond
  the committed offset was handled (`SingleReader`). `LossBounded` looks at what
  the committed offset has passed, which a commit changes by many messages at a
  time after a rebalance; `MissedBounded` counts a message as soon as anybody has
  given it up and is inductive.
* **InventoryEvents**: `EventTypeCorrect`, `AlwaysReservedInOrder`,
  `SuccessIsReserved`, `HandlerAtMostOnce`, `UnitsMatchRows`, `FewDuplicates`.
  `SuccessIsReserved` speaks of what the handler decodes and holds for every log,
  the one that CreateOrder writes today included, for which it says that no order
  has a reservation. That an item has no more reservations than an
  earlier one is not inductive: `LoopsCounted` adds the members whose loop is
  between the two items at the moment (`Between`), each of which has reserved the
  first and not yet the second. `LoopConsistent` says that a member's place in its
  loop is covered by reservations. The steps of the group keep Consumer's `IInv`.
  For the duplicates, `Counted` splits the reservations of an item into those of
  messages that are over (`Past`), those of the failed attempts at the message in
  hand (`Attempt`) and that of the attempt in progress (`Now`).
* **Hub**: `TypeCorrect`, `HubSafe`, `NoClientLeaks`, `LateMessages`. A client in the
  map is not closed; under RLock nobody leaves the map, so whoever the broadcast
  visits is in it; a client the hub is about to add has not left
  (`MapConsistent`). `LateConsistent` says why one late message is all: it belongs
  to a send that had tested for the channel before the client left, and with
  that send gone the next test fails.
* **ConnPool**: `OnlyHoldersStop`, `PoolNeverStuck`. Only holders have transactions,
  no goroutine begins a second one, a goroutine with a statement is at a call on
  the pool, and one whose request is over has neither. In a pool that is stuck, all
  connections are then transactions of holders that wait. `PoolNeverStuck` draws
  from this that with fewer holders than connections it never is; nothing in the
  code bounds the holders, and the instance of `pool_requests` is the other case.

### Sums

A sum over a set is usually a fold, and what a fold computes can only be shown by
induction. `Totals` writes the sum of natural numbers as the number of elements
of a set of units, `f[x]` of them for each `x`. What a step does to a total
(`Totals_proofs`: one value changes, an amount moves, all are zero, none is
above a bound) then follows from the library's facts about the cardinalities of
finite sets. `HoldsCovered`,
`AuditTrail`, `RequestsBounded` and `UnitsAccounted` are stated with it.

### Only model-checked

Everything with fairness, which is outside the proof system's reach:
`CacheConverges`, `EventsEnd`, `EventuallySettled`, `Drains` (of Consumer and of
InventoryEvents), `EventuallyCleanedUp`, `BroadcastReturns`, `EveryRequestEnds`.
The four violations of section 4 are counterexamples, which TLC finds.

## 6. Not modelled

ListOrders, order items and warehouse lookups, which only read or are written
once; the hub's BroadcastMessage, which nothing calls; the Kafka producer
wrapper, which no service creates; the auth service, which keeps nothing between
requests; Traefik, metrics (but for the connection gauge), tracing, logging and
configuration. `order_status_history` is written by no code. A module that joins
both halves of the saga would have no message to pass between them: what each
half sends, the other does not read or cannot decode (section 4).

## 7. Plan

Done: Inventory, Orders, Outbox, Consumer and Hub, the connection pool, the event
handlers of both services composed with what they call, and proofs of all safety
properties and refinements. Left:

1. The orders' outbox column and the rows of `Outbox` tied together: what commits
   with an order is what the publishers see.
2. What of the refinement of `StockHolds` survives overlapping releases: that
   holds are still granted only out of free stock.
3. When the services agree on payloads and topics, the whole saga as one
   composition, with the abstract specification that an order is confirmed or
   cancelled and stock is held for it accordingly.

## Running

    tlc -workers 2 -config MCInventory_race.cfg MCInventory
    tlapm Inventory_proofs.tla

and likewise for the other configurations and proof modules.
