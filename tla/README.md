# A TLA+ model of nest-order-api

nest-order-api is a NestJS service that keeps customers and their orders in
PostgreSQL and announces status changes of orders by e-mail, through RabbitMQ.
Its handlers are short and its tests are many, but every test drives one request
at a time and mocks the repository. What the tests cannot reach is what happens
*between* two awaits of a handler: this project models the handlers as the steps
between their database round trips and lets requests interleave there. The e-mails
are modelled up to the broker and back, with connections that drop and processes that
end, and the searches page by page, with rows deleted in between.

Paths below are relative to `src/src/` unless they start with `src/`.

## 1. Inventory

| Component | State | Operations | Interacts with |
|---|---|---|---|
| Order, Item, status machine (`order/*.entity.ts`, `order/order-status.enum.ts`) | status, items, total, version, deletedAt, createdBy | `calculateTotal`, `isEditable`, `canTransition` | used by OrderService |
| OrderService (`order/order.service.ts`, `common/crud/abstract-crud.service.ts`) | none of its own: tables `orders`, `items` | create, addItem, updateItemQuantity, removeItem, confirm, cancel, delete, findById, search | CustomerService (locks the customer's row), EventEmitter2 |
| CustomerService (`customer/customer.service.ts`) | table `customers` | create, update, delete, findById, search | reads `orders` before it deletes |
| PostgreSQL and TypeORM (`database/`, `common/audit/auditable.base-entity.ts`) | rows, row locks, partial unique indexes, version columns | transactions, `save`, `softDelete` | everything above |
| Roles and ownership (`common/auth/`, `common/audit/current-user*.ts`) | the current user, per request | RolesGuard, `canAccess`, owner scope of search | guards of every route |
| Notification (`notification/`) | per side: AMQP connection and channel; the queue and dead letters at RabbitMQ; ids of sent messages | handleOrderStatusChanged, publish, getChannel, close, connectWithRetry, handleMessage, retryOrDeadLetter, sendOrderStatusEmail, onModuleDestroy | consumes OrderService's events; RabbitMQ; SMTP |
| Search (`common/filter/`) | none | parseQueryFilters, coerceFilterValue, search, toPageResponse | called by the routes through OrderService and CustomerService, which add the owner |
| Error mapping (`common/exceptions/`) | none | exception to status code | every route |
| Rate limit, request ids, masking, health, configuration | counters in libraries | — | — |

What is hard here:

* **Interleaving at awaits.** Every write handler reads an entity, decides on the
  copy in memory, and saves it two or more round trips later
  (`order/order.service.ts:83`, `:100`, `:198`; `customer/customer.service.ts:77`).
* **What `repository.save` really does.** It reads the row again, writes the columns
  in which the entity differs from that second reading, increments the version
  column, and never compares versions. The consequences are not visible in
  any single handler.
* **Two services, one row.** An order may only be created for an active customer and
  a customer may only be deleted without active orders; the two checks are in
  different transactions and meet in a row lock (`src/docs/adr/0004-customer-row-locking.md`).
* **Check, then write.** The item limit and the uniqueness of taxId and passport are
  checked long before the write.
* **Partial failure.** An item taken out of the list is an orphan that `save`
  tries to detach, against a NOT NULL column.
* **Delivery.** Events are emitted in memory after the commit; the broker may
  redeliver; the consumer retries, dead-letters and reconnects. A handler outlives the
  channel its message came from, and `getChannel` has three awaits, `close` two, between
  which other calls, close events and shutdown run.
* **Pages.** Each page of a search is two queries of its own, built from text the client
  writes, over a table that changes.

What makes each component correct:

* order: the stored total is that of the stored items; the status moves only along
  ALLOWED_TRANSITIONS; items and total are frozen once the order has left OPEN; a
  confirmed order has items; the item limit holds; an acknowledged write is not
  lost; deleted orders stay deleted;
* customer: active taxIds and passport numbers are unique; PUTs do not overwrite each
  other; deleted customers stay deleted;
* both: no active order belongs to a deleted customer; no request waits for ever;
* events: an event announces a transition that happened, once, with the right total;
* notification: a message the broker has is e-mailed or dead-lettered, once where the
  broker does not redeliver it; dead letters have a reason; the consumer never goes deaf;
  the queue drains;
* search: the pages are the rows that match, each once and in order; a user sees
  their own orders only; limits hold whatever the client asks for; bad values are
  refused before PostgreSQL sees them.

## 2. Modules

```
Domain ──── Database ──┬── OrderService ────┬── OrderApi ── MCOrderApi
   │                   └── CustomerService ─┘
   └── OrderAggregate       (OrderService refines OrderAggregate)
OrderService ── OrderServiceProofs ── OrderSafetyProofs ── OrderRefinementProofs ──┐
CustomerService ── CustomerServiceProofs ───────────────────────────────────────────┴── OrderApiProofs

AmqpConnection ── Notification ──┬── MCNotification                        Search ──┬── MCSearch
                                 └── NotificationProofs ── DeliveryProofs           └── SearchProofs
```

| Module | What it is | Correspondence |
|---|---|---|
| `Domain` | Rows and the pure code of the entities | `Total` is `Order.calculateTotal`, `IsEditable`, `CanTransition`, `CanAccess` the methods of these names. A row's `life` is "absent", "active", or "deleted" (deletedAt set). An order's items are the quantity of each item id, 0 for none. |
| `Database` | Tables, row locks, indexes, and the library's `save` | External: modelled from how the services use PostgreSQL and TypeORM. `Differing` and `NextVersion` are the column-by-column write, `outdated` is a history variable (below), `IndexAccepts` the partial unique indexes, `ShareLockFree`/`UpdateLockFree` the lock compatibility. |
| `OrderService` | The seven write routes, as requests with a program counter | One action per handler up to its first write (`AddItem`, `Confirm`, ...), then one per round trip: `SaveReads`, `SaveWrites`, `SoftDelete`, `CreateLocks`, `CreateInserts`, and `Emit`. `Crash` is the death of the process at any of them. |
| `OrderAggregate` | What OrderService promises: each operation, removals included, atomic, on the stored order, under the handlers' guards | The abstract specification. No requests, copies or versions. `Overwritten` is what is left of the promise when a save overwrites a version it has not read. |
| `CustomerService` | The three write routes | `ChecksTaxId`, `ChecksPassport`, `InsertsCustomer`, `SaveReadsCustomer`, `SaveWritesCustomer`, `DeleteLocks`, `DeleteChecks`, `DeleteWrites`, `CustomerCrash`. |
| `OrderApi` | Both services on the same tables | A step of either; the shared state is `customers`, `orders`, `rowLocks`. |
| `AmqpConnection` | `AmqpConnectionManager`, for any number of managers | `StartGetting`, `Connect`, `OpenChannel` and `Returns` are `getChannel` between its awaits, `AfterClose` the close listener; `CloseChannels` and `CloseConnection` are `close` between its awaits. |
| `Notification` | Listener, publisher, RabbitMQ, consumer, `EmailService`, `RecentMessageIds` | `HandleOrderStatusChanged` and `Publish`; `LoopStarts`, `LoopGetsChannel`, `LoopPrefetches`, `LoopSubscribes`, `LoopFails` are `connectWithRetry`; `Deliver`, `MailSent`, `MailFails`, `BackoffEnds` are `handleMessage` and `retryOrDeadLetter`; `OnModuleDestroy` and `OnModuleDestroyContinues` the shutdown. `Transmit`, `Requeue`, `ConnectionDrops`, `Crash` are the environment. |
| `Search` | `SearchService`, `filter-value.ts`, the two services' `search` and the mapper | `Parsed` is what `parseQueryFilters` keeps of a filter. `Ask` is everything up to the first query (`Accepted`), `ReadContent` and `ReadCount` the two queries of `getManyAndCount`. |
| `MC...` | Instances for TLC | Constants, seeds, symmetry. |
| `...Proofs` | Theorems about OrderService, CustomerService, OrderApi, Notification and Search | Section 5. |

Conventions. A request is a model value that makes one handler call. `calls[r]`
holds where the call is (`pc`), the entity it read and changed in memory
(`entity`), what `save` read (`loaded`) and how it was answered (`result`). Node
runs the code between two awaits without interruption, so a step is a whole
stretch of code between two round trips. The read that begins a handler is merged
with the arrival of the request: before it, the request has touched nothing. A caller
has ROLE_USER (`Users`), ROLE_ADMIN (`Admins`), both or neither; `MayUse` is `RolesGuard`. An
operator such as `WithItem_Accumulates` is a *mutant*: the definition that
follows it with a plausible bug. No specification uses a mutant; they are there to
show that each property notices a bug of the code.

### repository.save and `outdated`

`src/DOMAIN.md`, ADR 0004, the migration `AddCustomerVersion` and the exception filter
expect a save of a stale entity to fail with a conflict. The entities carry
`@VersionColumn`, but TypeORM's `save` only increments it: the comparison needs an
explicit optimistic lock, which no handler asks for. The model compares nothing, as the code does.

Most rules of an order do not survive that, and saying so once is a finding. What a reader of the code
needs beyond it is whether the missing comparison is the *only* thing that breaks them. The history variable
`outdated` (`Overwrites`) holds the rows that some save has written over a version of which the saved entity was no copy. No
action reads it. A property of an order is then stated in one of three ways:

* for every order and any requests in flight, where it holds like that: `ConfirmedOrdersHaveItems`,
  `ItemsLeaveOnlyByRemoval`, `ActiveIdentifiersUnique`, the locks;
* for the orders outside `outdated`, which says that nothing breaks it but such a save:
  `RulesBrokenOnlyByOverwrites`, `MovesBrokenOnlyByOverwrites`, `EventsMatchOrders`, `RepeatedOnlyByOverwrites`,
  `OrphansOnlyByOverwrites`, `DeletedCustomersStayDeleted`, `RefinesAggregate`;
* as the documentation states it, and violated: the findings.

`VersionsGrow` is what makes the second group useful: until a save overwrites a version it has not
read, two different rows never have the same version, so that the comparison the handlers lack would find every stale copy.

The save itself is modelled as its two round trips. The write takes each column
from the entity where it differs from the second reading and keeps the row's value
otherwise; if the versions differ, the version column is one of those columns, so
the old version is written back. An item that the second reading returned and the
entity does not list is an orphan; `Item.order` declares no `orphanedRowAction`, so
TypeORM sets `order_id` to NULL, the NOT NULL column refuses it, and the whole
transaction is rolled back (`order/item.entity.ts:10`).

### The pipeline of e-mails

An event is a model value that becomes a message with its id; the queue, the deliveries of
each channel with their tags, the subscriptions and the dead letters are the record `broker`.
Each of `connectWithRetry` and `getChannel` may run more than once at a time, as
the close listener allows. What RabbitMQ and amqplib do is modelled from how the code
depends on it:

* Frames written in one stretch of code arrive in order, up to a point where the
  connection may be lost (`Transmit`): this is what tells publish-then-acknowledge
  from acknowledge-then-publish.
* Delivery tags count from 1 on each channel. A handler settles its message on
  `this.channel`, the channel of now. If the tag means another message there, that one is
  settled; if it means none, the broker closes the channel, no listener handles the channel's error, and the
  model takes the connection down.
* Without a channel `requireChannel` throws. Inside the `try` of `handleMessage` that
  is one more failure to retry; everywhere else it is a rejection nobody handles,
  which ends the Node process (`main.ts` installs no handler): `ProcessEnds`, and a new one
  starts with an empty memory of ids and no connections.
* Unsettled messages of a closed connection return to the head of the queue (`Requeue`).

`history` records what happened to a message and is read by properties only: `disturbed`
(the broker took it back, or its handler found another channel), `misdirected` (settled by
the acknowledgement of another one), `refused`, and the number of e-mails.

### Searches

A filter value is text; its model is what the code and PostgreSQL can tell of it: the parts between
its commas, each with the form it has (a UUID, an int4, an integer beyond int4 but
safe in JavaScript, a date, a date only JavaScript accepts, text with U+0000, ...) and a
number for its meaning. `Coerces` is what `coerceFilterValue` lets through,
`Storable` what PostgreSQL takes. NULLs compare and sort as in PostgreSQL. Rows with
equal sort keys come in any order, chosen anew by every query (`ReadContent`).

## 3. Runs

| Run | Configuration | Shows |
|---|---|---|
| `order_concurrent` | 4 requests of any route on one order, 3 of them in flight at a time, crashes, three callers | No confirmed order is empty; an item leaves an order only by the removal that names it; no lock leaks. But for orders of which a save overwrote an unread version: total and item limit hold, the status follows the transitions, items are frozen after OPEN, deleted orders stay deleted, events are true and announced once, versions grow, and every operation is atomic (`RefinesAggregate`). |
| `customer_concurrent` | 3 requests in flight | The partial unique indexes keep identifiers unique though the checks are separate queries; deletions leak no lock; a deleted customer comes back only by a PUT that overwrites an unread version. |
| `api_row_locks` | 2 creations or deletions of orders, 2 PUTs or deletions of their customer | The row locks alone keep `NoActiveOrderOfDeletedCustomer`; a deletion that is about to write is still right (`DeletionsAreSafe`); every waiting request is answered (`RequestsEnd`). |
| `api_all_routes` | 3 order requests of any route and 2 PUTs or deletions of their customer | With edits in flight an order can come back after its customer has been deleted; `OrphansOnlyByOverwrites`: only by a save that overwrote an unread version of that order. |
| `notification` | 2 events, one of them left in the queue on its last retry, a malformed message, 2 runs of `connectWithRetry`, one fault of each kind | Under faults of connections and processes, and shutdowns, a message is lost only by a misdirected acknowledgement, stays exactly once unless the broker took it back, is dead-lettered for a reason; the consumer is never deaf; the queue drains. |
| `search` | both tables, 3 rows each, 26 kinds of condition alone and in pairs, every sort and order, 3 sizes, deletions at any time | The pages together are the rows that match, in order; no row comes twice though rows disappear; limits and ownership hold; the only values PostgreSQL refuses are three kinds that are out of its range. |
| `order_reopened` | confirm and cancel in flight | Violated: finding 1. |
| `order_total` | two edits of items in flight | Violated: finding 2. |
| `order_removal` | one removal | Violated: finding 3. |
| `customer_puts` | PUTs in flight | Violated: finding 4. |
| `notification_ack` | as `notification` | Violated: finding 5. |
| `order_search` | as `search` | Violated: finding 6. |

Findings (each a run TLC ends with a counterexample):

1. `order_reopened`: a confirm that read the order before a cancel committed
   writes CONFIRMED over the terminal status CANCELED.
2. `order_total`: two edits in flight each write the item they changed and the total of the list they
   had read, so the stored total counts one of them.
3. `order_removal`: `removeItem` on an item the order has ends with an internal error. The abstract
   specification has the removal (`ItemRemoved`), the handlers never perform it.
4. `customer_puts`: ADR 0004 says that the second of two concurrent PUTs gets 409. It overwrites the first and gets 200.
5. `notification_ack`: the comment on `RabbitMqConsumer` says that a message is acknowledged only
   after its e-mail was sent. A handler that outlives its connection acknowledges its
   delivery tag on the next channel, where it may be another message, not yet
   e-mailed: that one is lost. `LostOnlyByMisdirectedAck` shows that this is the
   only way to lose a message the broker has accepted.
6. `order_search`: `createQueryBuilder` loads no eager relation, so the mapper
   reads the customer of an order that has none in memory; every page that holds an order is
   answered with 500. No end-to-end test searches for orders, and the unit tests mock the query builder.

Findings 1, 2 and 4 have one cause, the comparison `save` does not make. It has more consequences, each of which
the models contain and the `...OnlyByOverwrites` properties trace to it: two additions in flight exceed the item
limit, an edit changes the items of an order that has been confirmed, two confirmations are both
announced, an edit revives a deleted order, whose customer may have been deleted since, and a PUT revives a deleted customer.

Observations made while modelling, without a run of their own:

* The uniqueness query counts soft-deleted customers, so the taxId of a deleted one is refused,
  although the comment (`customer/customer.service.ts:138`) and the partial index say it may be reused.
* When the channel is gone at the end of a back-off the process ends
  (`notification/rabbitmq.consumer.ts:153`), while `src/README.md` describes the consumer as reconnecting in
  the background.
* Two calls of `getChannel` that overlap open two connections and forget one, which is never
  closed. If the consumer subscribed on it, its messages are delivered and handled, but settled on the
  other channel; `QueueDrains` exempts such connections.
* An id is looked up before its e-mail and remembered after it. Two deliveries that are both looked up before the first
  e-mail is out are both e-mailed, though `src/README.md` says that the consumer skips an id it already e-mailed; it
  calls that a cheap mitigation. It takes a redelivery, which `ExactlyOnceUnlessReturned` exempts.
* `coerceFilterValue` says that invalid values give 400 and not 500. An integer beyond
  int4 for `version`, a date such as the year 0000, and text with U+0000 still reach
  PostgreSQL and give 500; `OnlyRangeErrors` says that nothing else does.
* A condition of a POST body that is a number, a boolean or `null` is neither applied nor refused: `parseQueryFilters`
  skips it, and the search returns rows the client meant to exclude.

### Bounds

Nothing in the specifications of the API is capped: there are no counters in a guard. A
request makes one call, so the number of requests bounds versions and events. `Notification`
has three bounds: `MaxFaults`, `MaxLinks` and `ManyMails`, below.

* *One order* in the order runs: no step of a handler looks at two orders. Two
  orders in `api_row_locks`, where they meet in the customer's row.
* *Two items*, of prices 1 and 3 with quantities 1 and 2, are what a stale
  total or a lost item needs: one item that a request knows of and one it does
  not. Every set of them has a different total. In `order_concurrent` and `api_all_routes` the limit is
  one item, so that additions meet it.
* *Four requests*: creation, and three that race, which is one more than the longest
  counterexample of a race on one order needs (two saves and a change seen between them). `MaxConcurrent = 3` of them are in flight
  at a time in `order_concurrent` and `api_all_routes`, 2 (all there are, or what the race of the run needs) in `api_row_locks`,
  `order_reopened` and `order_total`, and 1 in `order_removal`, whose failure needs no race.
* *Two customers' requests* next to orders: a PUT or a deletion that the other
  one meets in the lock queue. Three on their own, for two that race with a third
  that changes the table under them; two values of each identifier.
* *Callers* are an administrator, a user and a caller with neither role in the order runs, so that roles and
  ownership both refuse; one administrator in the API runs, where nothing depends on it.
* *Notification*. `MaxFaults` allows one fault of each kind: `link` is a connection that drops, a
  lost frame, a crash or a shutdown, `tag` a connection taken down by a refused tag. One of each is what
  a misdirected acknowledgement and the loss of its own channel need, one after the other. `MaxLinks = 3`
  names for connections, used again when nothing remembers the old one: the publisher's, the consumer's,
  and one that is forgotten or closing. Two runs of `connectWithRetry` (`Loops`): the one
  that connects and the one that a close starts beside it; a close that would start a third waits. `MaxRetries = 1`
  and the backlog, one message on its last retry and one malformed, let every branch of `retryOrDeadLetter` happen; `Prefetch = 2` (10 in the code) lets two
  handlers overlap, and `Remembered = 1` lets the memory of ids overflow. `ManyMails = 2`: e-mails about one message are counted up to two.
* *Search*. Three rows with equal and NULL sort keys, pages of 1 or 2 (`MaxSize = 2`), an offset limit of 2
  and one condition per field: each limit is met and exceeded.

Requests are interchangeable and declared symmetric, but for `api_row_locks`,
which has a liveness property. `CHECK_DEADLOCK FALSE`: the system stops when
every client has been answered; that no request is stuck before is `RequestsEnd`. In `notification` it stops when all messages are
settled and the faults used up, in `search` when the last page is read and every row deleted.

### Fairness

`OrderFairness`, and its counterparts, is weak fairness of each request's
`Continue`: PostgreSQL answers, and Node resumes a handler whose promise has
settled. Nothing makes a client send a request, and nothing makes a process crash. Weak
fairness is enough though a step may wait for a row lock: the requests are finitely many, so
the holders of a lock come to an end. It would not rule out the starvation of a FOR UPDATE by
an endless stream of creations; PostgreSQL queues lock requests, which is not modelled.

`Notification`: timers fire and promises settle (weak fairness of a loop's steps and of the handlers),
RabbitMQ delivers and requeues (weak fairness of `Deliver`, `Requeue`, `ChannelOpens`),
shutdown ends (`OnModuleDestroyContinues`, `Exit`). `Connects` is strongly fair: the broker may refuse connections for a while, as `connectWithRetry` expects, and
accepts one in the end. Nothing makes an event be published, nothing makes SMTP succeed, and no fault has to
happen. `Search` states no liveness: each page is finitely many steps of one call.

## 4. Hazards

`PROJECT.json` lists every hazard at its line with the properties that would catch it.
Those without a property say why: the code and its documentation promise nothing there (order of
e-mails, a PUT that omits the passport number, dropped conditions, forgotten connections, how long an id is remembered), or accept
the loss or the second e-mail (ADR 0002, `src/README.md`), or the model shows the divergence but the project
has no run for it (the uniqueness query).

## 5. Proofs

Every invariant and every action property that a passing run checks, and the refinement of
`OrderAggregate`, is also a theorem, for all values of the constants: any sets of requests, orders, items, customers, events,
rows and users, any prices and limits, any number of faults. `PROJECT.json` lists the theorems with the properties they state.

Assumptions. The modules name what they need of their constants, and TLC evaluates it on every instance: quantities and
prices are positive and items finitely many (`DomainAssumption`); a seeded row has its type, an absent one is empty, and no request
calls both services (`DatabaseAssumption`); the backlog holds messages (`NotificationAssumption`); every table has its audit
columns and finitely many typed rows whose ids are not NULL, and a user has a name
(`SearchAssumption`; `common/auth/jwt.strategy.ts` refuses a token without one). Two hypotheses stand in theorems themselves:

* `SaveFree`, the routes of orders are creations and deletions. It precedes `DeletionsSafe` and `NoOrphanedOrders`, the theorems about
  what the row locks do; with the other routes an edit can revive an order, and `OrphansExplained` is the theorem.
* `BacklogDistinct`, the queue holds one copy of each message to begin with.

### Orders

* `TypeCorrect` (`OrderServiceProofs`): `OrderTypeOK`, from `KeysOK`: the order and the
  customer that a call in flight holds are keys. The interesting leaf is `WrittenType`:
  merging any entity and any reading into any row gives a row with a total some
  list of items has.
* `ConfirmedHaveItems`, `ItemsKept`, `LocksDoNotLeak` (`OrderSafetyProofs`), of every order. `SafetyInv` says why: a
  call that will save `CONFIRMED` holds a copy with an item; that item is either
  written by the save or was in the table when the save read it (`WrittenHasItems`), and the table has lost none
  since, for a save that would drop an item has an orphan and fails as a whole (`WrittenGrows`). A creation holds the key of
  a row that is not there yet, distinct from that of every other creation, so it overwrites nothing.
  `ReceiveStarts` reduces the nine ways a handler may begin to what they leave behind (`NewCall`), `CallsStaySafe`
  the ways a call may end to the effect on everyone else's copy.
* `OrderRefinementProofs`. The inductive invariant `AtomicInv` speaks of the orders outside `outdated`: a copy that
  is going to be written and has the row's version is the row with one edit (`EditOf`), because every write of such a
  row increases its version. A save of that copy then changes the row exactly as the operation of `OrderAggregate` does; a save of any other
  copy puts the order into `outdated` and is an `Overwritten` step, for which `SafetyInv` gives what is left (no item lost, no empty confirmed
  order); every other step leaves the mapped variables alone: `RefinementCorrect`. The same
  invariant gives `RowsTrueUnlessOverwritten`, `RowsMoveUnlessOverwritten` and `VersionsOnlyGrow`. `AnnouncementsOK` and `AnnouncedOnce` tie an
  event, emitted or about to be, to the row that has reached its status: `EventsAreTrue`, `EventsOnce`.

### Customers, and both

* `CustomerServiceProofs`. `CustomerInv` holds the types, the keys of creations in flight, that a lock FOR UPDATE excludes every
  other, and that active identifiers are unique: the index is checked in the step that writes, so it needs no copy
  to be fresh (`IdentifiersUnique`). A copy with the version of a customer outside `outdated` is
  an edit of the row (`CustomerCopiesOK`), hence `DeletedStayDeleted`.
* `OrderApiProofs`. `MeetingInv` adds to the invariants of both services what the row locks mean: a creation that is about to insert
  holds the lock FOR SHARE of an active customer, a deletion that is about to write holds the lock FOR UPDATE of a customer without active
  orders, and the two locks exclude each other. Each step of one service is seen from the other only by what it does to
  customers and locks (`LocksGentle` and its neighbours). An order of a deleted customer that is active, or that a creation is about to
  make so, is in `outdated` (`Clear`, `NoOrphans`): `OrphansExplained`. Without saves of orders nothing is, hence `DeletionsSafe` and `NoOrphanedOrders`.

### E-mails

* `ChannelsStayOpen` (`NotificationProofs`): `AmqpInv` adds that a shared channel is on an open connection *of the same
  manager*, so the close event that takes the connection resets the very manager that shares the channel; and the connection a call waits
  on is that manager's or closed, for a name is used again only when no call remembers it. Every action is reduced to a
  step of `getChannel` (`GetStep`) or one that closes connections (`CloseStep`).
* `ConsumerNeverDeaf`: `ConsumerInv` adds that only channels of the consumer have subscriptions, so
  the close of the connection with the last subscription is one that the consumer's listener hears; it starts a
  loop, and a loop ends only once it has subscribed on a channel that was open at that moment.
* `NotificationTypeCorrect`, `NothingElseIsLost`, `DeadLettersHaveReasons` (`DeliveryProofs`).
  `DeliveryInv` follows the messages: each accepted one is somewhere the code or the broker will find it again, or its fate is
  known (`Fates`); a dead letter has its reason. The actions
  that write to the broker are reduced to what a transmission may do: publish, settle, or publish again and settle, each cut off after some
  frames or arrived whole.
* `OnceUnlessReturned`: `ExactNow` counts. A message nothing went wrong with (calm: accepted, not taken back by the broker, not settled by
  another's acknowledgement) has exactly one place, or one dead letter, or one e-mail (`Counted`). A handler of a calm
  message has its delivery and no other handler has it (`Owned`); what a closed connection left
  unsettled is not calm (`ClosedLeft`); an event waiting at the publisher is nowhere yet (`NotYetPublished`).

### Searches

* `SearchTypeCorrect`, `OwnOrdersOnly`: while its queries run, the request is one that was accepted, and a page is a part of
  the rows that match (`PageOfRows`). The owner's condition is among the criteria whatever the client
  sends, and deletions leave owners alone.
* `RangeErrorsOnly`: whatever `Coerces` accepts and `Storable` does not is of the three kinds (`CoercedFits`).
* `RowsComeOnce`. The order of the rows, sort key then id, is total (`PrecedesOrders`) and deletions do not change it. The rank of a
  row is the number of rows of the result before it: a page is the rows whose ranks are from OFFSET to OFFSET + LIMIT, in whichever way
  PostgreSQL sorted them (`PageRanks`). `OnceInv` says that a fetched row that still matches ranks below the next OFFSET; a deletion
  only lowers ranks (`RankShrinks`), so that the next page cannot hold it. Without the tie break on id the order would not be total.
* `PagesComplete`: while nothing is deleted, the rows fetched so far are those that rank below OFFSET, in order (`WholeInv`); the last page
  is the last because the number of pages is rounded up (`PagesSuffice`); and the criteria are the conditions the filter states in the form the API takes, with the owner's (`ResultIsWanted`).

### Recursive functions

`Total` is a fold of the library over the items of an order, `Keep` is a recursive function over a sequence, and so is the library's
`FlattenSeq`, which joins the pages. What the proofs need of them (one edit of an item changes the total by its price times the difference; the kept
elements are the chosen ones in order; one page more appends its rows) is proved by the
least counterexample: the least number or set for which it fails is neither 0 or empty nor the successor of one (`LeastNat`, `LeastSubset`).
The same argument shows that the functions exist.

### Only model-checked

`RequestsEnd` and `QueueDrains`: liveness under fairness is out of the prover's reach. What the six runs that expect a
violation show is a counterexample and needs no proof.

## 6. Not modelled

* `findById` changes nothing; its guard is `CanAccess`.
* In `Search`: a page or size that is JSON `null` (it passes the DTO, and no default applies); writes other than
  soft deletions between pages; the row count is read after the content, as `getManyAndCount` does, but nothing is said of it
  when rows were deleted between the two.
* In `Notification`: a consumer the broker cancels (a delivery without message); a message another
  producer sent without an id; the transport to SMTP; the order of e-mails.
* Validation of tokens and of environment variables, migrations as programs.
* Decimal rounding: prices are whole cents; `calculateTotal` multiplies cents.
* The branch of `changeStatus` for a blank e-mail address: the column is NOT NULL and
  the DTO requires an address.
* `updatedBy`, timestamps, log messages, response bodies, masking, health, rate limiting,
  configuration: they decide nothing in the modelled code.
* Aborts by PostgreSQL itself (serialization failures, lock timeouts): a crash has the
  same effect on the tables.

## 7. Plan

Done: orders and customers on their own and together, the refinement of `OrderAggregate`, the pipeline of
e-mails under faults, searches, and the proofs of section 5. Left:

1. `DeletionsSafe` and `NoOrphanedOrders` for every route, of the orders outside `outdated`.
2. The safety half of `RequestsEnd`: whatever a request waits for is held by a request that waits for nothing, for any number of requests.
3. For `Notification`: a message on its last retry is not retried again; the memory of ids never exceeds its limit.
