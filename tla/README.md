# TLA+ models of AspNetCoreMicroservicesShop

This directory holds a formal model of the shop's Angular client, its baskets
and discounts, and its order processing: TLA+ modules, TLC configurations that
check them on small instances, and proofs checked by TLAPS that hold for every
instance. It is written from the source
under `Src/`; paths below are relative to that directory.

Contents: [the system](#1-the-system), [what is modelled](#2-modules-and-what-they-stand-for),
[runs](#3-runs), [bounds](#4-bounds), [fairness](#5-fairness), [proofs](#6-proofs),
[disagreements found](#7-where-code-and-comments-disagree),
[what is left out](#8-what-is-not-modelled), [plan](#9-plan).

## 1. The system

| Component | State it keeps | Operations | Talks to |
|---|---|---|---|
| Order saga orchestrator | `OrderStateData` per correlation id (SQL Server, row version) | state machine over 9 events; 6 consumers; `ExecuteOrderTransaction` | publishes `BillOrder`, `DispatchOrder`, `Notify*`, `OrderFailedToBeBilled`, `RollbackOrderPayment` |
| Payment.API | none of its own | `BillOrder`, `RollbackOrderPayment` consumers | publishes `OrderPaid` |
| Delivery.API | none of its own | `DispatchOrder` consumer; `OrderDeliveredPublisher` (no caller) | publishes `OrderDispatched` |
| Ordering | `Orders` table (SQL Server through EF Core) | place, cancel, delete; paid, dispatched, delivered and failed notifications | publishes `OrderCanceled`; SignalR hub |
| EventBus.Messages | none | event types, queue names | shared by all of the above |
| Shopping.Angular | per tab: token and claims, the page shown and its data, the requests under way | login, logout, navigation with guard and resolvers, add and delete items, checkout | the gateway, the identity server |
| Basket.API | one JSON document per user in Redis | get with discount refresh, upsert, add item, delete item, delete | Discount over gRPC |
| Discount.Grpc | `Coupon` table (PostgreSQL), dropped and rebuilt at every start | get, create, update, delete; `MigrateDatabase` | - |
| Catalog.API | products (MongoDB) | CRUD | - |
| Shopping.Policies | circuit breaker state, response cache | fallback, retry, breaker, timeout, cache | wraps HTTP clients |
| Shopping.Aggregator, OcelotApiGateway | cached responses, exchanged tokens | fan-out reads; routing | the services |
| Shopping.IDP | IdentityServer stores | tokens, token exchange | every service validates against it |
| Shopping.Razor | none between requests | the same pages, rendered at the server | the gateway |
| EmailFunction, Correlation, Logging, HealthChecks, WebStatus, HostCustomization | none | - | - |

How an order travels:

    client -> Ordering.PlaceOrder (row PENDING)
    OrderPlaced   -> saga: OrderPlaced            consumer: BillOrder
    BillOrder     -> saga: OrderSentForBilling    Payment:  OrderPaid
    OrderPaid     -> saga: OrderPaid              consumer: NotifyOrderPaid, DispatchOrder
    DispatchOrder -> saga: WaitingToBeDispatched  Delivery: OrderDispatched
    OrderDispatched -> saga: OrderDispatched      consumer: NotifyOrderDispatched
    Fault<BillOrder> -> saga: OrderFailedToBeBilled   consumer: OrderFailedToBeBilled
    OrderCanceled -> saga: OrderCanceled          consumer: (RollbackOrderPayment)

What is hard about it:

* **Two effects, one delivery.** On `ordersaga-queue` the state machine and the
  consumer of the same event run side by side within one retry filter and one
  in-memory outbox, but the saga commits to SQL Server by itself. An attempt can
  fail after the saga has moved, because the consumer failed or because the answer to the
  commit was lost, and the retry meets a saga that rejects it.
* **Order.** Queues promise none here: deliveries run concurrently and retries
  are overtaken, so events reach the saga in orders its table must `Ignore`.
* **Crashes.** An unacknowledged delivery comes back, and the in-memory outbox
  does not remember what it flushed.
* **Tokens.** Consumers validate the access token of the message against the
  identity server and return silently when it does not answer.
* **Read, await, save.** Ordering's handlers await between loading an order and
  saving it, with no concurrency token on the table, and catch everything.
* **Read, ask, write back.** Every basket request reads the whole document and stores it
  whole later; reading a basket asks Discount about each item in between, and may itself
  store. Two requests of one user overlap freely.
* **A service that rebuilds its table.** Discount drops its coupons whenever it starts;
  the client's retry of a failing gRPC call throws instead of retrying.
* **Late answers.** The Angular client sends requests that are answered after the user
  left the page, logged out or pressed Submit again; a token lapses between the guard, the
  request and its retries.

What makes each part correct: the saga's record never claims work that was not
done; nothing is dispatched unpaid; retries alone duplicate nothing; a stalled
order leaves a trace; queues drain; Ordering hears of events in a sensible
order, does not lose a payment to a race, does not revive a deleted order, and
answers its clients truthfully. A basket never counts more than was added to it, loses an
update only to an overlapping request, and shows the discounts the coupons offer. The
client places one order per press of Submit, from the basket as it was then or later,
reports success for orders that exist, and never leaves its user waiting.
For the HTTP policies (not modelled): a broken service is left alone and a healthy one is not.
`PROJECT.json` lists the hazards line by line with the properties that cover them.

## 2. Modules and what they stand for

    OrderEvents ----------+--> OrderSaga --(implements)--> OrderLifecycle
    OrderStateMachine ----+        ^-- MCOrderSaga
                                   ^-- OrderSaga_proofs <- OrderSagaOnce_proofs
                                                        <- OrderSagaStalls_proofs
                       OrderSaga --(implements)--> OrderNews <--(relies on)-- Ordering
    OrderEvents --------------> Ordering --(implements)--> OrderRecord
                                   ^-- MCOrdering
                                   ^-- Ordering_proofs <- OrderingNotices_proofs
    OrderEvents_proofs: lemmas both proof modules use
    ClientRequests -----------> ShoppingClient --(implements)--> Checkout
                                   ^-- MCShoppingClient, ShoppingClient_proofs
    Basket (with Discount)  <-- MCBasket, Basket_proofs

**OrderEvents** is the vocabulary: the queues of `EventBusConstants`, which
event is bound to which queue, what each consumer publishes (one definition per
consumer, under its name), and the broker as a bag of messages. A message keeps
its kind, queue, order, correlation id, whether its token would validate, and
how many retries it has had. Prices, dates, card numbers and names are copied
along by the code and decide nothing; they are left out.

**OrderStateMachine** is the transition table of `OrderStateMachine.cs` as a
set of triples, the `Ignore` declarations as a set of pairs, and what
MassTransit does with the rest: an event without an instance is dropped, any
other unexpected event throws and the delivery fails. `None` is the absence of
an instance; a finalized instance is removed (`SetCompletedWhenFinalized`).

**OrderSaga** joins orchestrator, Payment and Delivery.

| Variable | Code |
|---|---|
| `net` | RabbitMQ queues |
| `saga` | `OrderStateData.CurrentState` by correlation id |
| `source`, `canceled` | who published `OrderPlaced`; which cancellations Ordering published |
| `billed`, `dispatched` | how often `BillOrderConsumer` / `DispatchOrderConsumer` published their result |
| `errorQueue`, `skipped` | `_error` queues; consumers that returned on a token |
| `unsure` | no variable of the code: the orders whose own `BillOrder` moved the saga by a commit whose answer was lost. Read by properties (`Sure`) and by no action |
| `failures`, `crashes` | budgets spent |

One action is one attempt at a delivery. `Attempt` fixes what the attempt meets:
what came of the saga's commit (`Commits`: answered, nothing stored, or stored and the
answer lost, as `EnableRetryOnFailure` of `ConfigureDatabase` leaves it) and how the
consumer ended (published, skipped on a token, threw, or there is none). After a lost answer
the operation runs again and finds the state it has itself brought about, which rejects the
event: the attempt fails, and so does every retry. `SagaAcknowledges`, `SagaRetries` and
`SagaGivesUp` are what the endpoint's filters make of it; `SagaCrashes` is a
process lost before the acknowledgement, with the attempt finished or not. The
queues of Payment and Delivery are configured to retry
`InvalidOperationException` only, which no consumer throws, so
there an exception is a fault at once (`WorkerFaults`).

Sagas are named by their order: the model identifies the correlation id that
`OrderPlaced` carried with the order. A cancel request carries the id of *its
own* HTTP request, so `CancelIds` chooses whether the client repeated the first
one (`placed`) or not (`fresh`). `Publishers` chooses who starts sagas:
`ExecuteOrderTransaction` sends no token; the call in `PlaceOrderCommandHandler`
(line 107) is commented out "for local testing purpose" and is modelled as the
deployment it is meant for.

**OrderLifecycle** is the abstract specification: one order's recorded stage
moves forward only, and a stage that claims work is entered after the work.
`OrderSaga!Lifecycle` maps `stage` to `saga` and the sets `paid` and `sent` to the
orders with a positive count.

**Ordering** models the `Orders` table and the handlers. A row keeps
`OrderStatus`, `PaymentData.OrderPaid` and whether `OrderCancellationDate` is set.
A handler is a job in one of `Slots`, with a program counter at each point
where the code awaits:

| `pc` | Code | Steps |
|---|---|---|
| `load` | `GetOrderBy` | `Load`, `Abandon` (not found or query failed: retry, then error queue) |
| `save` | the setter and `SaveChanges` | `Save`, `Refuse` (the aggregate throws), `SaveThrows` (row gone, database failed, commit ambiguous) |
| `publish` | `PublishOrderCanceledEvent` | `PublishCanceled`, `PublishThrows` |
| `hub` | SignalR `SendAsync` | `Hub` |

`SaveChanges` writes the columns this handler changed since its read, which is
how EF Core's change tracking works; `Updated` says so column by column. An
update or delete of a row that is gone throws `DbUpdateConcurrencyException`,
which the handlers catch. The five notification and cancel handlers have the
same shape in the source; `map` in `PROJECT.json` spreads the steps over them.

The consumers of Ordering pass the message's correlation id where the command
takes the order id. An order is in `SameId` when the two coincide (its saga was
started by `ExecuteOrderTransaction` with the order's id as the correlation
header); otherwise its notifications find no row.

**OrderNews** stands between the two: what the saga tells Ordering, and when, without
queues, sagas or retries. A payment is told after it was taken, the order leaves only once
that was told, a dispatch is told after it left, a delivery never; no order is both billed
and told to have failed unless it is `doubtful`. `OrderSaga!News` maps it to the counts of
work, the notifications in Ordering's queues (nobody in the workflow reads them, so they are
all that was ever told) and, as the doubtful, the orders that are not `Sure`: a process
crashed, or the commit of the order's own `BillOrder` got no answer. `ImplementsNews` says
that the saga keeps to it. `Ordering!Notify` takes its guard from the same module, with every
order billed and sent as it pleases and doubtful: Ordering assumes nothing of the saga that the saga was not
shown to do. A notification may come again, for a crash of `MaxCrashes`; that the saga needs
a crash for it is `DuplicatesTakeCrashes`.

**OrderRecord** is what Ordering promises of its table: rows that change by one command at a
time, a notification that acts only after the saga told it, a cancellation in the first day,
recorded before it is published and published before it is answered, and no row back once
deleted. `Ordering!Record` maps its `status`, `paid` and `dated` to the columns of the rows and
hides handlers, messages, tries and crashes. It says less than a table with locks would: a
notification may leave the status as it is, because `SaveChanges` leaves out a column the
handler did not change, and a cancellation does not look at the status, which
`OrderingBilled` shows it cannot rely on.

**ClientRequests** is the vocabulary of the Angular client: its routes, the requests
its services send (one definition per service method, with the retries each is given:
`retry(3)` on the reads, none on the writes), and what the three resolvers do with and
without a logged-in user.

**ShoppingClient** is one browser tab over a shop reduced to what the client relies on.

| Variable | Code |
|---|---|
| `tab` | the page is loading its settings (`main.ts`), without them, running, or away at the identity server |
| `idp`, `code`, `waiting` | `loadDiscoveryDocumentAndTryLogin`: the discovery document, the code the page was entered with, a login that waits for the document |
| `token` | the token in the session storage: none, valid, expired (its claims stay) |
| `page`, `nav`, `loading` | the component in the router outlet, the navigation waiting for its resolver, `NavComponent.loading` |
| `view` | the version of the basket or the orders that the page shows, and the version current when its visit began |
| `filled`, `call` | the checkout form is valid; the `HttpClient` requests of the pages |
| `history`, `ledger` | at the server: the versions of the user's basket, the orders placed |
| `asked`, `confirmed`, `failures` | when Submit was pressed; which successes the client acted on; budget spent |

A request goes `sent` -> `done` or `failed`, and its answer waits until the client takes it.
`live` says whether anybody still subscribes: leaving a page drops its subscriptions
(`Abandon`), and the request itself goes on at the server. `Serve`, `Reject` and `Lose` are
the server's end; `Lose` may lose the request or only its answer. An unauthorized request
is answered by the gateway at once (`Authorized`). A navigation cancels the one before it,
passes `AuthGuard` or starts a login, waits for its resolver, and ends in
`NavigationEnd`, `NavigationError` or `NavigationCancel`, the router events that
`NavComponent` listens to.

The server's part of this module is coarser than **Basket** and **Ordering**: a call is
served in one step. What the client promises does not depend on more, since every answer
may come from any moment after the request.

**Checkout** is what the client promises about ordering: one press, one order at most, of a
basket with items that was current at the press or later, and success only of an order that was
placed. `ShoppingClient!Promise` maps it to `history`, `asked`, `ledger` and `confirmed`
and hides pages, navigation, tokens, requests, retries and losses. The orders are a
sequence on both sides, so that an order placed twice is two orders.

**Basket** is one user's document in Redis, the requests on it, and Discount.

| Variable | Code |
|---|---|
| `store` | the document, or none |
| `job` | the requests under way, with the basket each read (`seen`) and works on (`copy`), the items it has still to ask about, and `ShouldUpdateBasket` |
| `coupons`, `table`, `migration`, `unseeded` | table `Coupon`, whether it exists, where `MigrateDatabase` stands, the rows it has still to insert |
| `added` | how much of each product `AddBasketItem` has stored |
| `started`, `changes`, `failures` | budgets spent |

A request moves through the awaits of `BasketService`: `read` (`GetBasket` of the
repository), `discounts` (one gRPC call per item), `write` (`SetStringAsync` or
`RemoveAsync`), `reread` (`UpdateBasket` reads again), and ends `answered`, `failed` (the
code throws) or `lost` (a call of it failed). Two facts about the time since its read are
kept beside a request and read by no action: `alone`, that no other request stored a basket,
and `steady`, that Discount was up and kept its coupons. `DiscountFails` ends the request
at the first failing gRPC call: `GrpcPolicies.Retry` logs before it retries, through a
static logger that is set by a constructor nobody calls. `UpdateBasket` stores an empty
basket: `ShoppingBasket.Items` has a private setter, which the deserializer of request
bodies does not use.

A coupon table is a set of amounts per product: the query takes the first row in no stated
order, so any of them. Rows of one product are told apart by their amount.

**MCOrderSaga, MCOrdering, MCShoppingClient, MCBasket** add symmetry sets, and the
seeded coupons, for TLC.
`FailuresAreExplained` asks `steady` of reads only, since no other endpoint asks Discount.
`NothingIsCountedTwice` and `LossTakesARace` bound what overlapping updates can lose; that
they can lose an update is what the code does, and the model allows it.

## 3. Runs

| Run | Shows |
|---|---|
| `SagaFailures` (141 k states) | one order, both publishers, a racing cancel, 2 failures or lost answers, 1 crash, 1 retry: `TypeOK`, `SagaInv`, `WorkInv`, `DuplicatesTakeCrashes`, `FailedMeansUnbilled`, `StallInv`, `StallsLeaveATrace`, `ImplementsLifecycle`, `ImplementsNews`, `WorkIsUsedUp` |
| `SagaDrains` (133 k) | both correlation ids, 1 failure, 1 crash: `QueuesDrain` |
| `SagaDispatches` (54 k) | two orders, no failures, every delivery order: `SagaNeverAhead`, `PlacedIsDispatched` |
| `OrderingRaces` (1.49 M) | two handlers, 2 requests, 1 failure, 1 crash or notification told twice: `TypeOK`, `PaymentIsRecorded`, `NoticesInv`, `OrderingInv`, `AnswersAreTrue`, `DeletedStaysDeleted`, `ImplementsRecord` |
| `OrderingForeign` (959 k) | a saga under an id of its own, 2 requests, 3 failures, 1 crash or notification told twice, 2 retries: `NoticesNeedTheirId`, `WorkEnds` |
| `ClientSession` (286 k) | one request at a time beside boot, login, navigation and the token lapsing, the code's 3 retries, 1 failure, another client: `TypeOK`, `BarShowsNavigation`, `ViewIsOfThisVisit`, `OrdersAreCurrent`, `NavigationEnds`, `CallsEnd` |
| `ClientCheckout` (716 k) | two requests under way, two presses of Submit, 1 failure, another client: `OneOrderPerSubmit`, `ConfirmedIsOrdered`, `ClientInv`, `ImplementsCheckout` |
| `BasketRaces` (499 k) | two requests at once, three in all, two products, a change of the coupons or a start of Discount, 1 failure: `NothingIsCountedTwice`, `LossTakesARace`, `DiscountsAreOffered`, `FailuresAreExplained`, `BasketInv`, `RequestsEnd`, `DiscountReturns` |
| `SagaLostRollback`, `SagaDuplicates`, `OrderingBilled`, `OrderingIds` | violations, see section 7 |

Deadlock is not checked: with empty queues and spent budgets the workflow has
stopped, as it should.

Every property has a deviation (operators named `X_Something` beside `X`) that a
plausible mistake in the code would amount to, and under which TLC finds the
property violated. Notable ones: without the in-memory outbox
(`SagaRetries_NoOutbox`) a retry bills twice; without the `Ignore` lines
(`Tolerates_NoInstanceOnly`) an overtaken order is never dispatched; with saves
that write whole rows (`Updated_AllColumns`) a payment is lost to a racing
handler; with an upsert (`Save_Upserts`) a deleted order comes back; with a handler that also
catches what its load throws (`Abandon_Caught`) a notification without an order vanishes; with a retry around the
whole of `placeOrder` (`placeUserOrder_Retried`) a lost answer orders twice; with the
order made from the basket the page showed (`submit_Shown`) it takes what another tab had
changed before; with the update flag set by the last item only
(`UpdateItemDiscount_LastOnly`) a read leaves stale discounts in Redis; with empty baskets
removed (`SetBasket_RemovesEmpty`) a request fails for no reason of its own.

## 4. Bounds

* **Orders**: one where failures are explored, two where interleaving of sagas
  is. Sagas share no state but the queues, and a queue delivers any message.
* **Retries**: 1 or 2 instead of 3. A retry differs from the next only in
  how many are left; one shows a first and a last attempt, two a middle one. `SagaFailures`
  has one, so that two failures can both give up a message and be spent on two.
  `SagaLostRollback` and the other violations use the code's 3.
* **MaxFailures, MaxCrashes**: 2 and 1 in `SagaFailures`, 3 and 1 in `OrderingForeign`: one
  more than the retries, so that a message can be given up for failed calls alone, both halves of
  one delivery can fail, and a redelivery can be retried. A commit whose answer is lost costs
  one failure and the rejected retries after it none, so a `BillOrder` given up although it
  moved the saga, and the fault that follows, come well within the bound; they do violate
  `FailedMeansUnbilled` if `Sure` leaves `unsure` out. With two handlers
  (`OrderingRaces`), 1 and 1. In Ordering a crash is one of its own, or one of a process of
  the saga, which then notifies twice. The proofs below hold for every value.
* **SameId**: `OrderingRaces` has the order's own id, where notifications find their order
  and `NoticesInv` says that one is set aside only for failures of its own or a row that is
  gone; `OrderingForeign` and `OrderingIds` have another one. `IdsDecide` is proved of any mixture.
* **Slots**: two handlers; all read-save races are between two. `OrderingForeign` has one, and
  the theorem of its invariant any number.
* **MaxRequests**: two, for two cancels, or a cancel and a delete, of one order. Three in
  `Basket`, so that a request can meet the leftovers of a race.
* **ShoppingClient**: one product, whose presence alone tells versions apart. `MaxVersions`
  bounds the basket's versions: three let an item be added, seen and deleted; two let a
  basket change once between a read and its order. `Room` keeps a version free for each
  change on its way, so that the bound blocks no answer. `Retries` is the code's 3 where
  requests are few, and 1 (a first and a last attempt) where two run at once.
* **Basket**: `Quantities` and `Amounts` of one value suffice: quantity 1 and 2 arise by
  adding twice, and discounts 0 and 1 differ. One product is seeded and one is not.
  `MaxFailures` is at most 50, the retries of `MigrateDatabase`, which the model
  therefore leaves unbounded.

## 5. Fairness

`OrderSaga!Spec` asks for weak fairness of `Deliver` as a whole: as long as some
queue holds something, some delivery is attempted to its end, which is what a
broker with running consumers does. It does not ask that any one message is
delivered, nor that a call succeeds; `PlacedIsDispatched` therefore is checked where
the failure budget is zero, and `QueuesDrain` with failures and a crash.

`Ordering!Spec` asks for weak fairness per slot: a handler whose await completes goes
on, and a free slot takes a waiting message. Nothing is asked of requests,
notifications, crashes or the clock.

`ShoppingClient!Spec` asks for weak fairness of the steps of a navigation and of each request:
a request is answered or fails, by a timeout of the browser if by nothing else, and the
client takes the answer. Nothing is asked of the user, of the token's renewal, or that any
request succeeds. A user who keeps clicking cancels navigation after navigation, so
`NavigationEnds` speaks of a user who rests.

`Basket!Spec` asks for weak fairness of each request and of the migration: a call to Redis,
Discount or PostgreSQL returns or throws. Nothing is asked of the arrival of requests, of
changes to coupons, or of success.

## 6. Proofs

`OrderEvents_proofs` holds the facts about the broker (what a bag contains after a
send or a replacement) and about messages (what is published is well typed, bound
to its queue, and about the order it answers).

`OrderSaga_proofs` proves, for every set of orders, number of retries and budgets:

* `TypeCorrect`: `Safety => []TypeOK`.
* `SagaInvariant`: `Safety => []SagaInv`. What matters, `SagaNeverAhead`, is not
  inductive: that a saga in `OrderPaid` was billed depends on the `OrderPaid`
  message that moved it, and that one on the work behind it. `SagaInv` adds
  `MessagesAreRouted` (each message lies in a queue bound to it and names its own
  order) and `MessagesKeepOrder` (each message in flight reports or presumes only
  what happened). The proof first restates the two as a property of single
  messages, shows that a step keeps it for the messages it leaves and establishes
  it for those it sends, then goes through the actions.
* `NeverAhead`: the consequence a reader wants.
* `Refinement`: `Safety => ImplementsLifecycle`, by mapping each action to a step of
  the lifecycle or a stutter under `SagaInv`.

`OrderSagaOnce_proofs` counts deliveries, for the same constants:

* `WorkInvariant`: `Safety => []WorkInv`. That no order is billed twice is not inductive: it
  rests on there being one delivery that could still bill it. The queues are bags, so the
  copies of those deliveries are counted (`Copies`, each message paired with an index), and
  `WorkIsCounted` bounds work under way plus work done by one, and one more per crash. The
  lemmas say what a send and a replacement do to such a count; `Heirs` says that what a
  delivery sends continues the work it took, one piece at most. `WorkIsTold` keeps a payment
  told of while its order is on the way to its dispatch; `FaultsAreHarmless` says of every
  order that is `Sure` that a fault of `BillOrder` is about an order nobody will bill, or comes
  from the saga's own copy of `BillOrder` and meets a saga that rejects it. The copy has no
  consumer, so a delivery of it either ends or leaves the saga where it was, except when the
  answer to its commit is lost: this is what `unsure` remembers, order by order, and the lost
  answers of all other commits, and of other orders, the invariant withstands.
* `DuplicatesAreCrashes`, `FailedUnbilled`, `ToldInOrder`: what a reader wants of it.
* `NewsAreInOrder`: `Safety => ImplementsNews`. A delivery tells one notification at most, the
  one its consumer publishes (`SpreadsHeard`), and takes none back, as no message of
  Ordering's queues is delivered in the workflow. That it may be told then is `WorkIsTold`
  and, for a failure, `FaultsAreHarmless` of the state after the step.

`OrderSagaStalls_proofs` follows an order until it is dispatched:

* `StallInvariant`: `Safety => []StallInv`. An order of which no step was given up has a
  delivery ahead that leads to its dispatch, and one that brings its record there. Every
  delivery is reduced to its fate (`Fate`): it waits again, is set aside, is skipped, or its
  consumer published, or it has no consumer and the saga took the event.
* `StallsTraced`: with the queues of the workflow empty nothing waits, so what is missing was
  given up, and the error queue or the log shows it.
* `WorkUsedUp`: `Safety => WorkIsUsedUp`. `Deliveries` counts the deliveries an event can come
  to (itself, and each copy of what its consumer publishes), `Attempts` multiplies by the tries
  each is granted, and `Remaining` adds up the messages in flight. Since the queues are bags,
  the sum is the cardinality of a set, one element per copy and attempt. An acknowledged delivery
  replaces a message by what it sends, which weighs less (`EmitsLighter`); a retry takes one
  attempt off; giving up leaves a fault, which weighs less; a crash restores the tries of one
  message. So `Remaining` falls with every attempt that is not a crash, and a crash adds less than
  a new order does. This is why `QueuesDrain` holds; the step from it to the temporal formula
  needs ENABLED and is left to TLC.

`Ordering_proofs` proves, for every number of orders, handlers, requests, failures
and crashes:

* `TypeCorrect`: `Safety => []TypeOK`.
* `OrderingInvariant`: `Safety => []OrderingInv`. That answers are true is not
  inductive by itself: the handler that answers relies on a save and a publish of
  earlier steps, which other handlers could have undone. `JobsAreBacked` says that
  they have not: past its save, a cancel handler has a row behind it that carries
  the cancellation date or is deleted, and past its publish an event.
* `AnswersTrue`, and `DeletedStays` (`Safety => DeletedStaysDeleted`), the action property.

`OrderingNotices_proofs` goes on from there:

* `NoticesInvariant`: `Safety => []NoticesInv`. That a payment is recorded once all is quiet
  is not inductive; `NoticesInv` says where its notification is at any time (in its queue, in
  a handler that has still to save, or set aside), and that a delivery tried `n` times met
  `n` failures or an order that is gone.
* `PaymentRecorded`, for any number of racing handlers.
* `IdsDecide`: `Safety => []NoticesNeedTheirId`, for every choice of `SameId`. The half about
  orders under their own id is part of `NoticesInv`. The other half needs `ForeignInv`: a
  handler that serves such an order's notification looks for an id that is nobody's and never
  gets past its load, so the row is written by requests alone (`ForeignRows`); and while no
  call fails, a notification leaves the queues and handlers for the error queue only
  (`ForeignStays`).
* `ImplementsTheRecord`: `Safety => ImplementsRecord`, each step of a handler mapped to a command
  on the table or a stutter. A publication or an answer of a cancel handler maps to one only
  because `JobsAreBacked` keeps the cancellation, or the deletion, behind the handler. A
  notification's save maps to one only because its job came from a message about an order that
  was told of: `NoticesInv` says so of every message and every job (`Addressed`, `Answers`).
  `RecordInv` adds that a row with status `NoRow` holds nothing and that no delivery is told.

`ShoppingClient_proofs` proves, for any products, numbers of submits, requests and
retries, and any bounds:

* `ClientInvariant`: `Safety => []ClientInv`. That one press of Submit orders once is not
  inductive: it rests on there being one request per submit that could still order, on that
  request never being sent again once the order exists, and on its carrying a basket read
  since. `CallsAreBacked` says so request by request; `NavigationIsBacked` and
  `OnlyRunningListens` do the same for what a page shows and who listens.
* `ClientTypeCorrect`, `BarIsRight`, `ViewIsCurrent`, `OneOrder`, `OrdersCurrent`, `ConfirmedOrdered`: the properties.
* `ImplementsThePromise`: `Safety => ImplementsCheckout`. Every step that changes basket, orders,
  presses or confirmations is one of Checkout's under `ClientInv`, wherever in the life of a
  request it happens (an order whose answer is lost is placed all the same); the rest stutter.

`Basket_proofs` proves, for any products, coupons, amounts, numbers of requests, changes and
failures:

* `BasketInvariant`: `Safety => []BasketInv`. The properties speak of finished requests; the
  invariant follows each from its read on. `JobIsExact` says what the basket it works on is
  worth at every await (the units it read, changed as the operation asks), `AloneIsUndisturbed`
  that an undisturbed request finds in Redis what it read and then what it stored,
  `SteadyIsCurrent` that the discounts asked for so far are current, and `ReadsAreCounted` that
  a stale read holds no more than was added. The proof gathers them as one fact about a
  request and the values of the variables (`Good`), reduces the handlers to six shapes of
  step, and shows each shape good for the request that takes it and for the others.
* `CountedOnce`, `LossesAreRaces`, `OffersReachTheBasket`, `FailuresHaveCauses`: the properties.

The constants carry the assumptions stated in `OrderEvents`, `OrderSaga`,
`Ordering`, `ClientRequests`, `ShoppingClient` and `Basket`: `Fresh` is no order, retries and bounds are natural numbers, and the
choices of publishers and ids come from their sets. TLC evaluates them on every run.

Only model-checked: the liveness properties (`QueuesDrain`, `PlacedIsDispatched`,
`WorkEnds`, `NavigationEnds`, `CallsEnd`, `RequestsEnd`, `DiscountReturns`), since fairness
and ENABLED are beyond the prover. Every safety property of a passing run has its theorem.

## 7. Where code and comments disagree

* **SagaLostRollback.** `OrderStateMachine.cs:87` says the "rollback will be handled
  inside BillOrderFaultConsumer". If its token exchange fails once in the attempt that
  moved the saga, every retry is rejected by the saga, and no rollback is published.
* **SagaDuplicates.** The outbox is there "to prevent duplicate events from being
  published" (Payment.API `ServiceCollectionExtensions.cs:69`). It does for retries
  (`DuplicatesTakeCrashes`), and does not for a crash before the acknowledgement.
* **OrderingBilled.** "Order is already billed and can't be canceled."
  (`Order.cs:92`) is checked on the copy the handler loaded: a cancel that read `PENDING`
  saves over the `ORDER_PAID` that another handler stored meanwhile.
* **OrderingIds.** The consumers swap order id and correlation id
  (`NotifyOrderPaidConsumer.cs:36` and its siblings), against the commands' constructors
  and tests, so notifications end in the error queue.

Observed while modelling, and part of the models, but stated otherwise only by a test that mocks
the other side, or by nothing that can be quoted:

* `BasketServiceTests.cs:77` expects an item without a coupon to keep its discount; its mock
  answers null. `DiscountRepository.GetDiscount` answers an amount of 0 instead, so the
  discount is reset (`Offered`).
* The retry policy for gRPC calls throws at the first failure (`DiscountFails`), so the reads of
  a basket fail while Discount starts.
* A `BillOrder` given up on the saga queue publishes the same fault as one given up by Payment.
  If its commits failed, the saga, still in `OrderPlaced` or already canceled, rejects the
  fault (`FaultsAreHarmless`): the order goes on and is billed, its record stays behind, and
  only the error queue tells. If a commit was applied and its answer lost, the copy is given up
  although it moved the saga to `OrderSentForBilling`, and there the fault is accepted
  (`OrderStateMachine.cs:87`): the order is recorded and told to Ordering as failed to be billed
  while Payment bills it, without a crash. `FailedMeansUnbilled`, `OrderingIsToldInOrder` and
  `ImplementsNews` therefore except the orders in `unsure`, and only those.
* `UpdateBasket` empties the basket, whatever items it is sent (`Begin`).
* After the discovery document failed to load, a login waits for ever (`initCodeFlow`).
* Within one visit, answers to two deletions may arrive out of order, and the basket shown
  goes back to the older (`ItemDeleted`); `ViewIsOfThisVisit` promises no more than the code.

## 8. What is not modelled

* The Azure Service Bus configuration (separate subscriptions per consumer and a
  session-based saga repository).
* `OrderDelivered` and `OrderNotDelivered`: nothing calls their publishers. Their
  consumer and transitions are in the tables but no message enters.
* Token contents and expiry: a message's token validates or does not, and the
  identity server may fail. The exchange cache is inside "the exchange succeeds".
* `MassTransit`, `EF Core` and `RabbitMQ` are modelled from how the code configures them.
* The saga's optimistic concurrency: a conflicting save is one of the failures that store
  nothing (`"failed"` of `Commits`). Commits of the saga whose answer is lost are modelled.
* The moment between the cancellation check and its `SaveChanges` is one step with the
  save; the await before it is not.
* Prices: item prices and totals in Basket, Razor and Ordering are copied or multiplied, and
  decide nothing. The price that `UpdatePrice` computes is the one its test expects.
* The HTTP policies (`Shopping.Policies`) and the aggregator that uses them: fallback,
  retry, breaker and cache are objects of Polly, and what they do is decided there.
* In the Angular client: the contents of the catalog and of orders, the correlation header,
  the lazy loading of the orders page, and the settings service, whose call is commented out.
* Shopping.Razor: one request at a time over the same gateway; it appears as `OtherClient`.
* Catalog, gateway, identity server, mail function and infrastructure: no state or no logic of
  their own to relate.

## 9. Plan

Done: `OrderEvents`, `OrderStateMachine`, `OrderSaga`, `OrderLifecycle`, `OrderNews`,
`Ordering`, `OrderRecord`, `ClientRequests`, `ShoppingClient`, `Checkout`, `Basket`, each
with its invariants and theorems.

What remains, in order of worth:

1. For Basket, an abstract specification of what one user's basket promises and a proof
   that the calls to Redis and Discount implement it; for Ordering, Basket and the client, a
   measure that falls with every step, as `WorkIsUsedUp` does for the saga.
2. The Azure variant of the orchestrator as a second set of subscribers, and the token
   exchange cache with times.
3. The HTTP policies, once what Polly does is written down as an external module.

A composition of OrderSaga and Ordering over one bag of messages was considered and left out.
As the code stands, a saga started by `ExecuteOrderTransaction` carries no token and stops at
its first consumer, and one started by `PlaceOrder` runs under the correlation id of the
request and never under the id the server gives the order, so every notification of the
composed system ends in the error queue, which `OrderingIds` shows on Ordering alone and
`IdsDecide` proves. The
two are composed by assumption and guarantee instead: OrderSaga is proved to implement
OrderNews, and what Ordering is told is bounded by OrderNews and nothing else.
