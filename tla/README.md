# A TLA+ model of eShopOnContainers' ordering process

eShopOnContainers is a shop built from micro-services that share no database and talk through an
event bus. What is hard to get right in it is the *ordering process*: an order moves from checkout
to shipment through messages between five services, any of which may repeat, delay or lose its part.
Around it run three smaller ones: price changes on their way from the catalog into the users'
baskets; the browser tab in which a basket is filled and ordered; and the news of an order on its way
to the buyer's screen and to other companies' servers. This directory holds TLA+ modules of these four
processes, the TLC configurations that check them, and proofs that TLAPS checks.

Paths below are relative to `src/src/`; `Ordering/` stands for `Services/Ordering/`.

## 1. Inventory

### Components

| Component | State | Operations | Hard behaviour | What makes it correct |
|---|---|---|---|---|
| Ordering.Domain, `Order` | status, buyer id, items, pending domain events | the constructor, six `Set...Status` methods | each method tests the *in-memory* status | an order goes through its stages in order and is not cancelled once paid |
| Ordering.Domain, `Buyer` | buyers and payment methods | `VerifyOrAddPaymentMethod` | two first orders of one buyer; an expired card throws late | one buyer per user, every order gets its buyer |
| Ordering.Infrastructure | SQL Server database, `DbContext` with its change tracker, `ClientRequest` table | load, save, begin/commit/roll back, remember a request id | ReadCommitted without concurrency tokens; retried transactions on a used `DbContext` | no update is lost; a request id is handled once |
| Ordering.API | its RabbitMQ queue, the outbox (`IntegrationEventLog`) | eight commands, the MediatR pipeline, the domain event handlers | calls race with the consumer; swallowed exceptions; a crash between COMMIT and publication | one order per checkout; a status and its event commit together; each entry is published once |
| Ordering.BackgroundTasks | none (a timer) | read the submitted orders, publish one message each | stale reads, repeated messages | only orders whose grace period is over move on |
| EventBus, RabbitMQ | queues, unacknowledged messages | publish, deliver, acknowledge | redelivery after a crash; acknowledgement after a *failed* handler | a message that was published reaches each subscriber |
| EventBus, Azure Service Bus | the same | the same | ten handlers at once | the same |
| IntegrationEventLogEF | entries with a state | save, mark in progress / published / failed | nobody retries what another left | the log agrees with the bus |
| Catalog.API | products with price and stock, its own log | validate stock, remove stock, update / delete a product | stock is checked and taken at different times; whole-row updates | stock leaves for paid orders only |
| Payment.API | none | take a payment | keeps no record of it | who is charged has a paid order, once |
| Basket.API | baskets in Redis, its queue | update, checkout, delete when an order started, change prices | read-modify-write without a version; a loop over all users that a crash or an error interrupts | a basket shows the catalog's prices, and only price changes that took place |
| Shopping aggregators | none | read and rewrite a basket over gRPC | price and basket are read at different times; the interceptor hides failures | a line is written with a price that still holds |
| Webhooks.API | subscriptions, its queue | subscribe, unsubscribe, pass an event on to everyone subscribed | one receiver that cannot be reached fails the handler; messages sent twice or dropped around a restart | nobody who was subscribed is left out because of somebody else, or of a restart during the calls |
| Ordering.SignalrHub | its queue, the buyers' connections | forward six events to the buyer's browser | a message that finds no connection is gone; it consumes before any browser is back | the order page learns of every change it was not cut off from |
| WebSPA | per tab: basket objects shared between components, requests under way | add, change, delete, check out, place the order; list and cancel orders | callbacks that run on another page, answers that overtake each other, double clicks, lost requests, an OrderStarted that comes late | what is listed is ordered, once; tab and server hold the same basket |
| Identity.API, WebMVC, WebStatus, WebhookClient, Envoy, deployment | none of the shop's own | | | |

### How they interact

    user -- checkout --> Basket.API --UserCheckoutAccepted--> Ordering.API
                                                               |  Submitted
    BackgroundTasks --(reads Ordering's table)--GracePeriodConfirmed--> |
                                                               |  AwaitingValidation --> Catalog.API
    Catalog.API --OrderStockConfirmed / OrderStockRejected-----> |
                                                               |  StockConfirmed ------> Payment.API
    Payment.API --OrderPaymentSucceeded / OrderPaymentFailed---> |
                                                               |  Paid ----------------> Catalog.API
    user, back office --HTTP cancel / ship--------------------> |  Cancelled, Shipped

    back office --HTTP update, delete--> Catalog.API --ProductPriceChanged--> Basket.API
                                             Ordering.API --OrderStarted----> Basket.API
    user --> aggregator --(gRPC: reads prices from Catalog.API, reads and writes baskets)
    user's tab (WebSPA) --HTTP: reads and writes the basket, checks out--> Basket.API

    Ordering.API --every status event--> SignalrHub --push--> user's tab --HTTP: asks for the orders-->
    Ordering.API --Paid, Shipped--> Webhooks.API --HTTP--> receivers

Everything that changes an order is a command of Ordering.API; each status it assigns raises a
domain event, whose handler writes an entry into the outbox in the same transaction; after COMMIT the
entries are published. The hard part is that two kinds of workers execute the commands concurrently
(the queue's consumer and HTTP requests), that every transport step can happen twice, and that the
three mechanisms meant to cope with this (the status tests in `Order`, the request ids, the outbox)
each have gaps that depend on the interleaving. `PROJECT.json` lists them as hazards, line by line.

## 2. The modules

| Module | Models | State |
|---|---|---|
| `OrderAggregate` | `Order.cs`: what each `Set...Status` method does | none: operators from a status to an outcome (new status, domain event, thrown or not) |
| `Ordering` | Ordering.API with its database, outbox, queue and workers | tables `status`, `hasBuyer`, `origin`, `requests`, `outbox`; `queue` in, `out`; per worker `pc`, `job`, tracked order `seen`, tracked request `mine`, outbox range `next..last`, `answer`; since the start, `subscribed` |
| `OrderLifecycle` | what the process promises about an order (abstract) | `state`, `announced` |
| `GracePeriod`, `Catalog`, `Payment` | the other services, each one open: its messages are arguments | `expired`, `due`; `stock`, `catalogPc`, `reply`, `listening`; `paymentPc`, `charged` |
| `EShop` | the composition, with the users | the above, plus each service's acknowledged position in `out` |
| `Products` | Catalog.API's product table as its editors see it | `price`, per call `edit`, the committed price changes `log` |
| `Baskets` | Basket.API and the aggregator's calls to it | `baskets`; per call `call`; the consumer's `basketPc`, `unvisited`, `copy`, `attached` |
| `Shopping` | the composition of these two | the above, Basket.API's `queue`, the checkouts under way in `ordering` |
| `WebSpa` | one browser tab with Basket.API's HTTP interface and Ordering's OrderStarted | the tab: `heap`, `local`, `shown`, `wrapped`, `page`, `summary`, `processing`, `badge`, `requests`; the services: `stored`, `accepted` |
| `OrderNews` | Ordering.SignalrHub and the order page in a browser | `hubQueue`, `hubTypes`, `sent`; `connection`, `pushes`; `open`, `listed`, `gets`; what went wrong, `upsets` |
| `Webhooks` | Webhooks.API | `subscriptions`, `hooks`, `hookTypes`, `sending`; for the properties, whom it still owes a call, `owed`, and what it acknowledged unsent, `dropped` |
| `Notifications` | `OrderLifecycle` (as all that is known of Ordering) with these two | the above, `state`, `announced`, `published`, the cancellations under way in `cancels` |
| `OrderingProofs`, `OrderingLogProofs`, `LifecycleProofs`, `EShopProofs`, `ShoppingProofs`, `NotificationsProofs`, `WebSpaProofs` | theorems | |
| `InductionLemmas` | induction and recursion over numbers, sums over finite sets, for the proofs | |
| `MCOrdering`, `MCEShop`, `MCShopping`, `MCWebSpa`, `MCNotifications` | instances for TLC | |

### Ordering: one action per step of a command

A command runs through `LoggingBehavior`, `ValidatorBehavior` and `TransactionBehaviour`
(`Ordering/Ordering.API/Application/Behaviors`). Its steps, with the stage `pc` names:

| Stage | Actions | Code |
|---|---|---|
| start | `Subscribe`, `Discard` | `Startup.ConfigureEventBus`, `EventBusRabbitMQ.Subscribe`, the else branch of `ProcessEvent` |
| idle | `Receive`, `CallApi` | `EventBusRabbitMQ.ProcessEvent` and the integration event handlers; `OrdersController` |
| check | `NewRequest`, `DuplicateRequest` | `IdentifiedCommandHandler.Handle`, `RequestManager.ExistAsync` |
| insert | `CreateRequest`, `RejectRequest` | `RequestManager.CreateRequestForCommandAsync` |
| read | `LoadOrder` | `OrderRepository.GetAsync` |
| commit | `ChangeStatus`, `OrderNotFound`, `SwallowException`, `RethrowException`, `CreateOrder`, `CreateOrderWithoutBuyer`, `CreateNoOrder` | the command handler, the aggregate's method, the domain event handlers, `SaveEntitiesAsync`, `CommitTransactionAsync` |
| publish, send, mark | `MarkEventAsInProgress`, `Publish`, `MarkEventAsPublished` | `PublishEventsThroughEventBusAsync` |
| reply | `Acknowledge`, `Respond` | `Consumer_Received`; the controller's answer |
| commit | `ChangeStops`, `CreationStops` | a statement of an identified command that fails, swallowed by `IdentifiedCommandHandler` |
| any | `RetryAfterTransientError`, `CommitFails`, `MarkEventAsFailed`, `RetryAfterCommit`, `AbandonPublishing`, `Crash` | the failure paths of the above |

Decisions that the rest depends on:

- **Writing and COMMIT are one step.** From the first row a transaction writes until its COMMIT it
  holds that row's exclusive lock; another transaction that wants the row waits. The *read* is a step
  of its own: under ReadCommitted (`OrderingContext.BeginTransactionAsync`) its lock is released at
  once, and no entity has a concurrency token. That gap is where the interesting races are.
- **A request id is a lock.** The uncommitted insert into `ClientRequest` blocks every reader and
  inserter of the same key until the transaction ends (`HoldsKey`, `KeyIsFree`).
- **The change tracker is modelled.** `GetAsync` returns the instance the `DbContext` already tracks,
  without refreshing it; EF Core writes the status column only if the instance differs from what it
  believes is stored; after a SaveChanges it believes its values are stored even if COMMIT then fails.
- **One consumer, first in first out.** Each `Subscribe` registers one more consumer, but all on one
  channel, whose dispatcher runs one callback at a time, and
  `Consumer_Received` acknowledges a message whether or not its handler threw.
- **A service subscribes while it consumes.** The first `Subscribe` of a start begins to consume the
  durable queue. A message that waited there and whose type has no handler yet is logged and
  acknowledged: it is gone (`Discard`; `CatalogDiscards` in Catalog. Payment has a single
  subscription, added before it consumes). HTTP calls come only after `Configure` has returned. The
  model starts with the services up, so that the window opens after each crash. No service unsubscribes.
- **Two retries.** `EnableRetryOnFailure` runs `TransactionBehaviour`'s delegate again, on the same
  scope, when COMMIT fails with a transient error, and also when an update of the log fails after
  COMMIT, since publishing is inside the delegate. A transient error in the middle of a command that
  is not identified is not retried successfully (the context still holds the disposed transaction) and
  ends like `CommitFails`.
- **A statement that fails inside an identified command** (a timeout) is swallowed like any other
  exception, and the outer transaction commits what the `DbContext` and the log hold by then. Which
  statement it was decides what that is: nothing but the request id; OrderStarted without an order; an
  order without its buyer or without its Submitted event; a new status without its event
  (`ChangeStops`, `CreationStops`; fault kind "statement"). One case is left out: if it is the insert of
  the Submitted entry that fails, the log's own context saves that entry with a later command, and
  nobody publishes it.
- **`RequestId`** is the id of the user's checkout or HTTP call. A checkout without one is logged and
  dropped by the handler, and a call without one is refused; neither changes state, so the model has
  none.
- A checkout's content is one of four **kinds**, because that is all the code distinguishes: valid;
  refused by the validator; with an item whose constructor throws; with a card that expires before the
  `PaymentMethod` constructor checks it. An item without units does reach Ordering: neither the gRPC
  `UpdateBasket` nor the aggregator's quantity update checks the quantity.

The module is *open*: `Deliver` lets the bus bring any message at any time. What is proved of it holds
whatever the other services do. `EShop` replaces `Deliver` by the services that send these messages.

### EShop: the composition

RabbitMQ's direct exchange copies a message into the queue of each subscriber, in order. So the queue
of Catalog or Payment is the part of `out` with its types beyond the position it has acknowledged
(`Waiting`, `handled`). `checkouts` counts how often a user sent each checkout. Ordering's own steps
are taken from `Ordering` unchanged (`OrderingStep`), and everything the services send enters through
`Deliver`.

- GracePeriod reads the rows (`CheckConfirmedGracePeriodOrders`) and publishes afterwards, one message
  per step, so the rows may have changed; it reads an order again until Ordering has handled it.
- Catalog handles the two events it subscribes to. Validation commits the reply to its own log before
  it publishes it; a crash in between loses nothing because the message comes again. `RemoveStock`
  takes what is there and throws for a sold-out product, in which case nothing is saved.
- A product may be deleted at any time (`ProductIsDeleted`). Validation then throws for an order of it,
  the message is acknowledged, and Ordering never gets an answer; so does the removal of its stock,
  which leaves the stock of the order's other products as it was.
- Payment charges and publishes in one step; the setting `PaymentSucceeded` may change at any time.

### Shopping: prices and baskets

- `UpdateProductAsync` is three steps: `ReadProduct` (the row, untracked; whether the price changes is
  decided here), `SavePriceChange` or `SaveProduct` (the whole row, with the event in the same
  transaction), `PublishPriceChanged`. `log` keeps what was committed, in order; it is what the
  properties compare baskets with. The states of Catalog's log entries are not kept, since nothing
  reads them again.
- A basket is a function from products to lines, a line its `UnitPrice` and `OldUnitPrice`. Quantities,
  names and pictures decide nothing that is stated here. Two lines of one product, which only a direct
  `POST` to Basket.API can store, are left out with that call.
- An aggregator call is a step for each of its reads and one for its write. `AddBasketItemAsync` asks
  Catalog first, `UpdateAllBasketAsync` Basket first. `GrpcExceptionInterceptor` answers `default` for
  every failure, so any question for a basket may be answered "none" (`Answers`) and any write may
  silently not happen (`UpdateBasketFails`). A call that ends in an error writes nothing: the model lets
  it stay where it is.
- The handler of ProductPriceChanged reads the keys (`GetUsers`), then reads and writes one basket
  after the other, with a step in between; it writes also those it does not change. Redis hands out
  keys in pages of 250; the model has one page.
- `HandlerFails`: Redis does not answer, the handler throws, the message is acknowledged.
  `PublishingFails`: the broker does not answer or Catalog.API dies; nothing publishes the entry later.
- Prices cross gRPC as doubles. Conversion from decimal and back gives the same price up to fifteen
  digits, so the model passes them on unchanged.
- Ordering is reduced to what Basket.API sees of it: some time after a checkout it sends OrderStarted.

### WebSpa: a basket in a browser

- The tab's components share **basket objects** by reference. `BasketService.setBasket` makes the page's
  object the service's own, `checkOut` hands it to the wrapper service, and the order page reads it from
  there; whoever changes it changes it for the others. `heap` holds the objects, `local`, `shown` and
  `wrapped` say who holds which. A line is reduced to its product.
- A **request** carries the callback that waits for its answer (`then`) and whether the component that
  sent it is still displayed (`live`): Angular destroys a component when the route changes, its
  subscriptions go on. Requests and answers may overtake each other.
- The user's steps are the page's event handlers, the callbacks are actions of their own. `CheckOut`
  sends two POSTs because `update()` subscribes to the observable it returns and `checkOut` subscribes
  again. `OrderStarts` is Ordering's message, which deletes the stored basket some time after the checkout.
- `mishaps` records what upset the pages: a product added before the basket was loaded (*early*), a click
  on Checkout before the basket is there (*blank*) or while it is under way (*again*), a request or
  answer that was *overtaken* or *lost*, an OrderStarted that empties a basket filled again (*late*),
  and the order page opened from the browser's *history*. The specification has them all; each property
  names those it excludes.

Why the exclusions are there is what TLC shows when one is removed: a second click on Checkout posts the
ordered basket again after it was emptied, and the user who places the order he is shown orders
everything twice; a user whose answer was lost submits again, and since every submission carries a fresh
`x-requestid` Ordering sees a new order; `loadData` replaces lines that were added before it came; a late
OrderStarted deletes what the user has put into the basket since. No comment, document or test of the
repository promises otherwise, so these are hazards and not findings. What holds is listed in section 3.

### Notifications: what others hear of an order

- Ordering appears as `OrderLifecycle`, the abstract specification that `lifecycle` shows the process to
  implement, with cancelling calls added (`CancelOrderAsync`). What it `announced` is published later, in
  any order, because each transaction publishes its own entries, or never (`LosesAnnouncement`).
- The hub's six handlers differ in the event only. Sending to a buyer without a connection loses the
  message without an error. A restart of the hub drops the messages on their way, closes the connection,
  and consumes the durable queue before any browser is back.
- The order page asks for its orders when it is opened and whenever a message arrives. It does not ask
  again after it reconnects. Two answers may overtake each other.
- Webhooks.API reads the receivers, starts all calls, and acknowledges when the last has ended, whether or
  not some failed (`Task.WhenAll`). It also acknowledges what it does not send to anybody: a message whose
  type has no handler yet after a restart (`DiscardHook`), and one for which the subscribers cannot be read,
  since the bus swallows the exception (`HookFails`).
- Two variables are kept for the properties. `owed` has who was subscribed when the message was published, and
  has since been neither called nor unsubscribed; such a debt stays when the message is lost. `dropped` has
  the messages acknowledged unsent.
- Hub and Webhooks.API do not know of each other; they are in one module because they have the same source.

### Careless definitions

Beside some definitions stands one named `Careless...`: the same with a slip a maintainer could make.
No specification uses them. `PROJECT.json` pairs each with the property that fails when it replaces
the original, so that a reader sees that the property depends on that line of code.

## 3. What the runs check

| Run | Question | Properties |
|---|---|---|
| `ordering_open` | Is the log a truthful history of the order when messages come in any order, any number of times, beside a call that cancels or ships, with one fault? | `TypeOK`, `EachStageOnce`, `NoStageSkipped`, `StatusHasItsEvent`, `OutboxMatchesBus` |
| `ordering_checkouts` | Do checkouts of every kind, redelivered, retried, interrupted by a failing statement, and with request ids that calls reuse, create one order each at most? | `OneOrderPerCheckout`, `EachStageOnce` |
| `eshop_live` | Does the whole process get every order paid or cancelled, and publish every event, when a checkout is repeated, the user cancels, the product is deleted, or another order wants the last unit? | `EShopTypeOK`, `StockLeavesForPaidOrders`, `EventsArePublished`, `OrdersSettle`, `ChargedOrdersArePaid` |
| `eshop_faults` | Do charges and stock follow the order through two crashes or failed commits of Ordering, one restart elsewhere and a repeated checkout? Is a customer charged again only after a restart of Payment.API, and stock taken again only after one of Catalog.API? | `NothingBeforeItsCause`, `ChargedOncePerRestart`, `StockLeavesForPaidOrders` |
| `lifecycle` | Does the process implement `OrderLifecycle` through a crash of Ordering, refused payments, and two concurrent shipping calls with the same request id? | `ImplementsLifecycle` |
| `shopping` | Does a basket ever show a price change that did not take place? Do all baskets get the catalog's price, also when Basket.API restarts in the middle of its loop? | `ShoppingTypeOK`, `ShownChangesWereAnnounced`, `PricesCatchUp`, `PricesArrive` |
| `web_spa` | Is what the user was shown what is ordered, once, and do tab and server hold the same basket when all is quiet? | `SpaTypeOK`, `OrdersAreAsListed`, `NothingIsOrderedTwice`, `TabAgreesWithServer` |
| `notifications` | Does the order page learn of every change through restarts and lost connections? Is every receiver called about every event that Webhooks.API does not acknowledge unsent, when it restarts and other receivers cannot be reached? | `NotificationsTypeOK`, `PageCatchesUp`, `NobodyIsForgotten`, `NewsReachesThePage`, `EverybodyIsCalled` |

Four runs end in a counterexample; they are the findings.

- **`lost_update`** (`PaidIsNotCancelled`). A cancel call loads the order while it is StockConfirmed.
  The consumer then commits Paid. The call, still holding the old instance, passes the test of
  `SetCancelledStatus` and commits Cancelled. The customer was charged, Paid and Cancelled are both
  published, Catalog takes the stock.
- **`started_event`** (`StartedOrdersExist`). `CreateOrderCommandHandler` saves OrderStarted first.
  An item that makes a later constructor throw ends the inner command; `IdentifiedCommandHandler`
  swallows the exception; the outer transaction commits OrderStarted and the request id. The basket is
  deleted, there is no order, and a retry is answered with success.
- **`retried_commit`** (`EventsCommitWithTheirStatus`). COMMIT of a refused payment fails with a
  transient error. The delegate runs again on the same `DbContext`: the tracked order says Cancelled
  already, cancelling a cancelled order is allowed and raises the event again, but EF Core sees no
  changed column. The event is committed and published; the row stays StockConfirmed for ever.
- **`silent_update`** (`UnchangedPriceIsKept`). Two updates read a product at the price low. The first
  is sent the price high, commits it and logs the event. The second is sent low, so it took the price
  for unchanged: it writes its whole row, price included, and no event. Catalog is back at low; the
  baskets go to high and stay there.

### Bounds, and why they suffice

The ordering process:

- **Orders**: one, except where orders compete (`ordering_checkouts`, and `eshop_live` for the last
  unit). Commands about different orders share only the consumer, the request ids and the stock.
- **Calls**: one, two in `lifecycle` and `ordering_checkouts`. Each lost update needs two workers, and
  the consumer is one. Where calls are interchangeable the run uses their symmetry.
- **Request ids**: in `ordering_checkouts` the two calls carry ids of checkouts, the worst sharing there
  is. In `lifecycle` they carry the same one.
- **`MaxQueue`**, **`MaxOutbox`** (`MCOrdering`): one waiting message suffices when any message may
  come at any time. Deliveries stop once the outbox holds `MaxOutbox` entries: five are an order's life
  up to Paid (OrderStarted, Submitted, AwaitingValidation, StockConfirmed, Paid), and what is under way
  then, or what a call does, may still add to it. Three in `ordering_checkouts`, which is about creation.
- **`FaultKinds`**: `ordering_checkouts` has all five. `ordering_open` has all but "statement", because
  `StatusHasItsEvent` and `NoStageSkipped` do not hold with it: a swallowed statement error commits a
  status without its event, which the hazards list. The runs of the composition have crashes and
  failed commits, since the other kinds concern a publication that fails, which only leaves the other
  services without a message.
- **`MaxQueue`** in `EShop` bounds only the timer and the users; a reply or a payment result is always
  delivered. Without it the timer could fill the queue for ever. Two lets a stale timer message wait
  behind a fresh one.
- **`MaxCheckouts`** 2: a user repeats a checkout once. **`MaxFaults`** is 1 or 2: a fault may strike at
  every step, and two of them cover a crash during the recovery from another fault. **`MaxRestarts`** bounds
  the restarts of the other services together; each service counts its own, so that in `eshop_faults` a
  restart of the timer or of Catalog.API excuses no second charge. With three units there the one order, its
  unit and that unit taken again leave one that a wrong step could take. `lifecycle` restarts Ordering only; `ordering_open` has the repeated messages that
  restarts of the other services bring.
- **`OneAtATime`** (`MCEShop`, for `eshop_live`): of a repeated checkout, a cancelling call, the deletion
  of the product and a second order, each behaviour has one at most. It leaves out steps of users and
  editors only, to which no fairness applies, so it hides no obligation. It does leave out, say, a
  cancellation while a product is deleted.
- There are at least as many order ids as checkouts that can create an order, so an insert never waits
  for an id.

Prices and baskets:

- **`MaxChanges`** 3 (2 in `silent_update`): a price changes while the message about an earlier change is
  under way, back to an earlier price included; three prices let a line be two changes behind. The bound
  is on starting an update, so two editors may exceed it by one.
- Two users make the consumer's loop stop between baskets; two calls race with each other and with it.
  One product: the handler treats each line on its own. The run starts from every possible basket.
- **`SmallWhenDisturbed`** (`MCShopping`): as long as nothing but the editor and restarts interferes, all of
  this is explored: two users, three changes, two restarts. Once a call, a failure or a deletion
  occurs, one user, two changes and one restart remain, and three such events in all.

The browser tab:

- Two products and four basket objects (the page's, the service's, one handed on, one just answered);
  three requests under way, two orders, one reload of the tab. One mishap of any
  kind happens at most (**`MaxMishaps`**), at every step where it can. For the kinds a property exempts
  that is enough; of those it must survive, the run does not combine two. Each product is added once, so a second order of it is already one too
  many. The products are interchangeable (`ProductSymmetry`).

The news of an order:

- One order with two announced changes, so that news of the first may come after news of the second;
  three requests for the list, of which two may overtake each other; two receivers, of which one fails;
  one restart of each process. Messages may be dropped at any time (`HookFails`), which both webhook
  properties exempt; the one restart strikes while a message waits, is being sent or has been sent. The hub and Webhooks.API do not interact, so a behaviour has either a
  page or receivers (`MCInit`), at their full bounds.

The runs say `CHECK_DEADLOCK FALSE` because a finished process rests: all queues empty, all orders
settled, nobody obliged to check out again.

### Fairness

`eshop_live` (`LiveSpec`) takes `OrderingFairness` and `ServiceFairness` of `EShop`: weak fairness of every
step of the consumer and of each started call, of every handler of the other services, of the timer and
of time passing. The code justifies it: the consumer calls back for each waiting message, a request's
task runs to its end, `GracePeriodManagerService` loops until it is stopped, and locks are released when
their transaction ends. Weak fairness is enough since nothing disables a step for ever but its own
completion. Users are not obliged to do anything, and the run has no faults: with a crash
between COMMIT and publication, or a handler that threw, an order *does* stay where it is (see the
hazards), which is what the code does.

- `OrdersSettle` leaves out orders without a buyer, which exist when the card expires between validation
  and the domain event handler: every later event handler throws for them. It also leaves out an order
  whose product is deleted before it is validated (`WaitsForDeleted`): Catalog never answers. A product
  deleted later stops no order.
- `ChargedOrdersArePaid` leaves out an order somebody cancels (`CancelIsCalled`): a cancellation that
  overtakes the payment result leaves the customer charged, and nothing in the code refunds.

`shopping` assumes the same of Catalog's updates once begun, of Basket.API's consumer and of its start
(`ShoppingFairness`). `PricesArrive` and `PricesCatchUp` speak of behaviours in which no user calls and no
publication fails (`Disturbed`), with one editor: otherwise they do not hold, as `silent_update` and the
hazards show. (A line added by a call that asked for the price before it changed, and written after the
handler was through, keeps the old price.) What the run does show is that redelivery is harmless: a
message handled a second time finds the lines it has changed at another price and leaves them alone,
unless a change back is still to come, in which case that one repairs them.

`notifications` assumes that Ordering publishes what it announced or loses it, that the two processes run,
and that the network answers or fails (`Fairness`). Nothing forces an order to move, a user to act or
a connection to come up. `NewsReachesThePage` then says: a page that stays open and misses no news ends up
with the orders as they are. What it may miss is in `upsets`: an announcement Ordering lost, a
message that found no connection, a request that failed, an answer that was overtaken.
`EverybodyIsCalled` says that every debt is settled in the end, by a call or by unsubscribing, unless its message
was dropped: the bus hands every waiting message to a process that consumes, a restarted process subscribes
again and so begins to consume, and an HTTP call ends, with an answer or not.

## 4. What is proved

The theorems hold for every value of the constants: any number of orders, requests, calls, kinds of
checkout, products, users and faults, and unbounded queues and logs. They rest on the assumptions that
`Ordering`, `EShop`, `Shopping`, `WebSpa`, `Webhooks` and `Notifications` state of their constants (each has
its type, the tab's catalog is finite, and the markers such as `NoRequest`, `Absent` or `NoBasket` are none
of the values they stand beside). TLC evaluates these in the runs.

**`OrderingProofs`**

- `TypeCorrect`: `Spec => []TypeOK`. `TypeOK` is not inductive: an entry is marked at index `next[w]`,
  which must lie in the log, and an acknowledgement takes the tail of the queue. `TypeInv` adds which
  jobs reach which stage (`JobsOK`), that a publisher stays within the log (`PublishersOK`) and that the
  message being handled is still in the queue (`QueueOK`).
- `OneOrderPerCheckoutCorrect`: `Spec => []OneOrderPerCheckout`. The inductive invariant `UniqueInv` has
  four parts: `TypeInv`; `KeyInv`: a worker past its insert holds the key of its request id, that id is
  not in the table, and nobody else holds it; `SeenOK`: what a `DbContext` tracks is an existing row, so
  that writing a status never brings a row into being; and the property itself. The argument is the one a
  reader would give for a lock: the worker that creates an order for a checkout holds the key of its
  request id, so the id is not recorded, so by the property no order has that origin yet; and the commit
  that inserts the order records the id. A retried transaction does not break it, since its `DbContext`
  still tracks the request and takes the command for a duplicate.

**`OrderingLogProofs`**. Its first lemmas say what a step can do to the log: COMMIT adds entries, a
publisher changes the state of the one it works on, every other step leaves the log alone. Each part of
the invariants is then proved once for each of these kinds instead of once for each action.

- `OutboxMatchesBusCorrect`: what is marked Published was published, what was never tried was not, and no
  entry goes out twice. The inductive `LogInv` divides the log among its publishers: two workers never
  publish the same range, what lies ahead of a publisher is untouched, and the entry it is at has the
  state its stage says (`LeftOnce`, `LeftIsUntouched`, `CurrentEntry`, `BusHasEntries`).
- `EachStageOnceCorrect`: the events that make another service act are logged at most once per order. Why
  this holds although updates may be lost is the interesting part. `StageInv` says that only the consumer
  advances an order (`CallsAreHttp`), that what it sees is never behind what was announced
  (`ConsumerIsCurrent`: a concurrent call can only cancel or ship), and that an announced stage is never
  unsaid (`AnnouncedIsPassed`), with `StartsAreRecorded` for creation.
- `NoStageSkippedCorrect` and `StatusHasItsEventCorrect` assume that no statement fails, since they are
  false otherwise. `EventInv` adds that what a `DbContext` has seen was announced (`SeenIsAnnounced`),
  whatever another transaction has written over it since.

**`LifecycleProofs`**

- `ImplementsLifecycleCorrect`: `Spec => ImplementsLifecycle`, if `Undisturbed` holds. The mapping reads the
  announced stages of an order off the log: `History` filters the log recursively, so the first
  lemmas say what one more entry does to it. An action other than a COMMIT is a stutter; a COMMIT must
  find the row in the very stage its command's test assumed. It does since (`LifeParts`) the consumer's
  view of an order is the row's, but for a shipment in between (`ConsumerAgrees`), and a call
  that is about to ship sees a row that is still paid (`ShipmentIsDue`): two calls that ship one order share
  a request id, of which only one at a time holds the key.
- `Undisturbed` is a condition on the constants, with one clause for each thing in the code that breaks the
  lifecycle: no repeated COMMIT (`retried_commit` shows the status that then differs from its
  event), no statement that fails in an identified command (`started_event`), no card that expires between
  validation and the domain event (the order then exists unannounced), no call that cancels
  (`lost_update`), and no two request ids for shipping one order (both calls would read Paid, and announce
  Shipped twice). Crashes, duplicates, repeated checkouts and retried publications are all allowed;
  the run `lifecycle` is an instance.

**`EShopProofs`**: `EShopImplementsOrdering`, `EShopSpec => Spec`: every step of the composition is a step of
Ordering, a delivery, or leaves Ordering's variables alone. So what is proved of Ordering holds in the
whole process; `EShopOneOrderPerCheckout`, `EShopEachStageOnce`, `EShopOutboxMatchesBus` and
`EShopImplementsLifecycle` follow. The
theorems across services use an inductive `ServiceInv`: the services' variables have their types; a
service that is not idle has a message at the head of its queue (`HeadsWait`); a message a service has
handled or waits for is a copy of a log entry (`BusCopies`); and every message in Ordering's queue, every
command under way and every row has its cause (`CauseInv`).

- `EShopTypeCorrect`: `EShopSpec => []EShopTypeOK`.
- `NothingBeforeItsCauseCorrect`: no service acts before the event that causes its step was logged. Causes
  are log entries, and these are never undone, so each step only has to establish the cause of what it
  adds.
- `ChargedOncePerRestartCorrect`: nobody is charged twice unless Payment.API restarts in between; the
  restarts of the other services do not count. It needs
  both halves: each event is logged once and sent once (`EachStageOnce`, `OutboxMatchesBus`), so
  Payment.API gets one StockConfirmed per order. `ChargeInv` counts: until that message is taken an order
  was charged at most once for each restart of Payment.API, after that once more.
- `StockLeavesForPaidOrdersCorrect`: `EShopSpec => []StockLeavesForPaidOrders`. The property bounds the missing
  stock by the units of all paid orders, once and once per restart of Catalog.API; it is not inductive, since
  nothing in it says which orders have had their units taken. `StockInv` splits the bound: restarts times the units of
  the paid orders, plus the units of those whose Paid event Catalog has taken and will not see again
  (`DeliveredOrders`). Taking stock adds an order to the latter, and only one event per order exists
  (`EachStageOnce`, `OutboxMatchesBus`); a restart may take all of them back, and adds one to the factor. The
  sums are over a finite set of orders, and TLA+'s fold over a set depends on a choice: the lemmas
  of `InductionLemmas` about `Total` show that it does not matter.

**`ShoppingProofs`**

- `ShoppingTypeCorrect`: `ShoppingSpec => []ShoppingTypeOK`. Two more parts make it inductive:
  `HandledIsQueued` (while the consumer works there is a message in the queue) and `ReadyIsQuoted` (a
  call that is about to write has a price, or a line that has one).
- `ShownChangesWereAnnouncedCorrect`: `ShoppingSpec => []ShownChangesWereAnnounced`. A wrong price could
  come from any copy of a line that is written back later, so `Provenance` says of all of them what the
  property says of the baskets in Redis: of the basket the consumer holds, of what each call holds, and
  of each message in the queue and each change not yet published that it is in the log. Every step
  copies lines, or replaces a price by a message's new price where the line shows that message's old
  one; and the log only grows.
- `PricesCatchUpCorrect`: `ShoppingSpec => []PricesCatchUp`, with one editor (`OneEditor`; two of them can
  write over each other, as `silent_update` shows). `QuietInv`: what the queued changes and the
  unpublished one make of a line's price, one after the other (`PriceAfter`), is the catalog's price. A
  message that is handled again is the difficult case: to the lines it has reached already it must do
  nothing more. `HandledIsDone` says so of every basket the loop is through with, so that the
  acknowledgement may drop the message; it holds since a message never announces a price
  that did not change (`OnlyRealChanges`), and since the basket the loop writes back is the one in Redis
  (`CopyIsBasket`), as long as no user calls. A restart forgets which baskets were done, which the
  invariant allows everywhere, because the second application changes nothing (`EffectIsOnce`).

**`NotificationsProofs`**

- `NotificationsTypeCorrect`: `Spec => []NotificationsTypeOK`.
- `ReceiversAreCalled`: `Spec => []NobodyIsForgotten`. Whoever was subscribed at the publication and has
  not unsubscribed is called before the message leaves the queue, except about the messages in `dropped`.
  `OwedInv`: whoever is owed a call is still subscribed, is among the receivers of the handler's calls if it
  has begun, and the message stays at the head until all its calls have ended or it is dropped. That a
  restarted process loses messages is a fact the theorem does not deny: it names them.
- `PageHearsOfChanges`: `Spec => []PageCatchesUp`. `PageInv`: only what was announced is published, the last
  announcement is the order's state unless it was cancelled, and what the page was answered last is
  current or news of the order is on its way (`Informed`).

**`WebSpaProofs`**: the requests under way are a sequence, and what the tab and the server will agree on
depends on the order in which they are served and answered. The invariants are stated of single requests
and of pairs of them, so that the lemmas about the sequence (an element removed, appended, relabelled or
answered) are proved once for all actions.

- `SpaTypeCorrect`: `SpaSpec => []SpaTypeOK`. `RequestsOK` makes it inductive: the requests of a displayed page
  are that page's, and at most one live checkout is under way.
- `OrdersAreAsListedCorrect`: `SpaSpec => []OrdersAreAsListed`. `Ends` says which basket the server will have
  once the first n POSTs under way are served in order. `Calm` compares it with everything the user may be
  shown: for the page, for a checkout's POST that still has to be answered and for the order page it is
  what they show, or a basket without lines (OrderStarted may have emptied it). So a
  checkout orders what was listed, or nothing.
- `TabAgreesWithServerCorrect`: `SpaSpec => []TabAgreesWithServer`. `Agree` speaks of the set of lines that the
  tab holds once it is loaded and that the server will hold; `BadgeOK` says that the last request under way
  that tells the badge will bring it there, and that without one the badge is right. Between the answer to a
  checkout and the tab's emptying of its basket (`Limbo`) nothing is claimed, because OrderStarted may come
  on either side.
- `NothingIsOrderedTwiceCorrect`: `SpaSpec => []NothingIsOrderedTwice`. A product may be ordered if it has been
  ordered less often than it was put into the basket (`Orderable`). `Once` says that the lines of the tab's basket
  objects, of the server's basket, of every POST under way and of every answer the tab waits for are such
  products, or that a POST sent later will empty the basket again (`Dropped`). So an order is made of such
  products. It may use them up, which is why nothing is claimed in `Limbo`; the empty basket that the tab
  posts at its end restores the claim. Meanwhile, by `Fit`, no other order is placed and no basket is loaded.
  Clicking Checkout twice breaks `Fit`: its second answer can open the order page while an order placed there
  is still under way.

## 5. What is only model-checked, and what is left out

Only checked:

- The liveness properties (`EventsArePublished`, `OrdersSettle`, `ChargedOrdersArePaid`, `PricesArrive`,
  `NewsReachesThePage`, `EverybodyIsCalled`): they depend on fairness, which the prover cannot use.

Induction over data is done on sets: the library's induction theorems take an operator as a parameter,
which the provers cannot instantiate, but that every set of numbers has a least one can be cited
(`NatSetInduction`), and what a recursive function computes is then proved about the set of the
arguments for which it is right.

Abstracted: names, addresses, card data and logging; prices in the ordering process; the buyer, down to
`hasBuyer`; the items, down to units per product; event ids (the position in the outbox); message names
(the type a subscription names). Publishing is one step for all subscribers, as RabbitMQ's exchange
routes it. Database ids are picked freely among unused ones.

### Not modelled

- **Azure Service Bus** (`EventBusServiceBus`). It would let ten messages of one service be handled at
  once. The races this adds to Ordering are those a call already has with the consumer; its retries and
  dead letters are in the client library, whose code is not here.
- **Buyers and payment methods** beyond `hasBuyer`. With RabbitMQ's single consumer no two checkouts are
  handled at once, so two first orders of one buyer race over Azure Service Bus only.
- **The stock column of `UpdateProductAsync`** and `AddStock`. The update writes back the stock its
  client was shown, so units taken in between reappear; `Catalog` models the stock as the ordering
  process changes it. It is listed as a hazard.
- **Subscription bookkeeping** of the bus at run time: no service unsubscribes.
- **Identity.API** (IdentityServer with its configuration), **WebMVC** (server-rendered pages over the
  aggregator, which keep no state of the shop's), **WebStatus**, **WebhookClient** (a demo receiver),
  **Envoy** and the deployment.
- **Third-party JavaScript**. Nearly all `.js` files of the repository are copies of libraries: jQuery,
  Bootstrap and the validation plug-ins under each `wwwroot/lib`, `oidc-token-manager.js`, and the bundled
  scripts. They decide nothing about orders, baskets or prices. The shop's own logic is C# and,
  in the WebSPA, TypeScript, and this is what the modules are mapped to; a measure that counts
  `.js` files only will show no coverage.

## 6. What could come next

1. The stock column in `Products`, shared with `Catalog`: no unit is sold twice unless a client wrote.
2. `Shopping` and `EShop` composed through UserCheckoutAccepted and OrderStarted: a basket is deleted
   only for a checkout of its user.
3. Ordering with several consumers, as over Azure Service Bus, together with the buyers: which properties
   survive. `ConsumerIsCurrent` is the invariant that would not.
4. Theorems about a second tab of the same user, whose requests interleave with the first one's: of the
   properties of `WebSpa`, which survive.
