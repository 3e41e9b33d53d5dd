------------------------------- MODULE EShop -------------------------------
(***************************************************************************)
(* The ordering process from the checkout to the shipped order: Ordering   *)
(* composed with the services that cause its messages.  RabbitMQ's direct  *)
(* exchange copies what Ordering publishes into the queue of every service *)
(* that subscribed to its type, so a service's queue is a view of "out":   *)
(* the entries of its types it has not acknowledged.  What the services    *)
(* publish goes to Ordering's queue through Deliver, which makes every     *)
(* behaviour of this module a behaviour of Ordering's Spec.                *)
(***************************************************************************)
EXTENDS Ordering, FiniteSetsExt

CONSTANTS
    Checkouts,         \* the request ids users check out with
    Products,
    InitialStock,
    Items,             \* the units of each product in each checkout
    PaymentSucceeded,
    MaxCheckouts,      \* how often a checkout is sent
    MaxQueue,          \* Ordering's queue is full for the timer and the users
    MaxRestarts,       \* how often services other than Ordering die, in all
    Discontinued       \* the products that may be deleted

ASSUME EShopAssumption ==
    /\ Checkouts \subseteq Requests
    /\ InitialStock \in [Products -> Nat]
    /\ Items \in [Checkouts -> [Products -> Nat]]
    /\ PaymentSucceeded \subseteq BOOLEAN
    /\ MaxCheckouts \in Nat
    /\ MaxQueue \in Nat
    /\ MaxRestarts \in Nat
    /\ Discontinued \subseteq Products

VARIABLES
    expired, due,                        \* GracePeriod
    stock, deleted, catalogPc, reply, listening, \* Catalog
    paymentPc, charged,                  \* Payment
    handled,                             \* the last entry of out each service acknowledged
    checkouts,                           \* how often each checkout was sent
    restarts                             \* how often each service restarted

Background == INSTANCE GracePeriod
Catalog    == INSTANCE Catalog
Payment    == INSTANCE Payment

eshopVars == <<vars, expired, due, stock, deleted, catalogPc, reply, listening, paymentPc,
               charged, handled, checkouts, restarts>>

background == <<expired, due>>
catalog    == <<stock, deleted, catalogPc, reply, listening>>
payment    == <<paymentPc, charged>>

Subscriptions == [Catalog |-> {"AwaitingValidation", "Paid"},
                  Payment |-> {"StockConfirmed"}]

Services == DOMAIN Subscriptions

\* The services other than Ordering.
Others == {"GracePeriod"} \cup Services

\* The positions in out of the messages that wait in the queue of service s.
Waiting(s) == {i \in DOMAIN out : i > handled[s] /\ out[i].type \in Subscriptions[s]}

\* The message at the head of that queue is of this type and about this order.
AtHead(s, type, o) ==
    /\ Waiting(s) # {}
    /\ out[Min(Waiting(s))].type = type
    /\ out[Min(Waiting(s))].about = o

\* Loses the position, as an acknowledgement with the wrong delivery tag would.
CarelessAckMessage(s) == handled' = handled

AckMessage(s) == handled' = [handled EXCEPT ![s] = Min(Waiting(s))]

---------------------------------------------------------------------------
\* BasketController.CheckoutAsync; a user who sees no answer sends it again.
CheckoutAsync(r) ==
    /\ checkouts[r] < MaxCheckouts
    /\ Len(queue) < MaxQueue
    /\ checkouts' = [checkouts EXCEPT ![r] = @ + 1]
    /\ Deliver([type |-> "UserCheckoutAccepted", about |-> r])
    /\ UNCHANGED <<background, catalog, payment, handled, restarts>>

GracePeriodPasses(o) ==
    /\ status[o] # Absent
    /\ Background!GracePeriodPasses(o)
    /\ UNCHANGED <<vars, catalog, payment, handled, checkouts, restarts>>

CheckConfirmedGracePeriodOrders ==
    /\ Background!CheckConfirmedGracePeriodOrders({o \in Orders : status[o] = "Submitted"})
    /\ UNCHANGED <<vars, catalog, payment, handled, checkouts, restarts>>

PublishGracePeriodConfirmed(o) ==
    /\ Len(queue) < MaxQueue
    /\ Background!PublishGracePeriodConfirmed(o)
    /\ Deliver([type |-> "GracePeriodConfirmed", about |-> o])
    /\ UNCHANGED <<catalog, payment, handled, checkouts, restarts>>

CatalogValidatesStock(o) ==
    /\ AtHead("Catalog", "AwaitingValidation", o)
    /\ \/ Catalog!ValidateStock(Items[origin[o]])
       \/ Catalog!CannotValidateStock(Items[origin[o]])
    /\ UNCHANGED <<vars, background, payment, handled, checkouts, restarts>>

\* Tells Ordering the good news only.
CarelessCatalogPublishesReply(o) ==
    /\ AtHead("Catalog", "AwaitingValidation", o)
    /\ Catalog!PublishReply
    /\ IF reply = "OrderStockConfirmed" THEN Deliver([type |-> reply, about |-> o])
       ELSE UNCHANGED vars
    /\ UNCHANGED <<background, payment, handled, checkouts, restarts>>

CatalogPublishesReply(o) ==
    /\ AtHead("Catalog", "AwaitingValidation", o)
    /\ Catalog!PublishReply
    /\ Deliver([type |-> reply, about |-> o])
    /\ UNCHANGED <<background, payment, handled, checkouts, restarts>>

CatalogTakesStock(o) ==
    /\ AtHead("Catalog", "Paid", o)
    /\ Catalog!TakeStock(Items[origin[o]])
    /\ UNCHANGED <<vars, background, payment, handled, checkouts, restarts>>

ProductIsDeleted(p) ==
    /\ Catalog!DeleteProduct(p)
    /\ UNCHANGED <<vars, background, payment, handled, checkouts, restarts>>

CatalogAcknowledges ==
    /\ Catalog!CatalogAcknowledges
    /\ AckMessage("Catalog")
    /\ UNCHANGED <<vars, background, payment, checkouts, restarts>>

CatalogSubscribes ==
    /\ Catalog!CatalogSubscribes
    /\ UNCHANGED <<vars, background, payment, handled, checkouts, restarts>>

CatalogDiscards ==
    /\ Waiting("Catalog") # {}
    /\ Catalog!CatalogDiscards(out[Min(Waiting("Catalog"))].type)
    /\ AckMessage("Catalog")
    /\ UNCHANGED <<vars, background, payment, checkouts, restarts>>

PaymentTakesPayment(o) ==
    /\ AtHead("Payment", "StockConfirmed", o)
    /\ \E succeeded \in PaymentSucceeded :
          /\ Payment!TakePayment(o, succeeded)
          /\ Deliver([type |-> Payment!PaymentResult(succeeded), about |-> o])
    /\ UNCHANGED <<background, catalog, handled, checkouts, restarts>>

PaymentAcknowledges ==
    /\ Payment!PaymentAcknowledges
    /\ AckMessage("Payment")
    /\ UNCHANGED <<vars, background, catalog, checkouts, restarts>>

\* A service other than Ordering dies and starts again.
ServiceRestarts(s) ==
    /\ MapThenSumSet(LAMBDA x : restarts[x], Others) < MaxRestarts
    /\ restarts' = [restarts EXCEPT ![s] = @ + 1]
    /\ \/ s = "GracePeriod" /\ Background!GracePeriodRestarts /\ UNCHANGED <<catalog, payment>>
       \/ s = "Catalog" /\ Catalog!CatalogRestarts /\ UNCHANGED <<background, payment>>
       \/ s = "Payment" /\ Payment!PaymentRestarts /\ UNCHANGED <<background, catalog>>
    /\ UNCHANGED <<vars, handled, checkouts>>

---------------------------------------------------------------------------
EShopInit ==
    /\ Init
    /\ Background!GracePeriodInit
    /\ Catalog!CatalogInit
    /\ Payment!PaymentInit
    /\ handled   = [s \in Services |-> 0]
    /\ checkouts = [r \in Checkouts |-> 0]
    /\ restarts  = [s \in Others |-> 0]

OrderingStep ==
    OrderingNext /\ UNCHANGED <<background, catalog, payment, handled, checkouts, restarts>>

EShopNext ==
    \/ OrderingStep
    \/ \E r \in Checkouts : CheckoutAsync(r)
    \/ CheckConfirmedGracePeriodOrders
    \/ \E o \in Orders :
          \/ GracePeriodPasses(o)
          \/ PublishGracePeriodConfirmed(o)
          \/ CatalogValidatesStock(o) \/ CatalogPublishesReply(o) \/ CatalogTakesStock(o)
          \/ PaymentTakesPayment(o)
    \/ CatalogAcknowledges \/ CatalogSubscribes \/ CatalogDiscards
    \/ \E p \in Discontinued : ProductIsDeleted(p)
    \/ PaymentAcknowledges
    \/ \E s \in Others : ServiceRestarts(s)

EShopSpec == EShopInit /\ [][EShopNext]_eshopVars

(***************************************************************************)
(* Every process that can take its next step takes it: a consumer's        *)
(* callback and a request's task are scheduled, timers fire, time passes.  *)
(* Nobody is obliged to check out, to call the API or to crash.            *)
(***************************************************************************)
OrderingFairness ==
    /\ WF_eshopVars(Receive /\ OrderingStep)
    /\ WF_eshopVars(Acknowledge /\ OrderingStep)
    /\ WF_eshopVars((Subscribe \/ Discard) /\ OrderingStep)
    /\ \A w \in Workers : WF_eshopVars(Work(w) /\ OrderingStep)
    /\ \A c \in Calls : WF_eshopVars(Respond(c) /\ OrderingStep)

ServiceFairness ==
    /\ WF_eshopVars(CheckConfirmedGracePeriodOrders)
    /\ \A o \in Orders : /\ WF_eshopVars(GracePeriodPasses(o))
                         /\ WF_eshopVars(PublishGracePeriodConfirmed(o))
                         /\ WF_eshopVars(PaymentTakesPayment(o))
    /\ WF_eshopVars(\E o \in Orders : \/ CatalogValidatesStock(o)
                                \/ CatalogPublishesReply(o)
                                \/ CatalogTakesStock(o))
    /\ WF_eshopVars(CatalogAcknowledges)
    /\ WF_eshopVars(CatalogSubscribes \/ CatalogDiscards)
    /\ WF_eshopVars(PaymentAcknowledges)

FairEShopSpec == EShopSpec /\ OrderingFairness /\ ServiceFairness

---------------------------------------------------------------------------
(***************************************************************************)
(* What the process promises across the services.                          *)
(***************************************************************************)

\* The services' variables have values of their kinds (Ordering's: see TypeOK).
EShopTypeOK ==
    /\ TypeOK
    /\ Background!GracePeriodTypeOK
    /\ Catalog!CatalogTypeOK
    /\ Payment!PaymentTypeOK
    /\ handled \in [Services -> 0 .. Len(out)]
    /\ checkouts \in [Checkouts -> 0 .. MaxCheckouts]
    /\ restarts \in [Others -> Nat]

\* An order leaves the user's hands only after its grace period, and counts as
\* paid only if the customer was charged for it.
NothingBeforeItsCause ==
    \A o \in Orders :
        /\ Logged("AwaitingValidation", o) => o \in expired
        /\ Logged("Paid", o) => charged[o] > 0

\* A customer is charged once per order, however often the timer, the users and
\* the retries repeat themselves and whoever else crashes; only a crash of
\* Payment.API, which keeps no record, can make it charge again, and each crash
\* once at most.
ChargedOncePerRestart ==
    \A o \in Orders : charged[o] <= 1 + restarts["Payment"]

PaidOrders == {o \in Orders : Logged("Paid", o)}

\* Stock leaves the catalog for paid orders only, and for each no more than its
\* units, once and once more for each crash of Catalog.API, which takes them again
\* if it dies before the acknowledgement.
StockLeavesForPaidOrders ==
    \A p \in Products :
        InitialStock[p] - stock[p]
            <= (1 + restarts["Catalog"]) * MapThenSumSet(LAMBDA o : Items[origin[o]][p], PaidOrders)

\* Without faults the log is drained: no event stays unpublished for ever, and so
\* no other service waits for one in vain.
EventsArePublished ==
    []<>(\A i \in DOMAIN outbox : outbox[i].state = "Published")

Settled == {"Paid", "Shipped", "Cancelled"}

\* Catalog never answers for an order of a product deleted meanwhile.
WaitsForDeleted(o) == status[o] = "AwaitingValidation" /\ Catalog!IsMissing(Items[origin[o]])

\* Without faults every order a buyer owns ends up paid or cancelled, unless it waits for
\* the validation of a product that was deleted; one deleted later stops no order.
OrdersSettle ==
    \A o \in Orders :
        (status[o] = "Submitted" /\ hasBuyer[o]) ~> status[o] \in Settled \/ WaitsForDeleted(o)

CancelIsCalled(o) == \E c \in Calls : job[c].cmd = "CancelOrder" /\ job[c].about = o

\* Without faults, and if nobody cancels meanwhile, who was charged has a paid order.
ChargedOrdersArePaid ==
    \A o \in Orders :
        charged[o] > 0 ~> status[o] \in {"Paid", "Shipped"} \/ CancelIsCalled(o)
=============================================================================
