------------------------------ MODULE Shopping ------------------------------
(***************************************************************************)
(* Price changes on their way from Catalog's editors to the users'         *)
(* baskets, while users fill, change and check out these baskets: Products *)
(* and Baskets, and the queue between them.  Ordering appears as the       *)
(* sender of OrderStarted, for a user who has checked out.                 *)
(***************************************************************************)
EXTENDS Naturals, Sequences

CONSTANTS
    Products, Prices, Deleted, Editors,
    Users, NoPrice, NoBasket, Calls, Operations,
    MaxChanges,   \* how many price changes editors make
    MaxFailures,  \* how often publishing a change, or a handler, fails
    MaxDeletes,   \* how many products are deleted
    MaxRestarts   \* how often Basket.API dies

VARIABLES
    price, edit, log,                                      \* Products
    baskets, call, basketPc, unvisited, copy, attached,    \* Baskets
    queue,        \* the queue of Basket.API
    ordering,     \* the users whose checkout Ordering has not yet turned into an order
    failures, deletes, restarts

Catalog == INSTANCE Products
Basket  == INSTANCE Baskets

ASSUME ShoppingAssumption ==
    /\ NoPrice \notin Prices
    /\ Deleted \notin Prices
    /\ NoBasket \notin Basket!Baskets
    /\ {MaxChanges, MaxFailures, MaxDeletes, MaxRestarts} \subseteq Nat

catalog == <<price, edit, log>>
basket  == <<baskets, call, basketPc, unvisited, copy, attached>>
bounds  == <<failures, deletes, restarts>>

shoppingVars == <<catalog, basket, queue, ordering, bounds>>

PriceChanged(change) == [type |-> "ProductPriceChanged", content |-> change]
OrderStarted(u)      == [type |-> "OrderStarted", content |-> u]

Messages == [type : {"ProductPriceChanged"}, content : Catalog!PriceChanges]
                \cup [type : {"OrderStarted"}, content : Users]

ShoppingInit ==
    /\ Catalog!ProductsInit
    /\ Basket!BasketsInit(price)
    /\ queue = <<>>
    /\ ordering = {}
    /\ failures = 0 /\ deletes = 0 /\ restarts = 0

---------------------------------------------------------------------------
EditorReads(e) ==
    /\ Len(log) < MaxChanges
    /\ \E p \in Products, new \in Prices : Catalog!ReadProduct(e, p, new)
    /\ UNCHANGED <<basket, queue, ordering, bounds>>

EditorSaves(e) ==
    /\ Catalog!SavePriceChange(e) \/ Catalog!SaveProduct(e) \/ Catalog!SaveFails(e)
    /\ UNCHANGED <<basket, queue, ordering, bounds>>

EditorPublishes(e) ==
    /\ Catalog!PublishPriceChanged(e)
    /\ queue' = Append(queue, PriceChanged(Catalog!Change(e)))
    /\ UNCHANGED <<basket, ordering, bounds>>

\* The broker cannot be reached, or Catalog.API dies: nobody publishes it later.
PublishingFails(e) ==
    /\ failures < MaxFailures
    /\ failures' = failures + 1
    /\ Catalog!PublishPriceChanged(e)
    /\ UNCHANGED <<basket, queue, ordering, deletes, restarts>>

ProductIsDeleted ==
    /\ deletes < MaxDeletes
    /\ deletes' = deletes + 1
    /\ \E p \in Products : Catalog!DeleteProduct(p)
    /\ UNCHANGED <<basket, queue, ordering, failures, restarts>>

---------------------------------------------------------------------------
\* A step of a call; without a product there is no line to add.
CallSteps(c) ==
    /\ \/ \E u \in Users, p \in Products :
            \/ price[p] # Deleted /\ Basket!AddBasketItem(c, u, p, price[p])
            \/ Basket!UpdateAllBasket(c, u, p)
            \/ Basket!UpdateQuantities(c, u, p)
       \/ Basket!GetCurrentBasket(c)
       \/ /\ call[c].stage = "fetched"
          /\ price[call[c].product] # Deleted
          /\ Basket!GetCatalogItems(c, price[call[c].product])
       \/ Basket!UpdateBasket(c) \/ Basket!UpdateBasketFails(c)
       \/ \E u \in Users : Basket!DeleteBasket(c, u)
    /\ UNCHANGED <<catalog, queue, ordering, bounds>>

UserChecksOut(c) ==
    /\ \E u \in Users : Basket!Checkout(c, u) /\ ordering' = ordering \cup {u}
    /\ UNCHANGED <<catalog, queue, bounds>>

\* Ordering publishes the first event of the new order.
OrderStarts(u) ==
    /\ u \in ordering
    /\ ordering' = ordering \ {u}
    /\ queue' = Append(queue, OrderStarted(u))
    /\ UNCHANGED <<catalog, basket, bounds>>

---------------------------------------------------------------------------
Handles(type) == queue # <<>> /\ Head(queue).type = type

PriceHandlerSteps ==
    /\ Handles("ProductPriceChanged")
    /\ \/ Basket!GetUsers
       \/ \E u \in Users : Basket!GetBasket(u)
       \/ Basket!WriteBasket(Head(queue).content)
       \/ Basket!EndVisit
    /\ UNCHANGED <<catalog, queue, ordering, bounds>>

BasketIsDeleted ==
    /\ Handles("OrderStarted")
    /\ Basket!HandleOrderStarted(Head(queue).content)
    /\ UNCHANGED <<catalog, queue, ordering, bounds>>

HandlerFails ==
    /\ queue # <<>>
    /\ failures < MaxFailures
    /\ failures' = failures + 1
    /\ Basket!HandlerThrows(Head(queue).type)
    /\ UNCHANGED <<catalog, queue, ordering, deletes, restarts>>

MessageAcknowledged ==
    /\ Basket!BasketAcknowledges
    /\ queue' = Tail(queue)
    /\ UNCHANGED <<catalog, ordering, bounds>>

MessageDiscarded ==
    /\ queue # <<>>
    /\ Basket!BasketDiscards(Head(queue).type)
    /\ queue' = Tail(queue)
    /\ UNCHANGED <<catalog, ordering, bounds>>

BasketSubscribes ==
    /\ Basket!BasketSubscribes
    /\ UNCHANGED <<catalog, queue, ordering, bounds>>

BasketRestarts ==
    /\ restarts < MaxRestarts
    /\ restarts' = restarts + 1
    /\ Basket!BasketRestarts
    /\ UNCHANGED <<catalog, queue, ordering, failures, deletes>>

ShoppingNext ==
    \/ \E e \in Editors :
          EditorReads(e) \/ EditorSaves(e) \/ EditorPublishes(e) \/ PublishingFails(e)
    \/ ProductIsDeleted
    \/ \E c \in Calls : CallSteps(c) \/ UserChecksOut(c)
    \/ \E u \in Users : OrderStarts(u)
    \/ PriceHandlerSteps \/ BasketIsDeleted \/ HandlerFails
    \/ MessageAcknowledged \/ MessageDiscarded
    \/ BasketSubscribes \/ BasketRestarts

ShoppingSpec == ShoppingInit /\ [][ShoppingNext]_shoppingVars

\* Editors finish what they began, and the consumer handles what waits.
ShoppingFairness ==
    /\ \A e \in Editors : WF_shoppingVars(EditorSaves(e) \/ EditorPublishes(e))
    /\ WF_shoppingVars(PriceHandlerSteps)
    /\ WF_shoppingVars(BasketIsDeleted)
    /\ WF_shoppingVars(MessageAcknowledged)
    /\ WF_shoppingVars(BasketSubscribes \/ MessageDiscarded)

FairShoppingSpec == ShoppingSpec /\ ShoppingFairness

---------------------------------------------------------------------------
\* The variables of the composition have values of their kinds.
ShoppingTypeOK ==
    /\ Catalog!ProductsTypeOK
    /\ Basket!BasketsTypeOK
    /\ queue \in Seq(Messages)
    /\ ordering \subseteq Users
    /\ failures \in 0 .. MaxFailures
    /\ deletes \in 0 .. MaxDeletes
    /\ restarts \in 0 .. MaxRestarts

Announced(p, old, new) ==
    \E i \in DOMAIN log : log[i] = [product |-> p, old |-> old, new |-> new]

OnlyAnnounced(lines) ==
    \A p \in DOMAIN lines :
        lines[p].old # NoPrice => Announced(p, lines[p].old, lines[p].price)

\* A line that shows an old price shows a change Catalog has committed, from just
\* that price to just this one, however reads, rewrites, late and repeated messages
\* are interleaved.
ShownChangesWereAnnounced ==
    \A u \in Users : baskets[u] # NoBasket => OnlyAnnounced(baskets[u])

\* The messages Basket.API has still to handle, in order: those in its queue, and the
\* price change an editor has committed and not published.
PendingMessages ==
    LET saved == {e \in Editors : edit[e].stage = "publish"}
    IN  queue \o (IF saved = {} THEN <<>>
                  ELSE <<PriceChanged(Catalog!Change(CHOOSE e \in saved : TRUE))>>)

\* What the price of a line of product p becomes with a message.
PriceWith(p, shown, message) ==
    IF message.type = "ProductPriceChanged" /\ message.content.product = p /\ message.content.old = shown
    THEN message.content.new
    ELSE shown

\* The price of the line after these messages.
PriceAfter(p, shown, messages) ==
    LET after[i \in 0 .. Len(messages)] ==
            IF i = 0 THEN shown ELSE PriceWith(p, after[i - 1], messages[i])
    IN  after[Len(messages)]

\* Something other than an editor or a restart has interfered with the baskets' prices.
Disturbed == failures > 0 \/ deletes > 0 \/ \E c \in Calls : call[c] # Basket!NewCall

\* With one editor at a time, no failed publication and no user calls, what is under
\* way always suffices to bring every line to the price in the catalog, whatever
\* message Basket.API handles twice after a restart.
PricesCatchUp ==
    ~Disturbed => \A u \in Users :
        baskets[u] # NoBasket =>
            \A p \in DOMAIN baskets[u] :
                price[p] # Deleted =>
                    PriceAfter(p, baskets[u][p].price, PendingMessages) = price[p]

LinesShowCatalogPrices ==
    \A u \in Users :
        baskets[u] # NoBasket =>
            \A p \in DOMAIN baskets[u] : price[p] \in {baskets[u][p].price, Deleted}

\* Then every line does show the catalog's price in the end.
PricesArrive == <>[](Disturbed \/ LinesShowCatalogPrices)

\* Saving a product whose price has not changed leaves its price alone.
UnchangedPriceIsKept ==
    [][\A e \in Editors : Catalog!SaveProduct(e) => UNCHANGED price]_shoppingVars
=============================================================================
