--------------------------- MODULE ShoppingProofs ---------------------------
(***************************************************************************)
(* Nobody invents a price change: every copy of a line, in Redis, in a     *)
(* call and in the handler's loop, and every message shows only changes    *)
(* that are in Catalog's log, for any number of products, prices, editors, *)
(* users and calls.  And no change gets lost on its way: with one editor   *)
(* whose changes are all published, what waits in the queue brings every   *)
(* line to the catalog's price, however often messages come again.         *)
(***************************************************************************)
EXTENDS Shopping, InductionLemmas, SequenceTheorems

\* A message that is being handled is still in the queue.
HandledIsQueued == basketPc # "idle" => queue # <<>>

\* A call about to write has a price for its product, unless its basket has a line.
ReadyIsQuoted ==
    \A c \in Calls :
        /\ call[c].stage = "quoted" => call[c].quote \in Prices
        /\ call[c].stage = "ready"  => \/ call[c].quote \in Prices
                                      \/ call[c].product \in DOMAIN call[c].held

TypeInv == ShoppingTypeOK /\ HandledIsQueued /\ ReadyIsQuoted

AnnouncedChange(change) == Announced(change.product, change.old, change.new)

\* What is announced of the lines that calls and the handler hold, and of the
\* changes on their way to the baskets.
Provenance ==
    /\ ShownChangesWereAnnounced
    /\ \A c \in Calls : call[c] \in Basket!OpenCalls => OnlyAnnounced(call[c].held)
    /\ copy # Basket!NoCopy => OnlyAnnounced(copy.basket)
    /\ \A e \in Editors :
          edit[e].stage = "publish" => AnnouncedChange(Catalog!Change(e))
    /\ \A i \in DOMAIN queue :
          queue[i].type = "ProductPriceChanged" => AnnouncedChange(queue[i].content)

---------------------------------------------------------------------------
(***************************************************************************)
(* Type correctness.                                                       *)
(***************************************************************************)
LEMMA ShoppingTypeInit == ShoppingInit => TypeInv
<1> SUFFICES ASSUME ShoppingInit PROVE TypeInv
    OBVIOUS
<1> USE DEF ShoppingInit
<1>1. Catalog!ProductsTypeOK
    BY DEF Catalog!ProductsInit, Catalog!ProductsTypeOK
<1>2. Basket!BasketsTypeOK
    <2>1. price \in [Products -> Prices]
        BY DEF Catalog!ProductsInit
    <2>2. ASSUME NEW ps \in SUBSET Products
          PROVE  [p \in ps |-> [price |-> price[p], old |-> NoPrice]] \in Basket!Baskets
        BY <2>1 DEF Basket!Baskets, Basket!Lines
    <2>3. baskets \in [Users -> Basket!Baskets \cup {NoBasket}]
        BY <2>2 DEF Basket!BasketsInit
    <2>4. attached \in 0 .. Len(Basket!BasketSubscriptions)
        BY DEF Basket!BasketsInit, Basket!BasketSubscriptions
    <2> QED
        BY <2>3, <2>4 DEF Basket!BasketsInit, Basket!BasketsTypeOK
<1>3. HandledIsQueued
    BY DEF HandledIsQueued, Basket!BasketsInit
<1>4. ReadyIsQuoted
    BY DEF ReadyIsQuoted, Basket!BasketsInit, Basket!NewCall
<1> QED
    BY <1>1, <1>2, <1>3, <1>4, ShoppingAssumption DEF TypeInv, ShoppingTypeOK

LEMMA EditorsKeepTypes ==
    ASSUME TypeInv, NEW e \in Editors,
           EditorReads(e) \/ EditorSaves(e) \/ EditorPublishes(e) \/ PublishingFails(e)
    PROVE  TypeInv'
<1> USE DEF TypeInv, ShoppingTypeOK, Catalog!ProductsTypeOK, HandledIsQueued,
            Catalog!Edits, Catalog!Idle, Catalog!PriceChanges
<1>1. UNCHANGED basket => Basket!BasketsTypeOK' /\ ReadyIsQuoted'
    BY DEF basket, Basket!BasketsTypeOK, ReadyIsQuoted
<1>2. CASE EditorReads(e)
    BY <1>1, <1>2 DEF EditorReads, Catalog!ReadProduct, basket, bounds
<1>3. CASE EditorSaves(e)
    <2>1. Catalog!SavePriceChange(e) => Catalog!ProductsTypeOK'
        BY DEF Catalog!SavePriceChange, Catalog!Saving, Catalog!Change
    <2>2. Catalog!SaveProduct(e) => Catalog!ProductsTypeOK'
        BY DEF Catalog!SaveProduct, Catalog!Saving
    <2>3. Catalog!SaveFails(e) => Catalog!ProductsTypeOK'
        BY DEF Catalog!SaveFails
    <2> QED
        BY <1>1, <1>3, <2>1, <2>2, <2>3 DEF EditorSaves, basket, bounds
<1>4. CASE EditorPublishes(e)
    <2>1. Catalog!ProductsTypeOK'
        BY <1>4 DEF EditorPublishes, Catalog!PublishPriceChanged
    <2>2. PriceChanged(Catalog!Change(e)) \in Messages
        BY <1>4 DEF EditorPublishes, Catalog!PublishPriceChanged, Catalog!Change,
                    PriceChanged, Messages
    <2>3. queue' \in Seq(Messages) /\ queue' # <<>>
        BY <1>4, <2>2 DEF EditorPublishes
    <2> QED
        BY <1>1, <1>4, <2>1, <2>3 DEF EditorPublishes, basket, bounds
<1>5. CASE PublishingFails(e)
    <2>1. Catalog!ProductsTypeOK'
        BY <1>5 DEF PublishingFails, Catalog!PublishPriceChanged
    <2>2. failures' \in 0 .. MaxFailures
        BY <1>5, ShoppingAssumption DEF PublishingFails
    <2> QED
        BY <1>1, <1>5, <2>1, <2>2 DEF PublishingFails, basket, bounds
<1> QED
    BY <1>2, <1>3, <1>4, <1>5

LEMMA CallsKeepTypes ==
    ASSUME TypeInv, NEW c \in Calls, CallSteps(c) \/ UserChecksOut(c)
    PROVE  TypeInv'
<1> USE DEF TypeInv, ShoppingTypeOK, HandledIsQueued, bounds, catalog
<1>1. /\ Catalog!ProductsTypeOK'
      /\ queue' = queue /\ basketPc' = basketPc
      /\ UNCHANGED bounds
    BY DEF CallSteps, UserChecksOut, Catalog!ProductsTypeOK, Basket!AddBasketItem,
           Basket!UpdateAllBasket, Basket!UpdateQuantities, Basket!GetCurrentBasket,
           Basket!GetCatalogItems, Basket!UpdateBasket, Basket!UpdateBasketFails,
           Basket!DeleteBasket,
           Basket!Checkout, Basket!consumer
<1>2. ordering' \subseteq Users
    BY DEF CallSteps, UserChecksOut
<1>3. Basket!Empty \in Basket!Baskets
    <2>1. Basket!Empty \in [{} -> Basket!Lines] /\ {} \in SUBSET Products
        BY DEF Basket!Empty
    <2> QED
        BY <2>1 DEF Basket!Baskets
<1>4. ASSUME NEW u \in Users PROVE Basket!Answers(u) \subseteq Basket!Baskets
    BY <1>3 DEF Basket!Answers, Basket!BasketsTypeOK
<1>5. Basket!BasketsTypeOK' /\ ReadyIsQuoted' => TypeInv'
    BY <1>1, <1>2
<1> USE DEF Basket!BasketsTypeOK, Basket!OpenCalls, Basket!Open, ReadyIsQuoted,
            Basket!NewCall, Basket!DoneCall, Basket!consumer
<1>6. ASSUME NEW u \in Users, NEW p \in Products, price[p] # Deleted,
             Basket!AddBasketItem(c, u, p, price[p])
      PROVE  TypeInv'
    <2>1. price[p] \in Prices
        BY <1>6 DEF Catalog!ProductsTypeOK
    <2> QED
        BY <1>3, <1>5, <1>6, <2>1 DEF Basket!AddBasketItem
<1>7. ASSUME NEW u \in Users, NEW p \in Products, Basket!UpdateAllBasket(c, u, p)
      PROVE  TypeInv'
    <2>1. PICK answer \in Basket!Answers(u) :
              call' = [call EXCEPT ![c] = Basket!Open("fetched", u, p, NoPrice, answer)]
        BY <1>7 DEF Basket!UpdateAllBasket
    <2>2. answer \in Basket!Baskets
        BY <1>4
    <2> QED
        BY <1>5, <1>7, <2>1, <2>2 DEF Basket!UpdateAllBasket
<1>8. ASSUME NEW u \in Users, NEW p \in Products, Basket!UpdateQuantities(c, u, p)
      PROVE  TypeInv'
    BY <1>5, <1>8 DEF Basket!UpdateQuantities
<1>9. ASSUME Basket!GetCurrentBasket(c) PROVE TypeInv'
    <2>1. call[c] \in Basket!OpenCalls
        BY <1>9 DEF Basket!GetCurrentBasket, Basket!NewCall, Basket!DoneCall
    <2>2. PICK answer \in Basket!Answers(call[c].user) :
              call' = [call EXCEPT ![c] = Basket!Open("ready", @.user, @.product, @.quote,
                                                      answer)]
        BY <1>9 DEF Basket!GetCurrentBasket
    <2>3. answer \in Basket!Baskets
        BY <1>4, <2>1
    <2>4. Basket!BasketsTypeOK'
        BY <1>9, <2>1, <2>2, <2>3 DEF Basket!GetCurrentBasket
    <2>5. ReadyIsQuoted'
        BY <1>9, <2>1, <2>2 DEF Basket!GetCurrentBasket
    <2> QED
        BY <1>5, <2>4, <2>5
<1>10. ASSUME call[c].stage = "fetched", price[call[c].product] # Deleted,
              Basket!GetCatalogItems(c, price[call[c].product])
       PROVE  TypeInv'
    <2>1. call[c] \in Basket!OpenCalls
        BY <1>10 DEF Basket!NewCall, Basket!DoneCall
    <2>2. price[call[c].product] \in Prices
        BY <1>10, <2>1 DEF Catalog!ProductsTypeOK
    <2> QED
        BY <1>5, <1>10, <2>1, <2>2 DEF Basket!GetCatalogItems
<1>11. ASSUME Basket!UpdateBasket(c) PROVE TypeInv'
    <2>1. call[c] \in Basket!OpenCalls
        BY <1>11 DEF Basket!UpdateBasket, Basket!NewCall, Basket!DoneCall
    <2>2. call[c].quote \in Prices \/ call[c].product \in DOMAIN call[c].held
        BY <1>11 DEF Basket!UpdateBasket
    <2>3. Basket!WithLine(call[c].held, call[c].product, call[c].quote) \in Basket!Baskets
        <3> DEFINE held == call[c].held
                   ps   == DOMAIN held \cup {call[c].product}
        <3>1. PICK qs \in SUBSET Products : held \in [qs -> Basket!Lines]
            BY <2>1 DEF Basket!Baskets
        <3>2. ps \in SUBSET Products
            BY <2>1, <3>1
        <3>3. ASSUME NEW q \in ps, q \notin DOMAIN held
              PROVE  [price |-> call[c].quote, old |-> NoPrice] \in Basket!Lines
            BY <2>2, <3>3 DEF Basket!Lines
        <3>4. Basket!WithLine(held, call[c].product, call[c].quote) \in [ps -> Basket!Lines]
            BY <3>1, <3>3 DEF Basket!WithLine
        <3> QED
            BY <3>2, <3>4 DEF Basket!Baskets
    <2>4. Basket!BasketsTypeOK'
        BY <1>11, <2>1, <2>3 DEF Basket!UpdateBasket
    <2>5. ReadyIsQuoted'
        BY <1>11 DEF Basket!UpdateBasket
    <2> QED
        BY <1>5, <2>4, <2>5
<1>12. ASSUME Basket!UpdateBasketFails(c) PROVE TypeInv'
    BY <1>5, <1>12 DEF Basket!UpdateBasketFails
<1>13. ASSUME NEW u \in Users, Basket!DeleteBasket(c, u) \/ Basket!Checkout(c, u)
       PROVE  TypeInv'
    <2>1. Basket!BasketsTypeOK'
        BY <1>13 DEF Basket!DeleteBasket, Basket!Checkout
    <2>2. ReadyIsQuoted'
        BY <1>13 DEF Basket!DeleteBasket, Basket!Checkout
    <2> QED
        BY <1>5, <2>1, <2>2
<1> QED
    BY <1>6, <1>7, <1>8, <1>9, <1>10, <1>11, <1>12, <1>13 DEF CallSteps, UserChecksOut

LEMMA UpdatedBasketType ==
    ASSUME NEW b \in Basket!Baskets, NEW change \in Catalog!PriceChanges
    PROVE  Basket!UpdatePriceInBasketItems(b, change) \in Basket!Baskets
<1>1. PICK ps \in SUBSET Products : b \in [ps -> Basket!Lines]
    BY DEF Basket!Baskets
<1>2. ASSUME NEW p \in ps
      PROVE  [price |-> change.new, old |-> b[p].price] \in Basket!Lines
    BY <1>1 DEF Basket!Lines, Catalog!PriceChanges
<1>3. Basket!UpdatePriceInBasketItems(b, change) \in [ps -> Basket!Lines]
    BY <1>1, <1>2 DEF Basket!UpdatePriceInBasketItems
<1> QED
    BY <1>3 DEF Basket!Baskets

\* The steps of Basket.API: its consumer, its start and its end.
BasketStep ==
    \/ PriceHandlerSteps \/ BasketIsDeleted \/ HandlerFails
    \/ MessageAcknowledged \/ MessageDiscarded
    \/ BasketSubscribes \/ BasketRestarts

LEMMA BasketKeepsTypes ==
    ASSUME TypeInv, BasketStep
    PROVE  TypeInv'
<1> USE DEF TypeInv, ShoppingTypeOK, HandledIsQueued, bounds, catalog
<1>1. Catalog!ProductsTypeOK'
    BY DEF BasketStep, PriceHandlerSteps, BasketIsDeleted, HandlerFails, MessageAcknowledged,
           MessageDiscarded, BasketSubscribes, BasketRestarts, Catalog!ProductsTypeOK
<1>2. call' = call /\ ReadyIsQuoted'
    BY DEF BasketStep, PriceHandlerSteps, BasketIsDeleted, HandlerFails, MessageAcknowledged,
           MessageDiscarded, BasketSubscribes, BasketRestarts, ReadyIsQuoted,
           Basket!GetUsers, Basket!GetBasket, Basket!WriteBasket, Basket!EndVisit,
           Basket!HandleOrderStarted, Basket!HandlerThrows,
           Basket!BasketAcknowledges, Basket!BasketDiscards,
           Basket!BasketSubscribes, Basket!BasketRestarts, Basket!basketsVars
<1> USE DEF Basket!BasketsTypeOK
<1>3. CASE PriceHandlerSteps
    <2>1. Basket!GetUsers => Basket!BasketsTypeOK'
        BY DEF Basket!GetUsers
    <2>2. ASSUME NEW u \in Users, Basket!GetBasket(u) PROVE Basket!BasketsTypeOK'
        BY <2>2 DEF Basket!GetBasket, Basket!Copies
    <2>3. ASSUME Basket!WriteBasket(Head(queue).content) PROVE Basket!BasketsTypeOK'
        <3>1. Head(queue) \in Messages /\ Head(queue).type = "ProductPriceChanged"
            BY <1>3 DEF PriceHandlerSteps, Handles
        <3>2. Head(queue).content \in Catalog!PriceChanges
            BY <3>1 DEF Messages
        <3>3. copy \in Basket!Copies
            BY <2>3 DEF Basket!WriteBasket
        <3>4. Basket!UpdatePriceInBasketItems(copy.basket, Head(queue).content)
                  \in Basket!Baskets
            BY <3>2, <3>3, UpdatedBasketType DEF Basket!Copies
        <3> QED
            BY <2>3, <3>3, <3>4 DEF Basket!WriteBasket, Basket!Copies
    <2>4. Basket!EndVisit => Basket!BasketsTypeOK'
        BY DEF Basket!EndVisit
    <2>5. Basket!BasketsTypeOK'
        BY <1>3, <2>1, <2>2, <2>3, <2>4 DEF PriceHandlerSteps
    <2> QED
        BY <1>1, <1>2, <1>3, <2>5 DEF PriceHandlerSteps, Handles
<1>4. CASE BasketIsDeleted
    <2>1. Basket!BasketsTypeOK'
        BY <1>4 DEF BasketIsDeleted, Basket!HandleOrderStarted
    <2> QED
        BY <1>1, <1>2, <1>4, <2>1 DEF BasketIsDeleted, Handles
<1>5. CASE HandlerFails
    <2>1. Basket!BasketsTypeOK'
        BY <1>5 DEF HandlerFails, Basket!HandlerThrows
    <2>2. failures' \in 0 .. MaxFailures
        BY <1>5, ShoppingAssumption DEF HandlerFails
    <2> QED
        BY <1>1, <1>2, <1>5, <2>1, <2>2 DEF HandlerFails
<1>6. CASE MessageAcknowledged
    <2>1. Basket!BasketsTypeOK' /\ basketPc' = "idle"
        BY <1>6 DEF MessageAcknowledged, Basket!BasketAcknowledges
    <2>2. queue # <<>>
        BY <1>6 DEF MessageAcknowledged, Basket!BasketAcknowledges
    <2> QED
        BY <1>1, <1>2, <1>6, <2>1, <2>2 DEF MessageAcknowledged
<1>7. CASE MessageDiscarded
    <2>1. Basket!BasketsTypeOK' /\ basketPc' = "idle"
        BY <1>7 DEF MessageDiscarded, Basket!BasketDiscards, Basket!basketsVars,
                    Basket!consumer
    <2> QED
        BY <1>1, <1>2, <1>7, <2>1 DEF MessageDiscarded
<1>8. CASE BasketSubscribes
    <2>1. Len(Basket!BasketSubscriptions) \in Nat
        BY DEF Basket!BasketSubscriptions
    <2>2. Basket!BasketsTypeOK'
        BY <1>8, <2>1 DEF BasketSubscribes, Basket!BasketSubscribes
    <2> QED
        BY <1>1, <1>2, <1>8, <2>2 DEF BasketSubscribes, Basket!BasketSubscribes
<1>9. CASE BasketRestarts
    <2>1. 0 \in 0 .. Len(Basket!BasketSubscriptions)
        BY DEF Basket!BasketSubscriptions
    <2>2. Basket!BasketsTypeOK' /\ basketPc' = "idle"
        BY <1>9, <2>1 DEF BasketRestarts, Basket!BasketRestarts
    <2>3. restarts' \in 0 .. MaxRestarts
        BY <1>9, ShoppingAssumption DEF BasketRestarts
    <2> QED
        BY <1>1, <1>2, <1>9, <2>2, <2>3 DEF BasketRestarts
<1> QED
    BY <1>3, <1>4, <1>5, <1>6, <1>7, <1>8, <1>9 DEF BasketStep

LEMMA ShoppingTypeNext == TypeInv /\ [ShoppingNext]_shoppingVars => TypeInv'
<1> SUFFICES ASSUME TypeInv, [ShoppingNext]_shoppingVars PROVE TypeInv'
    OBVIOUS
<1>1. UNCHANGED basket => Basket!BasketsTypeOK' /\ ReadyIsQuoted'
    BY DEF TypeInv, ShoppingTypeOK, ReadyIsQuoted, basket, Basket!BasketsTypeOK
<1> USE DEF TypeInv, ShoppingTypeOK, HandledIsQueued
<1>2. CASE ProductIsDeleted
    <2>1. Catalog!ProductsTypeOK'
        BY <1>2 DEF ProductIsDeleted, Catalog!DeleteProduct, Catalog!ProductsTypeOK
    <2>2. deletes' \in 0 .. MaxDeletes
        BY <1>2, ShoppingAssumption DEF ProductIsDeleted
    <2> QED
        BY <1>1, <1>2, <2>1, <2>2 DEF ProductIsDeleted, basket
<1>3. ASSUME NEW u \in Users, OrderStarts(u) PROVE TypeInv'
    <2>1. OrderStarted(u) \in Messages
        BY DEF OrderStarted, Messages
    <2>2. queue' \in Seq(Messages) /\ queue' # <<>>
        BY <1>3, <2>1 DEF OrderStarts
    <2>3. Catalog!ProductsTypeOK'
        BY <1>3 DEF OrderStarts, catalog, Catalog!ProductsTypeOK
    <2> QED
        BY <1>1, <1>3, <2>2, <2>3 DEF OrderStarts, basket, bounds
<1>4. CASE UNCHANGED shoppingVars
    <2>1. Catalog!ProductsTypeOK'
        BY <1>4 DEF shoppingVars, catalog, Catalog!ProductsTypeOK
    <2> QED
        BY <1>1, <1>4, <2>1 DEF shoppingVars, basket, bounds
<1> QED
    BY <1>2, <1>3, <1>4, EditorsKeepTypes, CallsKeepTypes, BasketKeepsTypes
    DEF ShoppingNext, BasketStep

\* Catalog's, Basket's and the queue's variables keep their types, whatever editors,
\* users, failures and restarts do.
THEOREM ShoppingTypeCorrect == ShoppingSpec => []ShoppingTypeOK
<1>1. TypeInv => ShoppingTypeOK
    BY DEF TypeInv
<1> QED
    BY ShoppingTypeInit, ShoppingTypeNext, <1>1, PTL DEF ShoppingSpec

---------------------------------------------------------------------------
(***************************************************************************)
(* Provenance.                                                             *)
(***************************************************************************)
ProvenInv == TypeInv /\ Provenance

LEMMA ProvenanceInit == ShoppingInit => Provenance
<1> SUFFICES ASSUME ShoppingInit PROVE Provenance
    OBVIOUS
<1> USE DEF ShoppingInit, Basket!BasketsInit
<1>1. ASSUME NEW u \in Users, baskets[u] # NoBasket, NEW p \in DOMAIN baskets[u]
      PROVE  baskets[u][p].old = NoPrice
    BY <1>1
<1>2. ShownChangesWereAnnounced
    BY <1>1 DEF ShownChangesWereAnnounced, OnlyAnnounced
<1>3. \A c \in Calls : call[c] \notin Basket!OpenCalls
    BY DEF Basket!OpenCalls, Basket!NewCall
<1>4. copy = Basket!NoCopy /\ queue = <<>>
    OBVIOUS
<1>5. \A e \in Editors : edit[e].stage # "publish"
    BY DEF Catalog!ProductsInit, Catalog!Idle
<1> QED
    BY <1>2, <1>3, <1>4, <1>5 DEF Provenance

\* The log only grows: what was announced stays announced.
LEMMA LogGrows ==
    ASSUME TypeInv, [ShoppingNext]_shoppingVars
    PROVE  /\ \A p, old, new : Announced(p, old, new) => Announced(p, old, new)'
           /\ \A b : OnlyAnnounced(b) => OnlyAnnounced(b)'
<1>1. log' = log \/ \E change \in Catalog!PriceChanges : log' = Append(log, change)
    <2>1. ASSUME NEW e \in Editors, Catalog!SavePriceChange(e)
          PROVE  \E change \in Catalog!PriceChanges : log' = Append(log, change)
        BY <2>1 DEF Catalog!SavePriceChange, Catalog!Saving, Catalog!Change,
                    Catalog!PriceChanges, TypeInv, ShoppingTypeOK,
                    Catalog!ProductsTypeOK, Catalog!Edits, Catalog!Idle
    <2> QED
        BY <2>1 DEF ShoppingNext, shoppingVars, catalog, EditorReads, EditorSaves,
            EditorPublishes, PublishingFails, ProductIsDeleted, CallSteps, UserChecksOut,
            OrderStarts, PriceHandlerSteps, BasketIsDeleted, HandlerFails, MessageAcknowledged,
            MessageDiscarded, BasketSubscribes, BasketRestarts, Catalog!ReadProduct,
            Catalog!SaveProduct, Catalog!SaveFails, Catalog!PublishPriceChanged,
            Catalog!DeleteProduct
<1>2. \A i \in DOMAIN log : i \in DOMAIN log' /\ log'[i] = log[i]
    BY <1>1 DEF TypeInv, ShoppingTypeOK, Catalog!ProductsTypeOK
<1>3. \A p, old, new : Announced(p, old, new) => Announced(p, old, new)'
    BY <1>2 DEF Announced
<1> QED
    BY <1>3 DEF OnlyAnnounced

LEMMA EditorsAnnounce ==
    ASSUME ProvenInv, NEW e \in Editors,
           EditorReads(e) \/ EditorSaves(e) \/ EditorPublishes(e) \/ PublishingFails(e)
    PROVE  Provenance'
<1>1. [ShoppingNext]_shoppingVars
    BY DEF ShoppingNext
<1>2. /\ \A p, old, new : Announced(p, old, new) => Announced(p, old, new)'
      /\ \A b : OnlyAnnounced(b) => OnlyAnnounced(b)'
    BY <1>1, LogGrows DEF ProvenInv
<1>3. UNCHANGED <<baskets, call, copy>>
    BY DEF EditorReads, EditorSaves, EditorPublishes, PublishingFails, basket
<1>4. /\ ShownChangesWereAnnounced'
      /\ (\A c \in Calls : call[c] \in Basket!OpenCalls => OnlyAnnounced(call[c].held))'
      /\ (copy # Basket!NoCopy => OnlyAnnounced(copy.basket))'
    BY <1>2, <1>3 DEF ProvenInv, Provenance, ShownChangesWereAnnounced
<1>5. ASSUME NEW f \in Editors, edit'[f].stage = "publish"
      PROVE  AnnouncedChange(Catalog!Change(f))'
    <2>1. CASE Catalog!SavePriceChange(e) /\ f = e
        <3>1. log \in Seq(Catalog!PriceChanges) /\ edit[e] \in Catalog!Edits
            BY <2>1 DEF ProvenInv, TypeInv, ShoppingTypeOK, Catalog!ProductsTypeOK,
                        Catalog!SavePriceChange, Catalog!Saving, Catalog!Idle
        <3>2. Catalog!Change(e)' = Catalog!Change(e)
            BY <2>1, <3>1 DEF Catalog!SavePriceChange, Catalog!Change, Catalog!Edits,
                              ProvenInv, TypeInv, ShoppingTypeOK, Catalog!ProductsTypeOK
        <3>3. log' = Append(log, Catalog!Change(e))
            BY <2>1 DEF Catalog!SavePriceChange
        <3>4. /\ Len(log) + 1 \in DOMAIN log'
              /\ log'[Len(log) + 1] = Catalog!Change(e)
            BY <3>1, <3>3
        <3> QED
            BY <2>1, <3>2, <3>4 DEF AnnouncedChange, Announced, Catalog!Change
    <2>2. CASE ~(Catalog!SavePriceChange(e) /\ f = e)
        <3>1. edit'[f] = edit[f]
            BY <1>5, <2>2 DEF EditorReads, EditorSaves, EditorPublishes, PublishingFails,
                Catalog!ReadProduct, Catalog!SaveProduct, Catalog!SaveFails,
                Catalog!SavePriceChange, Catalog!PublishPriceChanged, Catalog!Idle,
                ProvenInv, TypeInv, ShoppingTypeOK, Catalog!ProductsTypeOK
        <3>2. AnnouncedChange(Catalog!Change(f))
            BY <1>5, <3>1 DEF ProvenInv, Provenance
        <3> QED
            BY <1>2, <3>1, <3>2 DEF AnnouncedChange, Catalog!Change
    <2> QED
        BY <2>1, <2>2
<1>6. ASSUME NEW i \in DOMAIN queue', queue'[i].type = "ProductPriceChanged"
      PROVE  AnnouncedChange(queue[i].content)'
    <2>1. queue \in Seq(Messages)
        BY DEF ProvenInv, TypeInv, ShoppingTypeOK
    <2>2. CASE queue' = queue
        BY <1>2, <1>6, <2>2 DEF ProvenInv, Provenance, AnnouncedChange
    <2>3. CASE EditorPublishes(e)
        <3>1. queue' = Append(queue, PriceChanged(Catalog!Change(e)))
            BY <2>3 DEF EditorPublishes
        <3>2. edit[e].stage = "publish"
            BY <2>3 DEF EditorPublishes, Catalog!PublishPriceChanged
        <3>3. AnnouncedChange(Catalog!Change(e))
            BY <3>2 DEF ProvenInv, Provenance
        <3>4. CASE i \in DOMAIN queue
            <4>1. queue'[i] = queue[i]
                BY <2>1, <3>1, <3>4
            <4>2. AnnouncedChange(queue[i].content)
                BY <1>6, <3>4, <4>1 DEF ProvenInv, Provenance
            <4> QED
                BY <1>2, <4>1, <4>2 DEF AnnouncedChange
        <3>5. CASE i = Len(queue) + 1
            <4>1. queue'[i].content = Catalog!Change(e)
                BY <2>1, <3>1, <3>5 DEF PriceChanged
            <4> QED
                BY <1>2, <3>3, <4>1 DEF AnnouncedChange
        <3> QED
            BY <1>6, <2>1, <3>1, <3>4, <3>5
    <2> QED
        BY <2>2, <2>3 DEF EditorReads, EditorSaves, PublishingFails
<1> QED
    BY <1>4, <1>5, <1>6 DEF Provenance

LEMMA CallsAnnounce ==
    ASSUME ProvenInv, NEW c \in Calls, CallSteps(c) \/ UserChecksOut(c)
    PROVE  Provenance'
<1>1. UNCHANGED <<log, edit, queue, copy>>
    BY DEF CallSteps, UserChecksOut, catalog, Basket!AddBasketItem,
           Basket!UpdateAllBasket, Basket!UpdateQuantities, Basket!GetCurrentBasket,
           Basket!GetCatalogItems, Basket!UpdateBasket, Basket!UpdateBasketFails,
           Basket!DeleteBasket,
           Basket!Checkout, Basket!consumer
<1>2. \A b : OnlyAnnounced(b)' <=> OnlyAnnounced(b)
    BY <1>1 DEF OnlyAnnounced, Announced
<1>3. /\ (copy # Basket!NoCopy => OnlyAnnounced(copy.basket))'
      /\ (\A e \in Editors :
             edit[e].stage = "publish" => AnnouncedChange(Catalog!Change(e)))'
      /\ (\A i \in DOMAIN queue : queue[i].type = "ProductPriceChanged" =>
             AnnouncedChange(queue[i].content))'
    BY <1>1 DEF ProvenInv, Provenance, AnnouncedChange, Announced, Catalog!Change,
                OnlyAnnounced
<1>4. OnlyAnnounced(Basket!Empty)
    BY DEF OnlyAnnounced, Basket!Empty
<1>5. ASSUME NEW u \in Users PROVE \A answer \in Basket!Answers(u) : OnlyAnnounced(answer)
    BY <1>4 DEF Basket!Answers, ProvenInv, Provenance, ShownChangesWereAnnounced
<1>6. baskets \in [Users -> Basket!Baskets \cup {NoBasket}]
    BY DEF ProvenInv, TypeInv, ShoppingTypeOK, Basket!BasketsTypeOK
<1>7. call \in [Calls -> Basket!OpenCalls \cup {Basket!NewCall, Basket!DoneCall}]
    BY DEF ProvenInv, TypeInv, ShoppingTypeOK, Basket!BasketsTypeOK
<1>8. \A d \in Calls : call[d] \in Basket!OpenCalls => OnlyAnnounced(call[d].held)
    BY DEF ProvenInv, Provenance
\* A call that holds announced lines keeps to them, whatever it does next.
<1>9. ASSUME baskets' = baskets,
             NEW next, call' = [call EXCEPT ![c] = next],
             next \in Basket!OpenCalls => OnlyAnnounced(next.held)
      PROVE  Provenance'
    BY <1>2, <1>3, <1>7, <1>8, <1>9 DEF ProvenInv, Provenance, ShownChangesWereAnnounced
<1>10. ASSUME NEW u \in Users, NEW b, baskets' = [baskets EXCEPT ![u] = b],
              b # NoBasket => OnlyAnnounced(b),
              call' = [call EXCEPT ![c] = Basket!DoneCall]
       PROVE  Provenance'
    <2>1. Basket!DoneCall \notin Basket!OpenCalls
        BY DEF Basket!DoneCall, Basket!OpenCalls
    <2>2. ShownChangesWereAnnounced'
        BY <1>2, <1>6, <1>10 DEF ProvenInv, Provenance, ShownChangesWereAnnounced
    <2> QED
        BY <1>2, <1>3, <1>7, <1>8, <1>10, <2>1, <2>2 DEF Provenance
<1>11. ASSUME NEW u \in Users, NEW p \in Products,
              \/ Basket!AddBasketItem(c, u, p, price[p])
              \/ Basket!UpdateAllBasket(c, u, p)
              \/ Basket!UpdateQuantities(c, u, p)
       PROVE  Provenance'
    <2>1. CASE Basket!AddBasketItem(c, u, p, price[p])
        BY <1>4, <1>9, <2>1 DEF Basket!AddBasketItem, Basket!Open
    <2>2. CASE Basket!UpdateAllBasket(c, u, p)
        <3>1. PICK answer \in Basket!Answers(u) :
                  call' = [call EXCEPT ![c] = Basket!Open("fetched", u, p, NoPrice, answer)]
            BY <2>2 DEF Basket!UpdateAllBasket
        <3>2. OnlyAnnounced(answer)
            BY <1>5
        <3> QED
            BY <1>9, <2>2, <3>1, <3>2 DEF Basket!UpdateAllBasket, Basket!Open
    <2>3. CASE Basket!UpdateQuantities(c, u, p)
        <3>1. OnlyAnnounced(baskets[u])
            BY <2>3 DEF Basket!UpdateQuantities, ProvenInv, Provenance,
                        ShownChangesWereAnnounced
        <3> QED
            BY <1>9, <2>3, <3>1 DEF Basket!UpdateQuantities, Basket!Open
    <2> QED
        BY <1>11, <2>1, <2>2, <2>3
<1>12. ASSUME Basket!GetCurrentBasket(c) PROVE Provenance'
    <2>1. call[c].user \in Users
        BY <1>7, <1>12 DEF Basket!GetCurrentBasket, Basket!OpenCalls, Basket!NewCall,
                           Basket!DoneCall
    <2>2. PICK answer \in Basket!Answers(call[c].user) :
              call' = [call EXCEPT ![c] = Basket!Open("ready", @.user, @.product, @.quote,
                                                      answer)]
        BY <1>12 DEF Basket!GetCurrentBasket
    <2>3. OnlyAnnounced(answer)
        BY <1>5, <2>1
    <2> QED
        BY <1>7, <1>9, <1>12, <2>2, <2>3 DEF Basket!GetCurrentBasket, Basket!Open
<1>13. ASSUME NEW p, Basket!GetCatalogItems(c, p) PROVE Provenance'
    <2>1. OnlyAnnounced(call[c].held)
        BY <1>7, <1>8, <1>13 DEF Basket!GetCatalogItems, Basket!NewCall, Basket!DoneCall
    <2> QED
        BY <1>7, <1>9, <1>13, <2>1 DEF Basket!GetCatalogItems, Basket!Open
<1>14. ASSUME Basket!UpdateBasket(c) PROVE Provenance'
    <2>1. call[c].user \in Users /\ OnlyAnnounced(call[c].held)
        BY <1>7, <1>8, <1>14 DEF Basket!UpdateBasket, Basket!OpenCalls, Basket!NewCall,
                                 Basket!DoneCall
    <2>2. OnlyAnnounced(Basket!WithLine(call[c].held, call[c].product, call[c].quote))
        BY <2>1 DEF OnlyAnnounced, Basket!WithLine
    <2> QED
        BY <1>10, <1>14, <2>1, <2>2 DEF Basket!UpdateBasket
<1>15. ASSUME NEW u \in Users, Basket!DeleteBasket(c, u) PROVE Provenance'
    BY <1>10, <1>15 DEF Basket!DeleteBasket
<1>16. ASSUME Basket!UpdateBasketFails(c) \/ \E u \in Users : Basket!Checkout(c, u)
       PROVE  Provenance'
    <2>1. Basket!DoneCall \notin Basket!OpenCalls
        BY DEF Basket!DoneCall, Basket!OpenCalls
    <2> QED
        BY <1>9, <1>16, <2>1 DEF Basket!Checkout, Basket!UpdateBasketFails
<1> QED
    BY <1>11, <1>12, <1>13, <1>14, <1>15, <1>16 DEF CallSteps, UserChecksOut

LEMMA UpdatedBasketAnnounced ==
    ASSUME NEW b, NEW change, OnlyAnnounced(b), AnnouncedChange(change)
    PROVE  OnlyAnnounced(Basket!UpdatePriceInBasketItems(b, change))
BY DEF OnlyAnnounced, AnnouncedChange, Basket!UpdatePriceInBasketItems

LEMMA BasketAnnounces ==
    ASSUME ProvenInv, BasketStep
    PROVE  Provenance'
<1>1. UNCHANGED <<log, edit, call>>
    BY DEF BasketStep, PriceHandlerSteps, BasketIsDeleted, HandlerFails, MessageAcknowledged,
           MessageDiscarded, BasketSubscribes, BasketRestarts, catalog,
           Basket!GetUsers, Basket!GetBasket, Basket!WriteBasket, Basket!EndVisit,
           Basket!HandleOrderStarted, Basket!HandlerThrows,
           Basket!BasketAcknowledges, Basket!BasketDiscards,
           Basket!BasketSubscribes, Basket!BasketRestarts, Basket!basketsVars
<1>2. /\ \A b : OnlyAnnounced(b)' <=> OnlyAnnounced(b)
      /\ \A change : AnnouncedChange(change)' <=> AnnouncedChange(change)
    BY <1>1 DEF OnlyAnnounced, AnnouncedChange, Announced
<1>3. /\ (\A c \in Calls : call[c] \in Basket!OpenCalls => OnlyAnnounced(call[c].held))'
      /\ (\A e \in Editors :
             edit[e].stage = "publish" => AnnouncedChange(Catalog!Change(e)))'
    BY <1>1, <1>2 DEF ProvenInv, Provenance, Catalog!Change
<1>4. /\ queue \in Seq(Messages)
      /\ baskets \in [Users -> Basket!Baskets \cup {NoBasket}]
      /\ copy \in Basket!Copies \cup {Basket!NoCopy}
    BY DEF ProvenInv, TypeInv, ShoppingTypeOK, Basket!BasketsTypeOK
<1>5. \A i \in DOMAIN queue :
          queue[i].type = "ProductPriceChanged" => AnnouncedChange(queue[i].content)
    BY DEF ProvenInv, Provenance
<1>6. (\A i \in DOMAIN queue :
          queue[i].type = "ProductPriceChanged" => AnnouncedChange(queue[i].content))'
    <2>1. queue' = queue \/ (queue # <<>> /\ queue' = Tail(queue))
        BY DEF BasketStep, PriceHandlerSteps, BasketIsDeleted, HandlerFails,
               MessageAcknowledged, MessageDiscarded, BasketSubscribes, BasketRestarts,
               ProvenInv, TypeInv, HandledIsQueued, Basket!BasketAcknowledges
    <2>2. ASSUME NEW i \in DOMAIN queue'
          PROVE  \E j \in DOMAIN queue : queue'[i] = queue[j]
        BY <1>4, <2>1
    <2> QED
        BY <1>2, <1>5, <2>2
<1>7. ASSUME NEW u \in Users, Basket!GetBasket(u)
      PROVE  copy' # Basket!NoCopy => OnlyAnnounced(copy'.basket)
    BY <1>7 DEF Basket!GetBasket, ProvenInv, Provenance, ShownChangesWereAnnounced
<1>8. (copy # Basket!NoCopy => OnlyAnnounced(copy.basket))'
    <2>1. \/ copy' = copy \/ copy' = Basket!NoCopy
          \/ \E u \in Users : Basket!GetBasket(u)
        BY DEF BasketStep, PriceHandlerSteps, BasketIsDeleted, HandlerFails,
               MessageAcknowledged, MessageDiscarded, BasketSubscribes, BasketRestarts,
               Basket!GetUsers, Basket!WriteBasket, Basket!EndVisit,
               Basket!HandleOrderStarted, Basket!HandlerThrows, Basket!BasketAcknowledges,
               Basket!BasketDiscards, Basket!BasketSubscribes, Basket!BasketRestarts,
               Basket!basketsVars, Basket!consumer
    <2> QED
        BY <1>2, <1>7, <2>1 DEF ProvenInv, Provenance
<1>9. ShownChangesWereAnnounced'
    <2>1. CASE baskets' = baskets
        BY <1>2, <2>1 DEF ProvenInv, Provenance, ShownChangesWereAnnounced
    <2>2. CASE BasketIsDeleted
        BY <1>2, <1>4, <2>2 DEF BasketIsDeleted, Basket!HandleOrderStarted, ProvenInv,
                                Provenance, ShownChangesWereAnnounced
    <2>3. CASE Handles("ProductPriceChanged") /\ Basket!WriteBasket(Head(queue).content)
        <3>1. AnnouncedChange(Head(queue).content)
            BY <1>4, <1>5, <2>3 DEF Handles
        <3>2. copy \in Basket!Copies /\ OnlyAnnounced(copy.basket)
            BY <1>4, <2>3 DEF Basket!WriteBasket, ProvenInv, Provenance
        <3>3. OnlyAnnounced(Basket!UpdatePriceInBasketItems(copy.basket,
                                                            Head(queue).content))
            BY <3>1, <3>2, UpdatedBasketAnnounced
        <3> QED
            BY <1>2, <1>4, <2>3, <3>2, <3>3 DEF Basket!WriteBasket, Basket!Copies,
                ProvenInv, Provenance, ShownChangesWereAnnounced
    <2> QED
        BY <2>1, <2>2, <2>3
        DEF BasketStep, PriceHandlerSteps, HandlerFails, MessageAcknowledged,
            MessageDiscarded, BasketSubscribes, BasketRestarts, Basket!GetUsers,
            Basket!GetBasket, Basket!EndVisit, Basket!HandlerThrows,
            Basket!BasketAcknowledges, Basket!BasketDiscards,
            Basket!BasketSubscribes, Basket!BasketRestarts, Basket!basketsVars
<1> QED
    BY <1>3, <1>6, <1>8, <1>9 DEF Provenance

LEMMA ProvenanceNext == ProvenInv /\ [ShoppingNext]_shoppingVars => ProvenInv'
<1> SUFFICES ASSUME ProvenInv, [ShoppingNext]_shoppingVars PROVE Provenance'
    BY ShoppingTypeNext DEF ProvenInv
<1>1. CASE ProductIsDeleted \/ \E u \in Users : OrderStarts(u)
    <2>1. UNCHANGED <<log, edit, baskets, call, copy>>
        BY <1>1 DEF ProductIsDeleted, OrderStarts, Catalog!DeleteProduct, basket, catalog
    <2>2. queue \in Seq(Messages)
        BY DEF ProvenInv, TypeInv, ShoppingTypeOK
    <2>3. queue' = queue \/ \E u \in Users : queue' = Append(queue, OrderStarted(u))
        BY <1>1 DEF ProductIsDeleted, OrderStarts
    <2>4. ASSUME NEW i \in DOMAIN queue', queue'[i].type = "ProductPriceChanged"
          PROVE  i \in DOMAIN queue /\ queue'[i] = queue[i]
        <3>1. CASE queue' = queue
            BY <2>4, <3>1
        <3>2. CASE \E u \in Users : queue' = Append(queue, OrderStarted(u))
            <4>1. PICK u \in Users : queue' = Append(queue, OrderStarted(u))
                BY <3>2
            <4>2. i \in 1 .. Len(queue) + 1
                BY <2>2, <2>4, <4>1
            <4>3. CASE i = Len(queue) + 1
                <5>1. queue'[i] = OrderStarted(u)
                    BY <2>2, <4>1, <4>3
                <5> QED
                    BY <2>4, <5>1 DEF OrderStarted
            <4>4. CASE i \in DOMAIN queue
                BY <2>2, <4>1, <4>4
            <4> QED
                BY <2>2, <4>2, <4>3, <4>4
        <3> QED
            BY <2>3, <3>1, <3>2
    <2> QED
        BY <2>1, <2>4 DEF ProvenInv, Provenance, ShownChangesWereAnnounced, OnlyAnnounced,
            Announced, AnnouncedChange, Catalog!Change
<1>2. CASE UNCHANGED shoppingVars
    BY <1>2 DEF shoppingVars, catalog, basket, ProvenInv, Provenance,
        ShownChangesWereAnnounced, OnlyAnnounced, Announced, AnnouncedChange,
        Catalog!Change
<1> QED
    BY <1>1, <1>2, EditorsAnnounce, CallsAnnounce, BasketAnnounces
    DEF ShoppingNext, BasketStep

\* The price history a basket shows never lies: what a line calls its old price is
\* what Catalog changed into the price the line shows.
THEOREM ShownChangesWereAnnouncedCorrect == ShoppingSpec => []ShownChangesWereAnnounced
<1>1. ShoppingInit => ProvenInv
    BY ShoppingTypeInit, ProvenanceInit DEF ProvenInv
<1>2. ProvenInv => ShownChangesWereAnnounced
    BY DEF ProvenInv, Provenance
<1> QED
    BY <1>1, <1>2, ProvenanceNext, PTL DEF ShoppingSpec

---------------------------------------------------------------------------
(***************************************************************************)
(* What a line's price becomes with the messages under way.                *)
(***************************************************************************)
IsAfter(f, p, shown, messages) ==
    /\ f \in [0 .. Len(messages) -> Prices]
    /\ f[0] = shown
    /\ \A n \in 1 .. Len(messages) : f[n] = PriceWith(p, f[n - 1], messages[n])

LEMMA PriceWithType ==
  ASSUME NEW p, NEW x \in Prices, NEW m \in Messages
  PROVE  PriceWith(p, x, m) \in Prices
<1>1. CASE m \in [type : {"OrderStarted"}, content : Users]
  BY <1>1 DEF PriceWith
<1>2. CASE m \in [type : {"ProductPriceChanged"}, content : Catalog!PriceChanges]
  <2>1. m.content \in Catalog!PriceChanges
    BY <1>2
  <2>2. m.content.new \in Prices
    BY <2>1 DEF Catalog!PriceChanges
  <2> QED BY <2>2 DEF PriceWith
<1> QED BY <1>1, <1>2 DEF Messages

LEMMA AfterExists ==
  ASSUME NEW p, NEW shown \in Prices, NEW messages \in Seq(Messages)
  PROVE  \E f : IsAfter(f, p, shown, messages) /\ PriceAfter(p, shown, messages) = f[Len(messages)]
<1> DEFINE N         == Len(messages)
           Turn(n, x) == IF n \in 1 .. N THEN PriceWith(p, x, messages[n]) ELSE x
           step      == [x \in Nat \X Prices |-> Turn(x[1], x[2])]
           Turned(u) == [n \in 0 .. N |->
                             IF n = 0 THEN shown ELSE PriceWith(p, u[n - 1], messages[n])]
           after     == CHOOSE u : u = Turned(u)
<1>1. N \in Nat /\ \A n \in 1 .. N : messages[n] \in Messages
  OBVIOUS
<1>2. ASSUME NEW n \in Nat, NEW x \in Prices PROVE Turn(n, x) \in Prices
  BY <1>1, PriceWithType
<1>3. IsStep(step, Prices)
  <2> HIDE DEF Turn
  <2> QED BY <1>2 DEF IsStep
<1>4. PICK f : f \in Approximations(Prices, shown, step, N)
  <2> HIDE DEF step, N
  <2> QED BY <1>1, <1>3, ApproximationsExist
<1>5. IsAfter(f, p, shown, messages)
  <2>1. f \in [0 .. N -> Prices] /\ f[0] = shown
    BY <1>4 DEF Approximations
  <2>2. ASSUME NEW n \in 1 .. N PROVE f[n] = PriceWith(p, f[n - 1], messages[n])
    <3>1. f[n - 1] \in Prices /\ n \in Nat
      BY <1>1, <2>1
    <3>2. f[n] = step[<<n, f[n - 1]>>]
      BY <1>4 DEF Approximations
    <3> QED BY <3>1, <3>2
  <2> QED BY <2>1, <2>2 DEF IsAfter
<1>6. f = Turned(f)
  <2>1. ASSUME NEW n \in 0 .. N PROVE f[n] = Turned(f)[n]
    <3>1. CASE n = 0
      BY <1>5, <3>1 DEF IsAfter
    <3>2. CASE n # 0
      <4>1. n \in 1 .. N
        BY <1>1, <3>2
      <4>2. f[n] = PriceWith(p, f[n - 1], messages[n])
        BY <1>5, <4>1 DEF IsAfter
      <4> QED BY <3>2, <4>2
    <3> QED BY <3>1, <3>2
  <2>2. f = [n \in 0 .. N |-> f[n]]
    BY <1>5 DEF IsAfter
  <2>3. Turned(f) = [n \in 0 .. N |-> Turned(f)[n]]
    OBVIOUS
  <2> HIDE DEF Turned
  <2> QED BY <2>1, <2>2, <2>3
<1>7. after = Turned(after)
  BY <1>6
<1>8. PriceAfter(p, shown, messages) = after[N]
  BY DEF PriceAfter
<1> HIDE DEF after
<1> DEFINE P == {n \in Nat : n <= N => after[n] = f[n]}
<1>9. 0 \in P
  BY <1>1, <1>5, <1>7 DEF IsAfter
<1>10. ASSUME NEW n \in Nat, n \in P PROVE n + 1 \in P
  <2>1. SUFFICES ASSUME n + 1 <= N PROVE after[n + 1] = f[n + 1]
    OBVIOUS
  <2>2. after[n] = f[n] /\ n + 1 \in 1 .. N /\ (n + 1) - 1 = n
    BY <1>1, <1>10, <2>1
  <2>3. f[n + 1] = PriceWith(p, f[n], messages[n + 1])
    BY <1>5, <2>2 DEF IsAfter
  <2>4. n + 1 \in 0 .. N /\ n + 1 # 0
    BY <1>1, <2>2
  <2>5. Turned(after)[n + 1] = PriceWith(p, after[n], messages[n + 1])
    BY <2>2, <2>4
  <2> QED BY <1>7, <2>2, <2>3, <2>5
<1> HIDE DEF P
<1>11. Nat \subseteq P
  BY <1>9, <1>10, NatSetInduction
<1>12. after[N] = f[N]
  BY <1>1, <1>11 DEF P
<1> QED BY <1>5, <1>8, <1>12

\* One message more has its effect after the others.
LEMMA AfterOneMore ==
  ASSUME NEW p, NEW shown \in Prices, NEW messages \in Seq(Messages), NEW m \in Messages
  PROVE  PriceAfter(p, shown, Append(messages, m)) = PriceWith(p, PriceAfter(p, shown, messages), m)
<1> DEFINE more == Append(messages, m)
           N    == Len(messages)
<1>1. /\ more \in Seq(Messages) /\ N \in Nat /\ Len(more) = N + 1 /\ more[N + 1] = m
      /\ \A n \in 1 .. N : more[n] = messages[n]
  OBVIOUS
<1>2. PICK f : IsAfter(f, p, shown, messages) /\ PriceAfter(p, shown, messages) = f[N]
  BY AfterExists
<1> HIDE DEF more
<1>3. PICK g : IsAfter(g, p, shown, more) /\ PriceAfter(p, shown, more) = g[Len(more)]
  BY <1>1, AfterExists
<1> DEFINE P == {n \in Nat : n <= N => g[n] = f[n]}
<1>4. 0 \in P
  BY <1>2, <1>3 DEF IsAfter
<1>5. ASSUME NEW n \in Nat, n \in P PROVE n + 1 \in P
  <2>1. SUFFICES ASSUME n + 1 <= N PROVE g[n + 1] = f[n + 1]
    OBVIOUS
  <2>2. g[n] = f[n] /\ n + 1 \in 1 .. N /\ n + 1 \in 1 .. Len(more) /\ (n + 1) - 1 = n
    BY <1>1, <1>5, <2>1
  <2>3. f[n + 1] = PriceWith(p, f[n], messages[n + 1])
    BY <1>2, <2>2 DEF IsAfter
  <2>4. g[n + 1] = PriceWith(p, g[n], more[n + 1])
    BY <1>3, <2>2 DEF IsAfter
  <2> QED BY <1>1, <2>2, <2>3, <2>4
<1> HIDE DEF P
<1>6. Nat \subseteq P
  BY <1>4, <1>5, NatSetInduction
<1>7. g[N] = f[N]
  BY <1>1, <1>6 DEF P
<1>8. g[N + 1] = PriceWith(p, g[N], m)
  <2>1. N + 1 \in 1 .. Len(more) /\ (N + 1) - 1 = N
    BY <1>1
  <2> QED BY <1>1, <1>3, <2>1 DEF IsAfter
<1> QED BY <1>1, <1>2, <1>3, <1>7, <1>8 DEF more

\* The first message has its effect before the others.
LEMMA AfterFirst ==
  ASSUME NEW p, NEW shown \in Prices, NEW messages \in Seq(Messages), messages # <<>>
  PROVE  PriceAfter(p, shown, messages)
             = PriceAfter(p, PriceWith(p, shown, Head(messages)), Tail(messages))
<1> DEFINE rest  == Tail(messages)
           first == PriceWith(p, shown, Head(messages))
           N     == Len(messages)
<1>1. /\ rest \in Seq(Messages) /\ N \in Nat /\ N > 0 /\ Len(rest) = N - 1
      /\ Head(messages) = messages[1] /\ messages[1] \in Messages
      /\ \A n \in 1 .. N - 1 : rest[n] = messages[n + 1]
  OBVIOUS
<1>2. first \in Prices
  BY <1>1, PriceWithType
<1>3. PICK f : IsAfter(f, p, shown, messages) /\ PriceAfter(p, shown, messages) = f[N]
  BY AfterExists
<1> HIDE DEF rest, first
<1>4. PICK g : IsAfter(g, p, first, rest) /\ PriceAfter(p, first, rest) = g[Len(rest)]
  BY <1>1, <1>2, AfterExists
<1> DEFINE P == {n \in Nat : n <= N - 1 => f[n + 1] = g[n]}
<1>5. 0 \in P
  <2>1. 1 \in 1 .. N /\ 1 - 1 = 0 /\ 0 + 1 = 1
    BY <1>1
  <2>2. f[1] = PriceWith(p, f[0], messages[1]) /\ f[0] = shown
    BY <1>3, <2>1 DEF IsAfter
  <2>3. g[0] = first
    BY <1>4 DEF IsAfter
  <2> QED BY <1>1, <2>1, <2>2, <2>3 DEF first
<1>6. ASSUME NEW n \in Nat, n \in P PROVE n + 1 \in P
  <2>1. SUFFICES ASSUME n + 1 <= N - 1 PROVE f[n + 1 + 1] = g[n + 1]
    OBVIOUS
  <2>2. /\ f[n + 1] = g[n] /\ n + 1 + 1 \in 1 .. N /\ n + 1 \in 1 .. N - 1 /\ n + 1 \in 1 .. Len(rest)
        /\ (n + 1) - 1 = n /\ (n + 1 + 1) - 1 = n + 1
    BY <1>1, <1>6, <2>1
  <2>3. f[n + 1 + 1] = PriceWith(p, f[n + 1], messages[n + 1 + 1])
    BY <1>3, <2>2 DEF IsAfter
  <2>4. g[n + 1] = PriceWith(p, g[n], rest[n + 1])
    BY <1>4, <2>2 DEF IsAfter
  <2> QED BY <1>1, <2>2, <2>3, <2>4
<1> HIDE DEF P
<1>7. Nat \subseteq P
  BY <1>5, <1>6, NatSetInduction
<1>8. f[N] = g[N - 1]
  <2>1. N - 1 \in Nat /\ N - 1 + 1 = N
    BY <1>1
  <2> QED BY <1>7, <2>1 DEF P
<1> QED BY <1>1, <1>3, <1>4, <1>8 DEF rest, first

\* Without messages a line keeps its price.
LEMMA AfterNone ==
  ASSUME NEW p, NEW shown \in Prices
  PROVE  PriceAfter(p, shown, <<>>) = shown
<1> DEFINE none == <<>>
<1>1. none \in Seq(Messages) /\ Len(none) = 0
  OBVIOUS
<1> HIDE DEF none
<1>2. PICK f : IsAfter(f, p, shown, none) /\ PriceAfter(p, shown, none) = f[Len(none)]
  BY <1>1, AfterExists
<1> QED BY <1>1, <1>2 DEF IsAfter, none

---------------------------------------------------------------------------
(***************************************************************************)
(* Prices arrive as long as nobody but one editor and restarts interferes. *)
(***************************************************************************)
OneEditor == \A d, e \in Editors : d = e

\* The handler has dealt with the basket of u for the message it handles.
Handled(u) == baskets[u] # NoBasket /\ u \notin unvisited /\ (copy = Basket!NoCopy \/ copy.user # u)

\* The lines of these baskets show no price the message would change.
HandledIsDone ==
    basketPc # "idle" =>
        \A u \in Users : Handled(u) =>
            \A p \in DOMAIN baskets[u] :
                PriceWith(p, baskets[u][p].price, Head(queue)) = baskets[u][p].price

OnlyRealChanges ==
    /\ ordering = {}
    /\ \A i \in DOMAIN queue : /\ queue[i].type = "ProductPriceChanged"
                                /\ queue[i].content.old # queue[i].content.new

\* An editor who has not saved knows the price; who has not published changed it.
EditorKnowsPrice ==
    /\ \A p \in Products : price[p] # Deleted
    /\ \A e \in Editors :
          /\ edit[e].stage = "save" => price[edit[e].product] = edit[e].old
          /\ edit[e].stage = "publish" => edit[e].old # edit[e].new

CopyIsBasket ==
    /\ copy # Basket!NoCopy => copy.basket = baskets[copy.user]
    /\ basketPc = "ack" => unvisited = {} /\ copy = Basket!NoCopy

\* What is under way brings every line to the price in the catalog.
LinesCatchUp ==
    \A u \in Users :
        baskets[u] # NoBasket =>
            \A p \in DOMAIN baskets[u] :
                PriceAfter(p, baskets[u][p].price, PendingMessages) = price[p]

Quiet == OnlyRealChanges /\ EditorKnowsPrice /\ CopyIsBasket /\ HandledIsDone /\ LinesCatchUp

QuietInv == ~Disturbed => Quiet

\* What a basket holds are prices of products.
LEMMA LineFacts ==
  ASSUME NEW b \in Basket!Baskets, NEW p \in DOMAIN b
  PROVE  p \in Products /\ b[p].price \in Prices
BY DEF Basket!Baskets, Basket!Lines

\* The messages under way, with one editor.
LEMMA PendingFacts ==
  ASSUME TypeInv, OneEditor
  PROVE  /\ PendingMessages \in Seq(Messages)
         /\ (\A e \in Editors : edit[e].stage # "publish") => PendingMessages = queue
         /\ \A e \in Editors : edit[e].stage = "publish" =>
               /\ PriceChanged(Catalog!Change(e)) \in Messages
               /\ PendingMessages = Append(queue, PriceChanged(Catalog!Change(e)))
<1>1. queue \in Seq(Messages)
  BY DEF TypeInv, ShoppingTypeOK
<1> DEFINE saved == {e \in Editors : edit[e].stage = "publish"}
<1>2. ASSUME \A e \in Editors : edit[e].stage # "publish"
      PROVE  PendingMessages = queue
  <2>1. saved = {}
    BY <1>2
  <2>2. queue \o <<>> = queue
    BY <1>1
  <2> QED BY <2>1, <2>2 DEF PendingMessages
<1>3. ASSUME NEW e \in Editors, edit[e].stage = "publish"
      PROVE  /\ PriceChanged(Catalog!Change(e)) \in Messages
             /\ PendingMessages = Append(queue, PriceChanged(Catalog!Change(e)))
  <2>1. edit[e] \in Catalog!Edits
    BY <1>3 DEF TypeInv, ShoppingTypeOK, Catalog!ProductsTypeOK, Catalog!Idle
  <2>2. Catalog!Change(e) \in Catalog!PriceChanges
    BY <2>1 DEF Catalog!Edits, Catalog!Change, Catalog!PriceChanges
  <2>3. PriceChanged(Catalog!Change(e)) \in Messages
    BY <2>2 DEF PriceChanged, Messages
  <2>4. saved # {} /\ (CHOOSE x \in saved : TRUE) = e
    BY <1>3 DEF OneEditor
  <2>5. PendingMessages = queue \o <<PriceChanged(Catalog!Change(CHOOSE x \in saved : TRUE))>>
    BY <2>4 DEF PendingMessages
  <2>6. PendingMessages = queue \o <<PriceChanged(Catalog!Change(e))>>
    BY <2>4, <2>5, Zenon
  <2> HIDE DEF saved
  <2>7. queue \o <<PriceChanged(Catalog!Change(e))>> = Append(queue, PriceChanged(Catalog!Change(e)))
    BY <1>1, <2>3
  <2> QED BY <2>3, <2>6, <2>7
<1>4. PendingMessages \in Seq(Messages)
  <2>1. CASE \E e \in Editors : edit[e].stage = "publish"
    BY <1>1, <1>3, <2>1
  <2>2. CASE \A e \in Editors : edit[e].stage # "publish"
    BY <1>1, <1>2, <2>2
  <2> QED BY <2>1, <2>2
<1> QED BY <1>2, <1>3, <1>4

PendingKnown ==
    /\ (\A e \in Editors : edit[e].stage # "publish") => PendingMessages = queue
    /\ \A e \in Editors : edit[e].stage = "publish" =>
          /\ PriceChanged(Catalog!Change(e)) \in Messages
          /\ PendingMessages = Append(queue, PriceChanged(Catalog!Change(e)))

LEMMA PendingIsKnown == TypeInv /\ OneEditor => PendingKnown
BY PendingFacts DEF PendingKnown

LEMMA PendingIsKnownNext == TypeInv' /\ OneEditor' => PendingKnown'
BY PendingIsKnown, PTL

LEMMA PendingStaysKnown ==
  ASSUME TypeInv', OneEditor
  PROVE  /\ (\A e \in Editors : edit'[e].stage # "publish") => PendingMessages' = queue'
         /\ \A e \in Editors : edit'[e].stage = "publish" =>
               /\ PriceChanged(Catalog!Change(e))' \in Messages
               /\ PendingMessages' = Append(queue', PriceChanged(Catalog!Change(e))')
<1>1. OneEditor'
  BY DEF OneEditor
<1> QED BY <1>1, PendingIsKnownNext DEF PendingKnown

LEMMA QuietInit == ASSUME OneEditor PROVE ShoppingInit => QuietInv
<1> SUFFICES ASSUME ShoppingInit PROVE Quiet
  BY DEF QuietInv
<1> USE DEF ShoppingInit
<1>1. TypeInv
  BY ShoppingTypeInit
<1>2. queue = <<>> /\ PendingMessages = <<>>
  BY <1>1, PendingFacts DEF Catalog!ProductsInit, Catalog!Idle
<1>3. OnlyRealChanges /\ EditorKnowsPrice /\ CopyIsBasket /\ HandledIsDone
  BY ShoppingAssumption DEF OnlyRealChanges, EditorKnowsPrice, CopyIsBasket, HandledIsDone,
     Catalog!ProductsInit, Catalog!Idle, Basket!BasketsInit
<1>4. ASSUME NEW u \in Users, baskets[u] # NoBasket, NEW p \in DOMAIN baskets[u]
      PROVE  PriceAfter(p, baskets[u][p].price, PendingMessages) = price[p]
  <2>1. baskets[u][p].price = price[p] /\ p \in Products
    BY <1>4 DEF Basket!BasketsInit
  <2>2. price[p] \in Prices
    BY <2>1 DEF Catalog!ProductsInit
  <2> QED BY <1>2, <2>1, <2>2, AfterNone
<1> QED BY <1>3, <1>4 DEF Quiet, LinesCatchUp

\* A call that has begun is never new again.
LEMMA CallGoesOn ==
  ASSUME TypeInv, NEW c \in Calls, CallSteps(c) \/ UserChecksOut(c)
  PROVE  call'[c].stage # "new"
<1>1. c \in DOMAIN call
  BY DEF TypeInv, ShoppingTypeOK, Basket!BasketsTypeOK
<1>2. ASSUME NEW u, NEW p, NEW x,
             \/ Basket!AddBasketItem(c, u, p, x) \/ Basket!UpdateQuantities(c, u, p)
             \/ Basket!DeleteBasket(c, u) \/ Basket!Checkout(c, u)
      PROVE  call'[c].stage # "new"
  BY <1>1, <1>2 DEF Basket!AddBasketItem, Basket!UpdateQuantities, Basket!DeleteBasket,
     Basket!Checkout, Basket!Open, Basket!DoneCall
<1>3. ASSUME NEW u, NEW p, Basket!UpdateAllBasket(c, u, p)
      PROVE  call'[c].stage # "new"
  BY <1>1, <1>3 DEF Basket!UpdateAllBasket, Basket!Open
<1>4. ASSUME NEW x, Basket!GetCatalogItems(c, x)
      PROVE  call'[c].stage # "new"
  BY <1>1, <1>4 DEF Basket!GetCatalogItems, Basket!Open
<1>5. CASE Basket!GetCurrentBasket(c)
  BY <1>1, <1>5 DEF Basket!GetCurrentBasket, Basket!Open
<1>6. CASE Basket!UpdateBasket(c) \/ Basket!UpdateBasketFails(c)
  BY <1>1, <1>6 DEF Basket!UpdateBasket, Basket!UpdateBasketFails, Basket!DoneCall
<1> QED BY <1>2, <1>3, <1>4, <1>5, <1>6 DEF CallSteps, UserChecksOut

\* Who interferes is found out.
LEMMA DisturbedStays ==
  ASSUME TypeInv, [ShoppingNext]_shoppingVars, ~Disturbed'
  PROVE  ~Disturbed /\ UNCHANGED <<failures, deletes, call>>
<1>1. /\ failures \in Nat /\ deletes \in Nat /\ failures' \in Nat /\ deletes' \in Nat
      /\ call \in [Calls -> Basket!OpenCalls \cup {Basket!NewCall, Basket!DoneCall}]
  BY ShoppingTypeNext, ShoppingAssumption DEF TypeInv, ShoppingTypeOK, Basket!BasketsTypeOK
<1>2. failures' = failures \/ failures' = failures + 1
  BY DEF ShoppingNext, EditorReads, EditorSaves, EditorPublishes, PublishingFails, ProductIsDeleted,
     CallSteps, UserChecksOut, OrderStarts, PriceHandlerSteps, BasketIsDeleted, HandlerFails,
     MessageAcknowledged, MessageDiscarded, BasketSubscribes, BasketRestarts, bounds, shoppingVars
<1>3. deletes' = deletes \/ deletes' = deletes + 1
  BY DEF ShoppingNext, EditorReads, EditorSaves, EditorPublishes, PublishingFails, ProductIsDeleted,
     CallSteps, UserChecksOut, OrderStarts, PriceHandlerSteps, BasketIsDeleted, HandlerFails,
     MessageAcknowledged, MessageDiscarded, BasketSubscribes, BasketRestarts, bounds, shoppingVars
<1>5. ASSUME NEW c \in Calls, CallSteps(c) \/ UserChecksOut(c) PROVE FALSE
  <2>1. call'[c].stage # "new"
    BY <1>5, CallGoesOn
  <2>2. call'[c] = Basket!NewCall
    BY DEF Disturbed
  <2> QED BY <2>1, <2>2 DEF Basket!NewCall
<1>6. call' = call
  BY <1>5 DEF ShoppingNext, EditorReads, EditorSaves, EditorPublishes, PublishingFails, ProductIsDeleted,
     OrderStarts, PriceHandlerSteps, BasketIsDeleted, HandlerFails, MessageAcknowledged,
     MessageDiscarded, BasketSubscribes, BasketRestarts, basket, shoppingVars, Basket!GetUsers,
     Basket!GetBasket, Basket!WriteBasket, Basket!EndVisit, Basket!HandleOrderStarted,
     Basket!HandlerThrows, Basket!BasketAcknowledges, Basket!BasketDiscards, Basket!basketsVars,
     Basket!BasketSubscribes, Basket!BasketRestarts
<1> QED BY <1>1, <1>2, <1>3, <1>6 DEF Disturbed

\* What may still happen then.
LEMMA QuietSteps ==
  ASSUME TypeInv, OnlyRealChanges, [ShoppingNext]_shoppingVars, ~Disturbed'
  PROVE  \/ \E e \in Editors : EditorReads(e) \/ EditorSaves(e) \/ EditorPublishes(e)
         \/ PriceHandlerSteps \/ MessageAcknowledged \/ BasketSubscribes \/ BasketRestarts
         \/ UNCHANGED shoppingVars
<1>1. UNCHANGED <<failures, deletes, call>> /\ failures \in Nat /\ deletes \in Nat
  BY DisturbedStays, ShoppingAssumption DEF TypeInv, ShoppingTypeOK
<1>2. /\ ~ProductIsDeleted /\ ~HandlerFails
      /\ \A e \in Editors : ~PublishingFails(e)
  BY <1>1 DEF ProductIsDeleted, HandlerFails, PublishingFails
<1>3. \A u \in Users : ~OrderStarts(u)
  BY DEF OnlyRealChanges, OrderStarts
<1>4. queue # <<>> => Head(queue).type = "ProductPriceChanged"
  <2>1. queue \in Seq(Messages)
    BY DEF TypeInv, ShoppingTypeOK
  <2>2. queue # <<>> => 1 \in DOMAIN queue /\ Head(queue) = queue[1]
    BY <2>1
  <2> QED BY <2>2 DEF OnlyRealChanges
<1>5. ~BasketIsDeleted
  BY <1>4 DEF BasketIsDeleted, Handles
<1>6. ~MessageDiscarded
  <2>1. attached \in Nat
    BY DEF TypeInv, ShoppingTypeOK, Basket!BasketsTypeOK, Basket!BasketSubscriptions
  <2>2. attached > 0 => Basket!Attached("ProductPriceChanged")
    BY <2>1 DEF Basket!Attached, Basket!BasketSubscriptions
  <2> QED BY <1>4, <2>2 DEF MessageDiscarded, Basket!BasketDiscards
<1>7. \A c \in Calls : ~CallSteps(c) /\ ~UserChecksOut(c)
  <2> SUFFICES ASSUME NEW c \in Calls, CallSteps(c) \/ UserChecksOut(c) PROVE FALSE
    OBVIOUS
  <2>1. call'[c] = Basket!NewCall
    BY DEF Disturbed
  <2> QED BY <2>1, CallGoesOn DEF Basket!NewCall
<1> QED BY <1>2, <1>3, <1>5, <1>6, <1>7 DEF ShoppingNext

LEMMA QuietEditors ==
  ASSUME TypeInv, TypeInv', OneEditor, Quiet, NEW e \in Editors,
         EditorReads(e) \/ EditorSaves(e) \/ EditorPublishes(e)
  PROVE  Quiet'
<1> USE DEF Quiet
<1>0. /\ UNCHANGED <<baskets, basketPc, unvisited, copy, ordering>>
      /\ edit \in [Editors -> Catalog!Edits \cup {Catalog!Idle}]
      /\ price \in [Products -> Prices \cup {Deleted}] /\ queue \in Seq(Messages)
      /\ \A d \in Editors : d = e
      /\ baskets \in [Users -> Basket!Baskets \cup {NoBasket}]
  BY DEF EditorReads, EditorSaves, EditorPublishes, basket, TypeInv, ShoppingTypeOK,
     Catalog!ProductsTypeOK, OneEditor, Basket!BasketsTypeOK
<1>1. CASE EditorReads(e)
  <2>1. PICK p \in Products, new \in Prices : Catalog!ReadProduct(e, p, new)
    BY <1>1 DEF EditorReads
  <2>2. /\ edit[e] = Catalog!Idle
        /\ edit'[e] = [stage |-> "save", product |-> p, old |-> price[p], new |-> new]
        /\ price' = price /\ queue' = queue
    BY <1>0, <1>1, <2>1 DEF Catalog!ReadProduct, EditorReads
  <2>3. PendingMessages = queue /\ PendingMessages' = queue'
    <3>1. \A d \in Editors : edit[d].stage # "publish" /\ edit'[d].stage # "publish"
      BY <1>0, <2>2 DEF Catalog!Idle
    <3> QED BY <3>1, PendingFacts, PendingStaysKnown
  <2>4. EditorKnowsPrice'
    BY <1>0, <2>2 DEF EditorKnowsPrice
  <2> QED BY <1>0, <2>2, <2>3, <2>4 DEF OnlyRealChanges, CopyIsBasket, HandledIsDone, Handled, LinesCatchUp
<1>2. CASE EditorSaves(e)
  <2>1. queue' = queue
    BY <1>2 DEF EditorSaves
  <2> DEFINE p == edit[e].product
             m == PriceChanged(Catalog!Change(e))
  <2>2. /\ edit[e].stage = "save" /\ edit[e] \in Catalog!Edits /\ p \in Products
        /\ price[p] = edit[e].old /\ edit[e].new \in Prices
    BY <1>0, <1>2, ShoppingAssumption DEF EditorSaves, Catalog!SavePriceChange, Catalog!SaveProduct,
       Catalog!SaveFails, Catalog!Saving, Catalog!Idle, Catalog!Edits, EditorKnowsPrice
  <2>3. PendingMessages = queue
    BY <1>0, <2>2, PendingFacts
  <2>4. CASE Catalog!SavePriceChange(e)
    <3>1. /\ edit'[e] = [edit[e] EXCEPT !.stage = "publish"] /\ edit[e].old # edit[e].new
          /\ price' = [price EXCEPT ![p] = edit[e].new]
      BY <1>0, <2>4 DEF Catalog!SavePriceChange
    <3>2. /\ edit'[e].stage = "publish" /\ edit'[e].product = p
          /\ edit'[e].old = edit[e].old /\ edit'[e].new = edit[e].new
      BY <2>2, <3>1 DEF Catalog!Edits
    <3>3. Catalog!Change(e)' = Catalog!Change(e)
      BY <3>2 DEF Catalog!Change
    <3>4. PriceChanged(Catalog!Change(e))' = m /\ m \in Messages /\ PendingMessages' = Append(queue, m)
      BY <2>1, <3>2, <3>3, PendingStaysKnown DEF PriceChanged
    <3>5. EditorKnowsPrice'
      BY <1>0, <2>2, <3>1, <3>2, ShoppingAssumption DEF EditorKnowsPrice
    <3>6. ASSUME NEW u \in Users, baskets[u] # NoBasket, NEW q \in DOMAIN baskets[u]
          PROVE  PriceAfter(q, baskets[u][q].price, PendingMessages') = price'[q]
      <4> DEFINE x == baskets[u][q].price
      <4>1. q \in Products /\ x \in Prices
        BY <1>0, <3>6, LineFacts
      <4>2. PriceAfter(q, x, queue) = price[q]
        BY <2>3, <3>6 DEF LinesCatchUp
      <4>3. PriceAfter(q, x, PendingMessages') = PriceWith(q, price[q], m)
        BY <1>0, <3>4, <4>1, <4>2, AfterOneMore
      <4>4. m.type = "ProductPriceChanged" /\ m.content.product = p
            /\ m.content.old = edit[e].old /\ m.content.new = edit[e].new
        BY DEF PriceChanged, Catalog!Change
      <4>5. PriceWith(q, price[q], m) = price'[q]
        BY <1>0, <2>2, <3>1, <4>1, <4>4 DEF PriceWith
      <4> QED BY <4>3, <4>5
    <3> QED BY <1>0, <2>1, <3>5, <3>6 DEF OnlyRealChanges, CopyIsBasket, HandledIsDone, Handled, LinesCatchUp
  <2>5. CASE Catalog!SaveProduct(e) \/ Catalog!SaveFails(e)
    <3>1. edit'[e] = Catalog!Idle /\ price' = price
      BY <1>0, <2>2, <2>5 DEF Catalog!SaveProduct, Catalog!SaveFails
    <3>2. PendingMessages' = queue
      <4>1. \A d \in Editors : edit'[d].stage # "publish"
        BY <1>0, <3>1 DEF Catalog!Idle
      <4> QED BY <2>1, <4>1, PendingStaysKnown
    <3>3. EditorKnowsPrice'
      BY <1>0, <3>1 DEF EditorKnowsPrice, Catalog!Idle
    <3> QED BY <1>0, <2>1, <2>3, <3>1, <3>2, <3>3
        DEF OnlyRealChanges, CopyIsBasket, HandledIsDone, Handled, LinesCatchUp
  <2> QED BY <1>2, <2>4, <2>5 DEF EditorSaves
<1>3. CASE EditorPublishes(e)
  <2> DEFINE m == PriceChanged(Catalog!Change(e))
  <2>1. /\ edit[e].stage = "publish" /\ edit'[e] = Catalog!Idle /\ price' = price
        /\ queue' = Append(queue, m)
    BY <1>0, <1>3 DEF EditorPublishes, Catalog!PublishPriceChanged
  <2>2. m \in Messages /\ PendingMessages = queue'
    BY <2>1, PendingFacts
  <2>3. PendingMessages' = queue'
    <3>1. \A d \in Editors : edit'[d].stage # "publish"
      BY <1>0, <2>1 DEF Catalog!Idle
    <3> QED BY <3>1, PendingStaysKnown
  <2>4. m.type = "ProductPriceChanged" /\ m.content.old # m.content.new
    BY <2>1 DEF PriceChanged, Catalog!Change, EditorKnowsPrice
  <2>5. OnlyRealChanges'
    <3>1. \A i \in DOMAIN queue' : queue'[i] = m \/ (i \in DOMAIN queue /\ queue'[i] = queue[i])
      <4> HIDE DEF m
      <4> QED BY <1>0, <2>1, <2>2
    <3> QED BY <1>0, <2>4, <3>1 DEF OnlyRealChanges
  <2>6. EditorKnowsPrice'
    BY <1>0, <2>1 DEF EditorKnowsPrice, Catalog!Idle
  <2>7. HandledIsDone'
    <3>1. basketPc # "idle" => Head(queue') = Head(queue)
      <4>1. basketPc # "idle" => queue # <<>>
        BY DEF TypeInv, HandledIsQueued
      <4> HIDE DEF m
      <4> QED BY <1>0, <2>1, <2>2, <4>1
    <3> QED BY <1>0, <3>1 DEF HandledIsDone, Handled
  <2> QED BY <1>0, <2>1, <2>2, <2>3, <2>5, <2>6, <2>7 DEF CopyIsBasket, LinesCatchUp
<1> QED BY <1>1, <1>2, <1>3

LEMMA PendingHead ==
  ASSUME TypeInv, OneEditor, queue # <<>>
  PROVE  PendingMessages # <<>> /\ Head(PendingMessages) = Head(queue)
<1>1. queue \in Seq(Messages)
  BY DEF TypeInv, ShoppingTypeOK
<1>2. CASE \A e \in Editors : edit[e].stage # "publish"
  BY <1>2, PendingFacts
<1>3. ASSUME NEW m \in Messages, PendingMessages = Append(queue, m)
      PROVE  PendingMessages # <<>> /\ Head(PendingMessages) = Head(queue)
  <2>1. Append(queue, m) # <<>> /\ Head(Append(queue, m)) = Head(queue)
    BY <1>1
  <2> QED BY <1>3, <2>1
<1> QED BY <1>2, <1>3, PendingFacts

LEMMA PendingShrinks ==
  ASSUME TypeInv, TypeInv', OneEditor, edit' = edit, queue # <<>>, queue' = Tail(queue)
  PROVE  /\ PendingMessages # <<>>
         /\ Head(PendingMessages) = Head(queue)
         /\ Tail(PendingMessages) = PendingMessages'
<1>1. queue \in Seq(Messages)
  BY DEF TypeInv, ShoppingTypeOK
<1>2. CASE \A e \in Editors : edit[e].stage # "publish"
  BY <1>2, PendingFacts, PendingStaysKnown
<1>3. ASSUME NEW e \in Editors, edit[e].stage = "publish"
      PROVE  /\ PendingMessages # <<>>
             /\ Head(PendingMessages) = Head(queue)
             /\ Tail(PendingMessages) = PendingMessages'
  <2> DEFINE m == PriceChanged(Catalog!Change(e))
  <2>1. m \in Messages /\ PendingMessages = Append(queue, m)
    BY <1>3, PendingFacts
  <2>2. PriceChanged(Catalog!Change(e))' = m
    BY DEF PriceChanged, Catalog!Change
  <2>3. PendingMessages' = Append(Tail(queue), m)
    BY <1>3, <2>2, PendingStaysKnown
  <2> HIDE DEF m
  <2>4. /\ Append(queue, m) # <<>>
        /\ Head(Append(queue, m)) = Head(queue)
    BY <1>1, <2>1
  <2>5. Tail(Append(queue, m)) = Append(Tail(queue), m)
    BY <1>1, <2>1
  <2> QED BY <2>1, <2>3, <2>4, <2>5
<1> QED BY <1>2, <1>3

\* A message that has had its effect on a line has no other.
LEMMA EffectIsOnce ==
  ASSUME NEW p, NEW x, NEW m, m.content.old # m.content.new
  PROVE  PriceWith(p, PriceWith(p, x, m), m) = PriceWith(p, x, m)
BY DEF PriceWith

LEMMA QuietBasket ==
  ASSUME TypeInv, TypeInv', OneEditor, Quiet,
         PriceHandlerSteps \/ MessageAcknowledged \/ BasketSubscribes \/ BasketRestarts
  PROVE  Quiet'
<1> USE DEF Quiet
<1>0. /\ UNCHANGED <<price, edit, log, ordering>>
      /\ queue \in Seq(Messages)
      /\ baskets \in [Users -> Basket!Baskets \cup {NoBasket}]
      /\ copy \in Basket!Copies \cup {Basket!NoCopy}
      /\ basketPc # "idle" => queue # <<>>
  BY DEF PriceHandlerSteps, MessageAcknowledged, BasketSubscribes, BasketRestarts, catalog,
     TypeInv, ShoppingTypeOK, Basket!BasketsTypeOK, HandledIsQueued
<1>1. EditorKnowsPrice'
  BY <1>0 DEF EditorKnowsPrice
<1>2. queue' = queue => OnlyRealChanges' /\ PendingMessages' = PendingMessages
  BY <1>0 DEF OnlyRealChanges, PendingMessages, Catalog!Change
<1>3. queue' = queue /\ baskets' = baskets => LinesCatchUp'
  BY <1>0, <1>2 DEF LinesCatchUp
<1>4. CASE PriceHandlerSteps /\ Basket!GetUsers
  BY <1>1, <1>2, <1>3, <1>4
  DEF PriceHandlerSteps, Basket!GetUsers, CopyIsBasket, HandledIsDone, Handled
<1>5. ASSUME PriceHandlerSteps, NEW u \in Users, Basket!GetBasket(u)
      PROVE  Quiet'
  <2>1. queue' = queue /\ baskets' = baskets /\ basketPc' = basketPc /\ basketPc = "visit"
    BY <1>5 DEF PriceHandlerSteps, Basket!GetBasket
  <2>2. copy = Basket!NoCopy /\ unvisited' = unvisited \ {u}
    BY <1>5 DEF Basket!GetBasket
  <2>3. \/ baskets[u] = NoBasket /\ copy' = Basket!NoCopy
        \/ baskets[u] # NoBasket /\ copy' = [user |-> u, basket |-> baskets[u]]
    BY <1>5 DEF Basket!GetBasket
  <2>4. CopyIsBasket'
    BY <2>1, <2>3 DEF CopyIsBasket
  <2>5. ASSUME NEW v \in Users, Handled(v)' PROVE Handled(v)
    <3>1. v # u
      <4> SUFFICES ASSUME v = u PROVE FALSE
        OBVIOUS
      <4>1. copy' = [user |-> u, basket |-> baskets[u]]
        BY <2>1, <2>3, <2>5 DEF Handled
      <4>2. copy' # Basket!NoCopy
        <5>1. DOMAIN copy' = {"user", "basket"} /\ DOMAIN Basket!NoCopy = {"user"}
          BY <4>1 DEF Basket!NoCopy
        <5> QED BY <5>1
      <4> QED BY <2>5, <4>1, <4>2 DEF Handled
    <3> QED BY <2>1, <2>2, <2>5, <3>1 DEF Handled
  <2>6. HandledIsDone'
    BY <2>1, <2>5 DEF HandledIsDone
  <2> QED BY <1>1, <1>2, <1>3, <2>1, <2>4, <2>6
<1>6. CASE PriceHandlerSteps /\ Basket!WriteBasket(Head(queue).content)
  <2> DEFINE u == copy.user
             m == Head(queue)
  <2>1. /\ queue' = queue /\ basketPc' = basketPc /\ basketPc = "visit" /\ copy # Basket!NoCopy
        /\ copy' = Basket!NoCopy /\ unvisited' = unvisited
        /\ baskets' = [baskets EXCEPT ![u] = Basket!UpdatePriceInBasketItems(copy.basket, m.content)]
    BY <1>6 DEF PriceHandlerSteps, Basket!WriteBasket
  <2>2. u \in Users /\ copy.basket = baskets[u] /\ baskets[u] \in Basket!Baskets /\ baskets[u] # NoBasket
    BY <1>0, <2>1, ShoppingAssumption DEF Basket!Copies, CopyIsBasket
  <2>3. queue # <<>> /\ m \in Messages /\ m.type = "ProductPriceChanged" /\ m.content.old # m.content.new
    <3>1. queue # <<>> /\ 1 \in DOMAIN queue /\ m = queue[1]
      BY <1>0, <1>6 DEF PriceHandlerSteps, Handles
    <3> QED BY <1>0, <3>1 DEF OnlyRealChanges
  <2>4. /\ DOMAIN baskets'[u] = DOMAIN baskets[u]
        /\ \A p \in DOMAIN baskets[u] :
              baskets'[u][p].price = PriceWith(p, baskets[u][p].price, m)
    <3>1. baskets'[u] = Basket!UpdatePriceInBasketItems(baskets[u], m.content)
      BY <1>0, <2>1, <2>2
    <3> HIDE DEF u, m
    <3> QED BY <2>3, <3>1 DEF Basket!UpdatePriceInBasketItems, PriceWith
  <2>5. \A v \in Users : v # u => baskets'[v] = baskets[v]
    BY <1>0, <2>1
  <2> HIDE DEF u, m
  <2>6. CopyIsBasket'
    BY <2>1 DEF CopyIsBasket
  <2>7. ASSUME NEW v \in Users, Handled(v)', NEW p \in DOMAIN baskets'[v]
        PROVE  PriceWith(p, baskets'[v][p].price, m) = baskets'[v][p].price
    <3>1. CASE v = u
      BY <2>3, <2>4, <2>7, <3>1, EffectIsOnce
    <3>2. CASE v # u
      <4>1. Handled(v) /\ baskets'[v] = baskets[v]
        BY <2>1, <2>5, <2>7, <3>2 DEF Handled, u
      <4> QED BY <2>1, <2>7, <4>1 DEF HandledIsDone, m
    <3> QED BY <3>1, <3>2
  <2>8. HandledIsDone'
    BY <2>1, <2>7 DEF HandledIsDone, m
  <2>9. ASSUME NEW p \in DOMAIN baskets[u]
        PROVE  PriceAfter(p, baskets'[u][p].price, PendingMessages) = price[p]
    <3> DEFINE x == baskets[u][p].price
               y == PriceWith(p, x, m)
    <3>1. x \in Prices /\ y \in Prices
      BY <2>2, <2>3, LineFacts, PriceWithType
    <3>2. PendingMessages \in Seq(Messages) /\ PendingMessages # <<>> /\ Head(PendingMessages) = m
      BY <2>3, PendingFacts, PendingHead DEF m
    <3>3. PriceWith(p, y, m) = y
      BY <2>3, EffectIsOnce
    <3>4. PriceAfter(p, x, PendingMessages) = price[p]
      BY <2>2 DEF LinesCatchUp
    <3> HIDE DEF x, y
    <3>5. PriceAfter(p, x, PendingMessages) = PriceAfter(p, PriceWith(p, x, m), Tail(PendingMessages))
      BY <3>1, <3>2, AfterFirst
    <3>6. PriceAfter(p, y, PendingMessages) = PriceAfter(p, PriceWith(p, y, m), Tail(PendingMessages))
      BY <3>1, <3>2, AfterFirst
    <3>7. PriceAfter(p, y, PendingMessages) = price[p]
      BY <3>3, <3>4, <3>5, <3>6 DEF y
    <3>8. baskets'[u][p].price = y
      BY <2>4 DEF x, y
    <3> QED BY <3>7, <3>8
  <2>10. LinesCatchUp'
    <3> SUFFICES ASSUME NEW v \in Users, baskets'[v] # NoBasket, NEW p \in DOMAIN baskets'[v]
                 PROVE  PriceAfter(p, baskets'[v][p].price, PendingMessages') = price'[p]
      BY DEF LinesCatchUp
    <3>1. CASE v = u
      BY <1>0, <1>2, <2>1, <2>4, <2>9, <3>1
    <3>2. CASE v # u
      BY <1>0, <1>2, <2>1, <2>5, <3>2 DEF LinesCatchUp
    <3> QED BY <3>1, <3>2
  <2> QED BY <1>1, <1>2, <2>1, <2>6, <2>8, <2>10
<1>7. CASE PriceHandlerSteps /\ Basket!EndVisit
  BY <1>1, <1>2, <1>3, <1>7
  DEF PriceHandlerSteps, Basket!EndVisit, CopyIsBasket, HandledIsDone, Handled
<1>8. CASE MessageAcknowledged
  <2>1. /\ queue # <<>> /\ queue' = Tail(queue) /\ basketPc = "ack" /\ basketPc' = "idle"
        /\ UNCHANGED <<baskets, unvisited, copy>> /\ unvisited = {} /\ copy = Basket!NoCopy
    BY <1>0, <1>8 DEF MessageAcknowledged, Basket!BasketAcknowledges, CopyIsBasket
  <2>2. OnlyRealChanges'
    <3>1. \A i \in DOMAIN queue' : \E j \in DOMAIN queue : queue'[i] = queue[j]
      BY <1>0, <2>1
    <3> QED BY <1>0, <3>1 DEF OnlyRealChanges
  <2>3. CopyIsBasket' /\ HandledIsDone'
    BY <2>1 DEF CopyIsBasket, HandledIsDone
  <2>4. ASSUME NEW u \in Users, baskets[u] # NoBasket, NEW p \in DOMAIN baskets[u]
        PROVE  PriceAfter(p, baskets[u][p].price, PendingMessages') = price[p]
    <3> DEFINE x == baskets[u][p].price
    <3>1. x \in Prices
      BY <1>0, <2>4, LineFacts
    <3>2. PriceWith(p, x, Head(queue)) = x
      BY <2>1, <2>4 DEF HandledIsDone, Handled
    <3>3. PriceAfter(p, x, PendingMessages) = price[p]
      BY <2>4 DEF LinesCatchUp
    <3>4. /\ PendingMessages \in Seq(Messages) /\ PendingMessages # <<>>
          /\ Head(PendingMessages) = Head(queue) /\ Tail(PendingMessages) = PendingMessages'
      BY <1>0, <2>1, PendingFacts, PendingShrinks
    <3> HIDE DEF x
    <3>5. PriceAfter(p, x, PendingMessages)
              = PriceAfter(p, PriceWith(p, x, Head(PendingMessages)), Tail(PendingMessages))
      BY <3>1, <3>4, AfterFirst
    <3> QED BY <3>2, <3>3, <3>4, <3>5 DEF x
  <2>5. LinesCatchUp'
    BY <1>0, <2>1, <2>4 DEF LinesCatchUp
  <2> QED BY <1>1, <2>2, <2>3, <2>5
<1>9. CASE BasketSubscribes
  BY <1>1, <1>2, <1>3, <1>9
  DEF BasketSubscribes, Basket!BasketSubscribes, CopyIsBasket, HandledIsDone, Handled
<1>10. CASE BasketRestarts
  BY <1>1, <1>2, <1>3, <1>10
  DEF BasketRestarts, Basket!BasketRestarts, CopyIsBasket, HandledIsDone
<1> QED BY <1>4, <1>5, <1>6, <1>7, <1>8, <1>9, <1>10 DEF PriceHandlerSteps

LEMMA QuietNext ==
  ASSUME OneEditor
  PROVE  TypeInv /\ TypeInv' /\ QuietInv /\ [ShoppingNext]_shoppingVars => QuietInv'
<1> SUFFICES ASSUME TypeInv, TypeInv', QuietInv, [ShoppingNext]_shoppingVars, ~Disturbed'
             PROVE  Quiet'
  BY DEF QuietInv
<1>1. Quiet
  BY DisturbedStays DEF QuietInv
<1>2. CASE UNCHANGED shoppingVars
  BY <1>1, <1>2 DEF shoppingVars, catalog, basket, Quiet, OnlyRealChanges, EditorKnowsPrice, CopyIsBasket,
     HandledIsDone, Handled, LinesCatchUp, PendingMessages, Catalog!Change
<1> QED BY <1>1, <1>2, QuietSteps, QuietEditors, QuietBasket DEF Quiet

\* With one editor, and as long as every publication and every handler succeeds, nobody
\* deletes a product and no user calls: the messages under way bring every line to the
\* price in the catalog, whatever Basket.API handles again after its restarts.
THEOREM PricesCatchUpCorrect ==
  ASSUME OneEditor
  PROVE  ShoppingSpec => []PricesCatchUp
<1>1. ShoppingInit => TypeInv /\ QuietInv
  BY ShoppingTypeInit, QuietInit
<1>2. TypeInv /\ QuietInv /\ [ShoppingNext]_shoppingVars => (TypeInv /\ QuietInv)'
  BY ShoppingTypeNext, QuietNext
<1>3. TypeInv /\ QuietInv => PricesCatchUp
  BY DEF QuietInv, Quiet, LinesCatchUp, PricesCatchUp
<1> QED BY <1>1, <1>2, <1>3, PTL DEF ShoppingSpec
=============================================================================
