------------------------------ MODULE Catalog ------------------------------
(***************************************************************************)
(* Catalog.API as the ordering process sees it: the handler that checks an *)
(* order's items against the stock and answers, and the handler that takes *)
(* the units of a paid order.  Nothing is reserved in between.  One        *)
(* consumer handles the messages of its queue in order.                    *)
(***************************************************************************)
EXTENDS Naturals, Sequences

CONSTANTS
    Products,
    InitialStock   \* the AvailableStock each product starts with

VARIABLES
    stock,      \* the AvailableStock column of each product, the last one if it was deleted
    deleted,    \* the products whose row is gone
    catalogPc,  \* "idle", "publish": a reply is saved, "ack": the head is handled
    reply,      \* the saved reply
    listening   \* how many Subscribe calls ConfigureEventBus has made since the start

catalogVars == <<stock, deleted, catalogPc, reply, listening>>

CatalogSubscriptions == <<"AwaitingValidation", "Paid">>

Handles(type) == \E i \in 1 .. listening : CatalogSubscriptions[i] = type

CatalogInit ==
    /\ stock = InitialStock
    /\ deleted = {}
    /\ catalogPc = "idle"
    /\ reply = "none"
    /\ listening = Len(CatalogSubscriptions)

CatalogTypeOK ==
    /\ stock \in [Products -> Nat]
    /\ deleted \subseteq Products
    /\ catalogPc \in {"idle", "publish", "ack"}
    /\ reply \in {"none", "OrderStockConfirmed", "OrderStockRejected"}
    /\ listening \in 0 .. Len(CatalogSubscriptions)

Ordered(items) == {p \in Products : items[p] > 0}

IsMissing(items) == Ordered(items) \cap deleted # {}

\* DeleteProductAsync, whatever orders there are of the product.
DeleteProduct(p) ==
    /\ p \notin deleted
    /\ deleted' = deleted \cup {p}
    /\ UNCHANGED <<stock, catalogPc, reply, listening>>

\* Takes the units already when it checks them.
CarelessValidateStock(items) ==
    /\ catalogPc = "idle"
    /\ Handles("AwaitingValidation")
    /\ ~IsMissing(items)
    /\ UNCHANGED <<deleted, listening>>
    /\ catalogPc' = "publish"
    /\ IF \A p \in Ordered(items) : stock[p] >= items[p]
       THEN /\ reply' = "OrderStockConfirmed"
            /\ stock' = [p \in Products |-> stock[p] - items[p]]
       ELSE /\ reply' = "OrderStockRejected"
            /\ UNCHANGED stock

\* Handles OrderStatusChangedToAwaitingValidation up to the commit of the reply
\* in its own IntegrationEventLog.
ValidateStock(items) ==
    /\ catalogPc = "idle"
    /\ Handles("AwaitingValidation")
    /\ ~IsMissing(items)
    /\ catalogPc' = "publish"
    /\ reply' = IF \A p \in Ordered(items) : stock[p] >= items[p]
                THEN "OrderStockConfirmed" ELSE "OrderStockRejected"
    /\ UNCHANGED <<stock, deleted, listening>>

\* Find returns null and the handler throws: the message is acknowledged, and nobody
\* answers Ordering.
CannotValidateStock(items) ==
    /\ catalogPc = "idle"
    /\ Handles("AwaitingValidation")
    /\ IsMissing(items)
    /\ catalogPc' = "ack"
    /\ UNCHANGED <<stock, deleted, reply, listening>>

PublishReply ==
    /\ catalogPc = "publish"
    /\ catalogPc' = "ack"
    /\ UNCHANGED <<stock, deleted, reply, listening>>

Removed(quantityDesired, available) ==
    IF quantityDesired <= available THEN quantityDesired ELSE available

\* Handles OrderStatusChangedToPaid.  For a product that is sold out RemoveStock throws,
\* for one that is deleted the handler does, before anything is saved; the message is
\* acknowledged anyway.
TakeStock(items) ==
    /\ catalogPc = "idle"
    /\ Handles("Paid")
    /\ catalogPc' = "ack"
    /\ stock' = IF IsMissing(items) \/ \E p \in Ordered(items) : stock[p] = 0 THEN stock
                ELSE [p \in Products |-> stock[p] - Removed(items[p], stock[p])]
    /\ UNCHANGED <<deleted, reply, listening>>

CatalogAcknowledges ==
    /\ catalogPc = "ack"
    /\ catalogPc' = "idle"
    /\ reply' = "none"
    /\ UNCHANGED <<stock, deleted, listening>>

\* The process dies and starts again with its message unacknowledged: it comes
\* again, unless it comes before its type has a handler.
CatalogRestarts ==
    /\ catalogPc' = "idle"
    /\ reply' = "none"
    /\ listening' = 0
    /\ UNCHANGED <<stock, deleted>>

CatalogSubscribes ==
    /\ listening < Len(CatalogSubscriptions)
    /\ listening' = listening + 1
    /\ UNCHANGED <<stock, deleted, catalogPc, reply>>

\* Consuming has begun with the first Subscribe; a message of a later type is
\* acknowledged unhandled.
CatalogDiscards(type) ==
    /\ catalogPc = "idle"
    /\ listening > 0
    /\ ~Handles(type)
    /\ UNCHANGED catalogVars
=============================================================================
