------------------------------ MODULE Baskets ------------------------------
(***************************************************************************)
(* Basket.API and its callers.  Redis holds a basket per user, read and    *)
(* written as a whole and without a version.  It is written by             *)
(*                                                                         *)
(*    the shopping aggregator, over gRPC: it reads the basket, changes it  *)
(*    and writes it back;                                                  *)
(*    the handler of ProductPriceChanged, which rewrites all baskets, one  *)
(*    after the other, those it does not change included;                  *)
(*    the handler of OrderStarted, which deletes the user's basket;        *)
(*                                                                         *)
(* and, left out here, by callers of its HTTP interface: the browser's     *)
(* POST, which WebSpa models, and a DELETE that no client sends.  One      *)
(* consumer runs the two handlers, one message at a time.  Of a line the   *)
(* model keeps UnitPrice and OldUnitPrice, not the quantity.               *)
(***************************************************************************)
EXTENDS Naturals, Sequences

CONSTANTS
    Users, Products, Prices,
    NoPrice,    \* OldUnitPrice of a line whose price never changed
    NoBasket,   \* no key in Redis
    Calls,      \* the calls users make, each at most once
    Operations  \* which operations they call

VARIABLES
    baskets,    \* the basket in Redis of each user
    call,       \* what each call holds
    basketPc,   \* the consumer: "idle", "visit": in the loop over users, "ack"
    unvisited,  \* the users whose baskets the loop has still to read
    copy,       \* the basket the loop has read and not yet written
    attached    \* how many Subscribe calls ConfigureEventBus has made since the start

consumer    == <<basketPc, unvisited, copy, attached>>
basketsVars == <<baskets, call, consumer>>

Lines   == [price : Prices, old : Prices \cup {NoPrice}]
Baskets == UNION {[ps -> Lines] : ps \in SUBSET Products}
Empty   == [p \in {} |-> NoPrice]

BasketSubscriptions == <<"ProductPriceChanged", "OrderStarted">>

Attached(type) == \E i \in 1 .. attached : BasketSubscriptions[i] = type

NewCall  == [stage |-> "new"]
DoneCall == [stage |-> "done"]
OpenCalls == [stage : {"quoted", "fetched", "ready"}, user : Users, product : Products,
              quote : Prices \cup {NoPrice}, held : Baskets]
NoCopy   == [user |-> "none"]
Copies   == [user : Users, basket : Baskets]

\* Every user has a basket, with a line for each of some products, or none.
BasketsInit(price) ==
    /\ baskets \in [Users -> {NoBasket} \cup
            {[p \in ps |-> [price |-> price[p], old |-> NoPrice]] : ps \in SUBSET Products}]
    /\ call      = [c \in Calls |-> NewCall]
    /\ basketPc  = "idle"
    /\ unvisited = {}
    /\ copy      = NoCopy
    /\ attached  = Len(BasketSubscriptions)

BasketsTypeOK ==
    /\ baskets \in [Users -> Baskets \cup {NoBasket}]
    /\ call \in [Calls -> OpenCalls \cup {NewCall, DoneCall}]
    /\ basketPc \in {"idle", "visit", "ack"}
    /\ unvisited \subseteq Users
    /\ copy \in Copies \cup {NoCopy}
    /\ attached \in 0 .. Len(BasketSubscriptions)

---------------------------------------------------------------------------
(***************************************************************************)
(* The calls.  unitPrice is the price Catalog answers at that moment.      *)
(***************************************************************************)
Begins(c, operation) == call[c] = NewCall /\ operation \in Operations

Open(stage, u, p, unitPrice, basket) ==
    [stage |-> stage, user |-> u, product |-> p, quote |-> unitPrice, held |-> basket]

\* The answers to a caller that asks for the basket of u: GrpcExceptionInterceptor turns
\* every failure, not only the NotFound of a user without one, into a basket without lines.
Answers(u) == {Empty} \cup ({baskets[u]} \ {NoBasket})

\* The item is read from Catalog first, the basket second.
AddBasketItem(c, u, p, unitPrice) ==
    /\ Begins(c, "AddBasketItem")
    /\ call' = [call EXCEPT ![c] = Open("quoted", u, p, unitPrice, Empty)]
    /\ UNCHANGED <<baskets, consumer>>

GetCurrentBasket(c) ==
    /\ call[c].stage = "quoted"
    /\ \E answer \in Answers(call[c].user) :
          call' = [call EXCEPT ![c] = Open("ready", @.user, @.product, @.quote, answer)]
    /\ UNCHANGED <<baskets, consumer>>

\* The other way round.
UpdateAllBasket(c, u, p) ==
    /\ Begins(c, "UpdateAllBasket")
    /\ \E answer \in Answers(u) :
          call' = [call EXCEPT ![c] = Open("fetched", u, p, NoPrice, answer)]
    /\ UNCHANGED <<baskets, consumer>>

GetCatalogItems(c, unitPrice) ==
    /\ call[c].stage = "fetched"
    /\ call' = [call EXCEPT ![c] = Open("ready", @.user, @.product, unitPrice, @.held)]
    /\ UNCHANGED <<baskets, consumer>>

\* New quantities for lines the basket has.
UpdateQuantities(c, u, p) ==
    /\ Begins(c, "UpdateQuantities")
    /\ baskets[u] # NoBasket
    /\ p \in DOMAIN baskets[u]
    /\ call' = [call EXCEPT ![c] = Open("ready", u, p, NoPrice, baskets[u])]
    /\ UNCHANGED <<baskets, consumer>>

\* What a call writes: a line it already has keeps its prices.
WithLine(basket, p, unitPrice) ==
    [q \in DOMAIN basket \cup {p} |->
        IF q \in DOMAIN basket THEN basket[q] ELSE [price |-> unitPrice, old |-> NoPrice]]

UpdateBasket(c) ==
    /\ call[c].stage = "ready"
    /\ baskets' = [baskets EXCEPT ![call[c].user] =
                       WithLine(call[c].held, call[c].product, call[c].quote)]
    /\ call' = [call EXCEPT ![c] = DoneCall]
    /\ UNCHANGED consumer

\* The interceptor hides this failure, too, and the caller answers Ok.
UpdateBasketFails(c) ==
    /\ call[c].stage = "ready"
    /\ call' = [call EXCEPT ![c] = DoneCall]
    /\ UNCHANGED <<baskets, consumer>>

DeleteBasket(c, u) ==
    /\ Begins(c, "DeleteBasket")
    /\ baskets' = [baskets EXCEPT ![u] = NoBasket]
    /\ call' = [call EXCEPT ![c] = DoneCall]
    /\ UNCHANGED consumer

\* Answers BadRequest without a basket; the basket stays until the order starts.
Checkout(c, u) ==
    /\ Begins(c, "Checkout")
    /\ baskets[u] # NoBasket
    /\ call' = [call EXCEPT ![c] = DoneCall]
    /\ UNCHANGED <<baskets, consumer>>

---------------------------------------------------------------------------
(***************************************************************************)
(* The consumer.  change and u are the content of the message it handles.  *)
(***************************************************************************)
GetUsers ==
    /\ basketPc = "idle"
    /\ Attached("ProductPriceChanged")
    /\ basketPc'  = "visit"
    /\ unvisited' = {u \in Users : baskets[u] # NoBasket}
    /\ UNCHANGED <<baskets, call, copy, attached>>

\* Expects the basket to be still there.
CarelessGetBasket(u) ==
    /\ basketPc = "visit"
    /\ copy = NoCopy
    /\ u \in unvisited
    /\ unvisited' = unvisited \ {u}
    /\ copy' = [user |-> u, basket |-> baskets[u]]
    /\ UNCHANGED <<baskets, call, basketPc, attached>>

\* A basket deleted since GetUsers is skipped.
GetBasket(u) ==
    /\ basketPc = "visit"
    /\ copy = NoCopy
    /\ u \in unvisited
    /\ unvisited' = unvisited \ {u}
    /\ copy' = IF baskets[u] = NoBasket THEN NoCopy ELSE [user |-> u, basket |-> baskets[u]]
    /\ UNCHANGED <<baskets, call, basketPc, attached>>

\* Changes a line whatever price it shows.
CarelessUpdatePriceInBasketItems(basket, change) ==
    [p \in DOMAIN basket |->
        IF p = change.product THEN [price |-> change.new, old |-> basket[p].price]
        ELSE basket[p]]

UpdatePriceInBasketItems(basket, change) ==
    [p \in DOMAIN basket |->
        IF p = change.product /\ basket[p].price = change.old
        THEN [price |-> change.new, old |-> basket[p].price]
        ELSE basket[p]]

WriteBasket(change) ==
    /\ basketPc = "visit"
    /\ copy # NoCopy
    /\ baskets' = [baskets EXCEPT ![copy.user] = UpdatePriceInBasketItems(copy.basket, change)]
    /\ copy' = NoCopy
    /\ UNCHANGED <<call, basketPc, unvisited, attached>>

\* Takes the message off the queue after the first basket.
CarelessEndVisit ==
    /\ basketPc = "visit"
    /\ copy = NoCopy
    /\ basketPc'  = "ack"
    /\ unvisited' = {}
    /\ UNCHANGED <<baskets, call, copy, attached>>

EndVisit ==
    /\ basketPc = "visit"
    /\ copy = NoCopy
    /\ unvisited = {}
    /\ basketPc' = "ack"
    /\ UNCHANGED <<baskets, call, unvisited, copy, attached>>

HandleOrderStarted(u) ==
    /\ basketPc = "idle"
    /\ Attached("OrderStarted")
    /\ baskets' = [baskets EXCEPT ![u] = NoBasket]
    /\ basketPc' = "ack"
    /\ UNCHANGED <<call, unvisited, copy, attached>>

\* Redis does not answer: the handler throws, and Consumer_Received takes the message
\* off the queue all the same.
HandlerThrows(type) ==
    /\ \/ basketPc = "visit"
       \/ basketPc = "idle" /\ Attached(type)
    /\ basketPc'  = "ack"
    /\ unvisited' = {}
    /\ copy'      = NoCopy
    /\ UNCHANGED <<baskets, call, attached>>

BasketAcknowledges ==
    /\ basketPc = "ack"
    /\ basketPc' = "idle"
    /\ UNCHANGED <<baskets, call, unvisited, copy, attached>>

\* The process dies and starts again: the message it was handling comes again.
BasketRestarts ==
    /\ basketPc'  = "idle"
    /\ unvisited' = {}
    /\ copy'      = NoCopy
    /\ attached'  = 0
    /\ UNCHANGED <<baskets, call>>

BasketSubscribes ==
    /\ attached < Len(BasketSubscriptions)
    /\ attached' = attached + 1
    /\ UNCHANGED <<baskets, call, basketPc, unvisited, copy>>

\* See CatalogDiscards.
BasketDiscards(type) ==
    /\ basketPc = "idle"
    /\ attached > 0
    /\ ~Attached(type)
    /\ UNCHANGED basketsVars
=============================================================================
