------------------------------- MODULE WebSpa -------------------------------
(***************************************************************************)
(* One tab of the single-page application, from the catalog to the placed  *)
(* order, with the two services that share its basket: Basket.API, which   *)
(* answers its requests, and Ordering, which empties the basket some time  *)
(* after a checkout.                                                       *)
(*                                                                         *)
(* The user acts while requests are under way; their answers run callbacks *)
(* that send further requests.  Basket objects are shared by reference:    *)
(* the service, the basket page and the wrapper service may hold the same  *)
(* one, and whoever changes it changes it for the others.  Of a line the   *)
(* model keeps the product.                                                *)
(***************************************************************************)
EXTENDS Naturals, FiniteSets, Sequences, SequencesExt

CONSTANTS
    Products,
    Objects,      \* the tab's basket objects, numbered; unused ones are empty
    None,         \* undefined
    NoBasket,     \* no key in Redis
    MaxRequests,  \* how many requests may be under way
    MaxAdded,     \* how often the user adds a product
    MaxOrders,    \* how many checkouts are accepted
    MaxReloads,   \* how often the user reloads the tab
    MaxMishaps    \* how many mishaps happen

VARIABLES
    \* The tab.
    heap,       \* the lines of each basket object
    local,      \* BasketService.basket
    page,       \* the route, and so the component that is displayed
    shown,      \* BasketComponent.basket
    wrapped,    \* BasketWrapperService.basket
    summary,    \* the lines the order page lists
    processing, \* OrdersNewComponent.isOrderProcessing
    badge,
    requests,   \* the requests under way, in the order they were sent
    reloads,
    \* The services.
    stored,     \* the user's basket in Redis
    accepted,   \* the checkouts Ordering has still to turn into an order
    \* What happened, for the properties.
    added,      \* how often each product was put into the basket
    orders,     \* what was ordered, and what the order page listed
    mishaps     \* see Mishaps

component == <<page, shown, summary, processing>>
tab       == <<heap, local, component, wrapped, badge, requests>>
services  == <<stored, accepted>>
history   == <<added, orders>>

spaVars == <<tab, services, history, mishaps, reloads>>

ASSUME SpaAssumption ==
    /\ IsFiniteSet(Products)
    /\ Objects \subseteq Nat
    /\ 1 \in Objects
    /\ None \notin Objects
    /\ \A lines \in SUBSET Products : NoBasket # lines
    /\ {MaxRequests, MaxAdded, MaxOrders, MaxReloads, MaxMishaps} \subseteq Nat

Pages == {"catalog", "basket", "order", "orders"}

\* What each answer is for: the callback it runs.
Callbacks == {"load", "badge", "page", "change", "drop", "checkOut", "submit", "none"}

\* of is the basket object the callback's component holds, live whether that component
\* is still displayed, where the callback minds.  For a checkout, lines is what the page
\* lists; it is not sent.
Requests == [call : {"GET", "POST", "checkout"}, then : Callbacks, lines : SUBSET Products,
             of : Objects \cup {None}, live : BOOLEAN,
             stage : {"sent", "answered", "failed"}]

(***************************************************************************)
(* What a user, the network or Ordering may do to upset the pages:         *)
(*   early      a product is added before the basket has been loaded       *)
(*   blank      Checkout is clicked before the basket page has its basket  *)
(*   again      Checkout is clicked while it is under way                  *)
(*   overtaken  a request or an answer overtakes an earlier one            *)
(*   loss       a request or an answer is lost                             *)
(*   late       Ordering empties a basket that has been filled again       *)
(*   history    the order page is opened from the browser's history        *)
(***************************************************************************)
Mishaps == {"early", "blank", "again", "overtaken", "loss", "late", "history"}

Request(call, then, lines, of) ==
    [call |-> call, then |-> then, lines |-> lines, of |-> of,
     live |-> then \in {"page", "submit"}, stage |-> "sent"]

Get(then)         == Request("GET", then, {}, None)
Post(then, lines) == Request("POST", then, lines, None)

Room(n) == Len(requests) + n <= MaxRequests

\* Objects nobody holds any more are gone.
InUse   == {local, shown, wrapped} \cup {requests[i].of : i \in DOMAIN requests}
Keep(h) == heap' = [x \in Objects |-> IF x \in InUse' THEN h[x] ELSE {}]

\* m happens if the condition holds.  No kind of mishap happens twice, and no more than
\* MaxMishaps of them meet.
Mishap(m, condition) ==
    IF condition
    THEN /\ m \notin mishaps
         /\ Cardinality(mishaps) < MaxMishaps
         /\ mishaps' = mishaps \cup {m}
    ELSE UNCHANGED mishaps

\* A tab has just been loaded: BasketService and BasketStatusComponent both ask.
Start == <<Get("load"), Get("badge")>>

SpaInit ==
    /\ heap = [x \in Objects |-> {}]
    /\ local = 1
    /\ page = "catalog"
    /\ shown = None /\ wrapped = None
    /\ summary = {}
    /\ processing = FALSE
    /\ badge = 0
    /\ requests = Start
    /\ stored \in {NoBasket} \cup SUBSET Products
    /\ accepted = 0
    /\ added = [p \in Products |-> IF stored # NoBasket /\ p \in stored THEN 1 ELSE 0]
    /\ orders = <<>>
    /\ mishaps = {}
    /\ reloads = 0

---------------------------------------------------------------------------
(***************************************************************************)
(* The user.                                                               *)
(***************************************************************************)

\* Add to cart.  Without a basket object addItemToBasket throws.
AddToCart(p) ==
    /\ page = "catalog"
    /\ local # None
    /\ Room(1)
    /\ added[p] < MaxAdded
    /\ heap' = [heap EXCEPT ![local] = @ \cup {p}]
    /\ requests' = Append(requests, Post("change", heap'[local]))
    /\ added' = IF p \in heap[local] THEN added ELSE [added EXCEPT ![p] = @ + 1]
    /\ Mishap("early", \E i \in DOMAIN requests : requests[i].then = "load")
    /\ UNCHANGED <<local, component, wrapped, badge, services, orders, reloads>>

\* The route changes: the component is destroyed, its callbacks are not.
Leaves == [i \in DOMAIN requests |-> [requests[i] EXCEPT !.live = FALSE]]

\* Without a basket object getBasket throws, and the new page stays without a basket.
Navigate(to) ==
    /\ to \in {"catalog", "basket", "orders"} \ {page}
    /\ page' = to
    /\ shown' = None
    /\ summary' = {}
    /\ processing' = FALSE
    /\ IF to = "basket" /\ local # None
       THEN Room(1) /\ requests' = Append(Leaves, Get("page"))
       ELSE requests' = Leaves
    /\ UNCHANGED <<local, wrapped, badge, services, history, mishaps, reloads>>
    /\ Keep(heap)

\* What the router does when it shows the order page.
OpensOrderPage(lines) ==
    /\ page' = "order"
    /\ shown' = None
    /\ summary' = lines
    /\ processing' = FALSE

GoForwardToOrder ==
    /\ page # "order"
    /\ wrapped # None
    /\ OpensOrderPage(heap[wrapped])
    /\ requests' = Leaves
    /\ Mishap("history", TRUE)
    /\ UNCHANGED <<local, wrapped, badge, services, history, reloads>>
    /\ Keep(heap)

\* BasketService.setBasket makes the page's object its own before it posts it.
CarelessSetBasket(object) == local' = local

SetBasket(object) == local' = object

DeleteItem(p) ==
    /\ shown # None
    /\ p \in heap[shown]
    /\ Room(1)
    /\ SetBasket(shown)
    /\ requests' = Append(requests, Post("change", heap[shown] \ {p}))
    /\ UNCHANGED <<component, wrapped, badge, services, history, mishaps, reloads>>
    /\ Keep([heap EXCEPT ![shown] = @ \ {p}])

ItemQuantityChanged ==
    /\ shown # None
    /\ heap[shown] # {}
    /\ Room(1)
    /\ SetBasket(shown)
    /\ requests' = Append(requests, Post("none", heap[shown]))
    /\ UNCHANGED <<component, wrapped, badge, services, history, mishaps, reloads>>
    /\ Keep(heap)

CheckingOut == \E i \in DOMAIN requests : requests[i].then = "checkOut"

\* Posts what the service holds instead of what the page shows.
CarelessCheckOut ==
    /\ shown # None
    /\ local # None
    /\ Room(2)
    /\ requests' = requests \o <<Post("none", heap[local]),
                               Request("POST", "checkOut", heap[local], shown)>>
    /\ Mishap("again", CheckingOut)
    /\ UNCHANGED <<heap, local, component, wrapped, badge, services, history, reloads>>

\* update() subscribes to the POST and returns it to checkOut, which subscribes again:
\* it is sent twice.
CheckOut ==
    /\ shown # None
    /\ Room(2)
    /\ SetBasket(shown)
    /\ requests' = requests \o <<Post("none", heap[shown]),
                               Request("POST", "checkOut", heap[shown], shown)>>
    /\ Mishap("again", CheckingOut)
    /\ UNCHANGED <<component, wrapped, badge, services, history, reloads>>
    /\ Keep(heap)

\* The button is there before the basket is.  setBasket makes undefined the service's
\* basket; Basket.API refuses the two POSTs without a body.
CheckOutTooSoon ==
    /\ page = "basket"
    /\ shown = None
    /\ local' = None
    /\ Mishap("blank", TRUE)
    /\ UNCHANGED requests
    /\ UNCHANGED <<component, wrapped, badge, services, history, reloads>>
    /\ Keep(heap)

\* Place Order, which is disabled while an order is processed.
SubmitForm ==
    /\ page = "order"
    /\ ~processing
    /\ Room(1)
    /\ requests' = Append(requests, Request("checkout", "submit", summary, None))
    /\ processing' = TRUE
    /\ UNCHANGED <<heap, local, page, shown, summary, wrapped, badge, services, history,
                   mishaps, reloads>>

Forgotten(request) == [request EXCEPT !.then = "none", !.of = None, !.live = FALSE]

\* No callback of the old page runs any more, but what was sent was sent.
Reload ==
    /\ reloads < MaxReloads
    /\ reloads' = reloads + 1
    /\ LET kept == {i \in DOMAIN requests : requests[i].stage = "sent" /\ requests[i].call # "GET"}
           n    == Cardinality(kept)
       IN  /\ n + 2 <= MaxRequests
           /\ \E place \in [1 .. n -> kept] :
                 /\ \A i, j \in 1 .. n : i < j => place[i] < place[j]
                 /\ requests' = [i \in 1 .. n |-> Forgotten(requests[place[i]])] \o Start
    /\ heap' = [x \in Objects |-> {}]
    /\ local' = 1
    /\ page' = "catalog"
    /\ shown' = None /\ wrapped' = None
    /\ summary' = {}
    /\ processing' = FALSE
    /\ badge' = 0
    /\ Mishap("loss", requests # <<>>)
    /\ UNCHANGED <<services, history>>

---------------------------------------------------------------------------
(***************************************************************************)
(* The services, and the network between.                                  *)
(***************************************************************************)
Others(i) == RemoveAt(requests, i)

\* An answer that nobody waits for is of no interest.
Answer(i, stage, lines) ==
    requests' = IF requests[i].then = "none" THEN Others(i)
                ELSE [requests EXCEPT ![i].stage = stage, ![i].lines = lines]

Overtakes(i) == \E j \in 1 .. i - 1 : requests[j].stage = "sent"

\* Basket.API answers, creating an empty basket where there is none.
GetBasketById(i) ==
    /\ requests[i].call = "GET"
    /\ Answer(i, "answered", IF stored = NoBasket THEN {} ELSE stored)
    /\ UNCHANGED <<stored, accepted, orders>>

UpdateBasket(i) ==
    /\ requests[i].call = "POST"
    /\ stored' = requests[i].lines
    /\ Answer(i, "answered", requests[i].lines)
    /\ UNCHANGED <<accepted, orders>>

\* Ordering refuses an order without lines.  The request carries an id of its own,
\* even when the user repeats it, so that Ordering never takes it for a repetition.
Checkout(i) ==
    /\ requests[i].call = "checkout"
    /\ IF stored = NoBasket
       THEN Answer(i, "failed", requests[i].lines) /\ UNCHANGED <<accepted, orders>>
       ELSE /\ Answer(i, "answered", requests[i].lines)
            /\ IF stored = {} THEN UNCHANGED <<accepted, orders>>
               ELSE /\ Len(orders) < MaxOrders
                    /\ orders' = Append(orders, [lines |-> stored, listed |-> requests[i].lines])
                    /\ accepted' = accepted + 1
    /\ UNCHANGED stored

Serve(i) ==
    /\ requests[i].stage = "sent"
    /\ GetBasketById(i) \/ UpdateBasket(i) \/ Checkout(i)
    /\ Mishap("overtaken", Overtakes(i))
    /\ UNCHANGED <<heap, local, component, wrapped, badge, added, reloads>>

\* The tab empties the basket after its checkout as well: until it has, Ordering may.
Dropping == \E i \in DOMAIN requests :
                \/ requests[i].then = "submit" /\ requests[i].stage = "answered"
                \/ requests[i].then = "drop" /\ requests[i].stage = "sent"

\* Ordering's OrderStarted reaches Basket.API.
OrderStarts ==
    /\ accepted > 0
    /\ accepted' = accepted - 1
    /\ stored' = NoBasket
    /\ Mishap("late", stored # NoBasket /\ stored # {} /\ ~Dropping)
    /\ UNCHANGED <<tab, history, reloads>>

---------------------------------------------------------------------------
(***************************************************************************)
(* The callbacks.  Each takes the answered request off the list.           *)
(***************************************************************************)
Answered(i, then) ==
    /\ requests[i].stage = "answered"
    /\ requests[i].then \in then
    /\ Mishap("overtaken", i > 1)
    /\ UNCHANGED <<services, history, reloads>>

\* loadData.
Loaded(i) ==
    /\ Answered(i, {"load"})
    /\ heap' = IF local = None THEN heap ELSE [heap EXCEPT ![local] = requests[i].lines]
    /\ requests' = Others(i)
    /\ UNCHANGED <<local, component, wrapped, badge>>

BadgeArrives(i) ==
    /\ Answered(i, {"badge"})
    /\ badge' = Cardinality(requests[i].lines)
    /\ requests' = Others(i)
    /\ UNCHANGED <<heap, local, component, wrapped>>

\* BasketComponent.ngOnInit: the answer is a new object.
PageArrives(i) ==
    /\ Answered(i, {"page"})
    /\ IF requests[i].live
       THEN \E x \in Objects \ InUse :
               /\ \A y \in Objects \ InUse : x <= y
               /\ heap' = [heap EXCEPT ![x] = requests[i].lines]
               /\ shown' = x
       ELSE UNCHANGED <<heap, shown>>
    /\ requests' = Others(i)
    /\ UNCHANGED <<local, page, summary, processing, wrapped, badge>>

\* The badge is brought up to date.
BasketChanged(i) ==
    /\ Answered(i, {"change", "drop"})
    /\ requests' = IF local = None THEN Others(i) ELSE Append(Others(i), Get("badge"))
    /\ UNCHANGED <<heap, local, component, wrapped, badge>>

\* checkOut goes to the order page, from wherever the user is by now.
CheckedOut(i) ==
    /\ Answered(i, {"checkOut"})
    /\ wrapped' = requests[i].of
    /\ IF page = "order"
       THEN requests' = Others(i) /\ UNCHANGED component
       ELSE requests' = RemoveAt(Leaves, i) /\ OpensOrderPage(heap[requests[i].of])
    /\ UNCHANGED <<local, badge>>
    /\ Keep(heap)

\* Leaves the button disabled.
CarelessSubmitFails(i) ==
    /\ requests' = Others(i)
    /\ UNCHANGED <<heap, local, component, wrapped, badge>>

\* What catchError does, if the page is still displayed.
SubmitFails(i) ==
    /\ processing' = (processing /\ ~requests[i].live)
    /\ requests' = Others(i)
    /\ UNCHANGED <<heap, local, page, shown, summary, wrapped, badge>>

\* Relies on Ordering to empty the basket.
CarelessDropBasket(rs) ==
    /\ requests' = rs
    /\ Keep(IF local = None THEN heap ELSE [heap EXCEPT ![local] = {}])

\* Without a basket object dropBasket throws, which is logged.
DropBasket(rs) ==
    IF local = None THEN requests' = rs /\ Keep(heap)
    ELSE /\ requests' = Append(rs, Post("drop", {}))
         /\ Keep([heap EXCEPT ![local] = {}])

\* orderCreated drops the basket, and the router shows the orders.
Submitted(i) ==
    /\ Answered(i, {"submit"})
    /\ page' = "orders"
    /\ shown' = None /\ summary' = {}
    /\ processing' = FALSE
    /\ UNCHANGED <<local, wrapped, badge>>
    /\ DropBasket(RemoveAt(Leaves, i))

\* A call fails.  Nobody but the order page does anything about it.
CallFails(i) ==
    /\ IF requests[i].then = "submit" THEN SubmitFails(i)
       ELSE /\ requests' = Others(i)
            /\ UNCHANGED <<local, component, wrapped, badge>>
            /\ Keep(heap)
    /\ UNCHANGED <<services, history, reloads>>

Refused(i) == requests[i].stage = "failed" /\ CallFails(i) /\ UNCHANGED mishaps

\* The request or its answer is lost.
Lose(i) ==
    /\ requests[i].stage # "failed"
    /\ CallFails(i)
    /\ Mishap("loss", TRUE)

---------------------------------------------------------------------------
UserStep ==
    \/ \E p \in Products : AddToCart(p) \/ DeleteItem(p)
    \/ \E to \in Pages : Navigate(to)
    \/ GoForwardToOrder \/ ItemQuantityChanged \/ CheckOut \/ CheckOutTooSoon
    \/ SubmitForm \/ Reload

Callback(i) ==
    \/ Loaded(i) \/ BadgeArrives(i) \/ PageArrives(i) \/ BasketChanged(i)
    \/ CheckedOut(i) \/ Submitted(i) \/ Refused(i)

SpaNext ==
    \/ UserStep
    \/ \E i \in DOMAIN requests : Serve(i) \/ Lose(i) \/ Callback(i)
    \/ OrderStarts

SpaSpec == SpaInit /\ [][SpaNext]_spaVars

---------------------------------------------------------------------------
\* The variables of the tab and of the services have values of their kinds, a component's
\* state goes with the component, and the order page is processing as long as a call of
\* its own is under way: its button is not pressed twice, and does not stay disabled.
SpaTypeOK ==
    /\ heap \in [Objects -> SUBSET Products]
    /\ {local, shown, wrapped} \subseteq {None} \cup Objects
    /\ page \in Pages
    /\ summary \subseteq Products
    /\ processing \in BOOLEAN
    /\ badge \in 0 .. Cardinality(Products)
    /\ requests \in Seq(Requests)
    /\ stored \in {NoBasket} \cup SUBSET Products
    /\ accepted \in 0 .. MaxOrders
    /\ added \in [Products -> Nat]
    /\ orders \in Seq([lines : SUBSET Products, listed : SUBSET Products])
    /\ mishaps \subseteq Mishaps
    /\ reloads \in 0 .. MaxReloads
    /\ shown # None => page = "basket"
    /\ summary # {} => page = "order"
    /\ processing = \E i \in DOMAIN requests : requests[i].then = "submit" /\ requests[i].live

Spared(ms) == mishaps \cap ms = {}

\* What is ordered is what the order page listed when the user placed the order, however
\* impatient the user is, unless ...
OrdersAreAsListed ==
    Spared({"overtaken", "loss", "history"}) =>
        \A i \in DOMAIN orders : orders[i].lines = orders[i].listed

\* No product is ordered more often than the user put it into the basket.
NothingIsOrderedTwice ==
    Spared({"overtaken", "loss", "history", "blank", "again"}) =>
        \A p \in Products :
            Cardinality({i \in DOMAIN orders : p \in orders[i].lines}) <= added[p]

\* When nothing is under way, the tab holds the basket the server holds, and its badge
\* counts the lines.
TabAgreesWithServer ==
    (requests = <<>> /\ Spared({"early", "blank", "overtaken", "loss", "late"})) =>
        /\ heap[local] = (IF stored = NoBasket THEN {} ELSE stored)
        /\ badge = Cardinality(heap[local])
=============================================================================
