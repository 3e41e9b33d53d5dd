----------------------------- MODULE OrderNews -----------------------------
(***************************************************************************)
(* How a buyer's list of orders keeps up with the orders: the hub forwards *)
(* every status event to the buyer's browser, and whenever a message       *)
(* arrives the page of the single-page application asks Ordering for the   *)
(* list again.  A message carries no state the list uses, and one that     *)
(* finds no connection is gone.                                            *)
(*                                                                         *)
(* A page that was left goes on listening; its answers go nowhere and are  *)
(* left out here.                                                          *)
(***************************************************************************)
EXTENDS Naturals, FiniteSets, Sequences, SequencesExt

CONSTANTS
    Unknown,      \* there is no list yet, or no answer yet
    MaxGets,      \* how many requests for the list are under way
    MaxVisits,    \* how often the page is opened
    MaxHubRestarts

VARIABLES
    \* Ordering.SignalrHub.
    hubQueue,
    hubTypes,   \* how many Subscribe calls the process has made
    sent,       \* the head of the queue has been sent and not yet acknowledged
    hubRestarts,
    \* The browser.
    connection,
    pushes,     \* how many messages are on their way to it
    open,       \* the order page is displayed
    listed,     \* OrdersComponent.orders
    gets,       \* the page's requests under way, and what they were answered
    visits,
    upsets      \* see Upsets

hub  == <<hubQueue, hubTypes, sent, hubRestarts>>
page == <<open, listed, gets, visits>>

newsVars == <<hub, connection, pushes, page, upsets>>

(***************************************************************************)
(* What may keep the page from catching up:                                *)
(*   missed     a message was not sent to the browser, or did not reach it *)
(*   overtaken  a request or an answer overtook an earlier one             *)
(*   failed     a request failed                                           *)
(***************************************************************************)
Upsets == {"missed", "overtaken", "failed"}

Upset(u, condition) == upsets' = IF condition THEN upsets \cup {u} ELSE upsets

\* In the order of ConfigureEventBus.
HubEvents == <<"AwaitingValidation", "Paid", "StockConfirmed", "Shipped", "Cancelled", "Submitted">>

HubSubscribed(status) == \E k \in 1 .. hubTypes : HubEvents[k] = status

\* The first attempt to connect may have failed.  The counters start anywhere: that leaves
\* fewer of the bounded steps, and no others.
NewsInit ==
    /\ hubQueue = <<>>
    /\ hubTypes = Len(HubEvents)
    /\ sent = FALSE
    /\ hubRestarts \in 0 .. MaxHubRestarts
    /\ connection \in {"starting", "down"}
    /\ pushes = 0
    /\ open = FALSE
    /\ listed = Unknown
    /\ gets = <<>>
    /\ visits \in 0 .. MaxVisits
    /\ upsets = {}

---------------------------------------------------------------------------
(***************************************************************************)
(* The hub.                                                                *)
(***************************************************************************)
HubMessageArrives(m) ==
    /\ hubQueue' = Append(hubQueue, m)
    /\ UNCHANGED <<hubTypes, sent, hubRestarts, connection, pushes, page, upsets>>

SubscribeHub ==
    /\ hubTypes < Len(HubEvents)
    /\ hubTypes' = hubTypes + 1
    /\ UNCHANGED <<hubQueue, sent, hubRestarts, connection, pushes, page, upsets>>

Waiting == hubTypes > 0 /\ hubQueue # <<>> /\ ~sent

\* SendAsync to the buyer's group, which may be empty.
HandleHub ==
    /\ Waiting
    /\ HubSubscribed(Head(hubQueue).status)
    /\ sent' = TRUE
    /\ pushes' = IF connection = "up" THEN pushes + 1 ELSE pushes
    /\ Upset("missed", connection # "up")
    /\ UNCHANGED <<hubQueue, hubTypes, hubRestarts, connection, page>>

\* No handler yet, or the handler throws: acknowledged all the same.
HubDrops ==
    /\ Waiting
    /\ hubQueue' = Tail(hubQueue)
    /\ Upset("missed", TRUE)
    /\ UNCHANGED <<hubTypes, sent, hubRestarts, connection, pushes, page>>

\* Takes the next message for sent.
CarelessAckHub ==
    /\ sent
    /\ hubQueue' = Tail(hubQueue)
    /\ UNCHANGED <<hubTypes, sent, hubRestarts, connection, pushes, page, upsets>>

AckHub ==
    /\ sent
    /\ sent' = FALSE
    /\ hubQueue' = Tail(hubQueue)
    /\ UNCHANGED <<hubTypes, hubRestarts, connection, pushes, page, upsets>>

\* What was not acknowledged is delivered again.
RestartHub ==
    /\ hubRestarts < MaxHubRestarts
    /\ hubRestarts' = hubRestarts + 1
    /\ hubTypes' = 0
    /\ sent' = FALSE
    /\ connection' = IF connection = "up" THEN "reconnecting" ELSE connection
    /\ pushes' = 0
    /\ Upset("missed", pushes > 0)
    /\ UNCHANGED <<hubQueue, page>>

---------------------------------------------------------------------------
(***************************************************************************)
(* The browser.                                                            *)
(***************************************************************************)

\* The start, or one of the attempts to reconnect, succeeds.  Nothing is asked again.
Connects ==
    /\ connection \in {"starting", "reconnecting"}
    /\ connection' = "up"
    /\ UNCHANGED <<hub, pushes, page, upsets>>

\* A start that fails is not repeated, and reconnecting is given up after four attempts.
GivesUp ==
    /\ connection \in {"starting", "reconnecting"}
    /\ connection' = "down"
    /\ UNCHANGED <<hub, pushes, page, upsets>>

Disconnects ==
    /\ connection = "up"
    /\ connection' = "reconnecting"
    /\ pushes' = 0
    /\ Upset("missed", pushes > 0)
    /\ UNCHANGED <<hub, page>>

\* Waits for the first message.
CarelessOpenOrders ==
    /\ ~open
    /\ visits < MaxVisits
    /\ visits' = visits + 1
    /\ open' = TRUE
    /\ UNCHANGED <<hub, connection, pushes, listed, gets, upsets>>

OpenOrders ==
    /\ ~open
    /\ visits < MaxVisits
    /\ visits' = visits + 1
    /\ open' = TRUE
    /\ gets' = <<Unknown>>
    /\ UNCHANGED <<hub, connection, pushes, listed, upsets>>

LeaveOrders ==
    /\ open
    /\ open' = FALSE
    /\ listed' = Unknown
    /\ gets' = <<>>
    /\ UNCHANGED <<hub, connection, pushes, visits, upsets>>

\* Asks for the list only if no answer is outstanding.
CarelessGetOrders == gets' = IF gets = <<>> THEN <<Unknown>> ELSE gets

GetOrders == gets' = Append(gets, Unknown)

MsgReceived ==
    /\ pushes > 0
    /\ Len(gets) < MaxGets
    /\ pushes' = pushes - 1
    /\ IF open THEN GetOrders ELSE UNCHANGED gets
    /\ UNCHANGED <<hub, connection, open, listed, visits, upsets>>

\* Ordering answers with the statuses it has committed.
GetOrdersAsync(i, statuses) ==
    /\ gets[i] = Unknown
    /\ gets' = [gets EXCEPT ![i] = statuses]
    /\ Upset("overtaken", \E j \in 1 .. i - 1 : gets[j] = Unknown)
    /\ UNCHANGED <<hub, connection, pushes, open, listed, visits>>

OrdersArrive(i) ==
    /\ gets[i] # Unknown
    /\ listed' = gets[i]
    /\ gets' = RemoveAt(gets, i)
    /\ Upset("overtaken", i > 1)
    /\ UNCHANGED <<hub, connection, pushes, open, visits>>

GetFails(i) ==
    /\ gets' = RemoveAt(gets, i)
    /\ Upset("failed", TRUE)
    /\ UNCHANGED <<hub, connection, pushes, open, listed, visits>>

NewsStep ==
    \/ SubscribeHub \/ HandleHub \/ HubDrops \/ AckHub \/ RestartHub
    \/ Connects \/ GivesUp \/ Disconnects
    \/ OpenOrders \/ LeaveOrders \/ MsgReceived
    \/ \E i \in DOMAIN gets : OrdersArrive(i) \/ GetFails(i)
=============================================================================
