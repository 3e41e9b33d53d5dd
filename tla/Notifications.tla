--------------------------- MODULE Notifications ---------------------------
(***************************************************************************)
(* What reaches the world outside the order process: Ordering, of which    *)
(* only OrderLifecycle is known here, Ordering.SignalrHub with a buyer's   *)
(* order page, and Webhooks.API with its receivers.  What Ordering         *)
(* announces is published afterwards, by whatever transaction comes to it  *)
(* first, to all queues at once.                                           *)
(***************************************************************************)
EXTENDS OrderNews, Webhooks

CONSTANTS
    Orders,
    MaxAnnounced   \* how many more statuses are announced of an order

VARIABLES
    state, announced,
    published,     \* the announcements the bus has got, by order and number
    cancels        \* the buyer's calls of CancelOrderAsync under way

Lifecycle == INSTANCE OrderLifecycle

vars == <<state, announced, published, cancels, newsVars, hookVars>>

ASSUME NotificationsAssumption ==
    /\ \A statuses \in [Orders -> Lifecycle!Stages] : Unknown # statuses
    /\ {MaxGets, MaxVisits, MaxHubRestarts, MaxAnnounced} \subseteq Nat

\* The orders may be anywhere already; what was announced of them has been dealt with.
Init ==
    /\ state \in [Orders -> Lifecycle!Stages]
    /\ announced = [o \in Orders |-> <<>>]
    /\ published = {}
    /\ cancels = {}
    /\ NewsInit
    /\ WebhooksInit

Bounded(o) == Len(announced[o]) < MaxAnnounced

\* Ordering moves an order on, or cancels it for want of stock.
OrderMoves(o) ==
    /\ (Lifecycle!Advance(o) /\ Bounded(o)) \/ Lifecycle!RejectStock(o)
    /\ UNCHANGED <<published, cancels, newsVars, hookVars>>

Message(o, i) == [order |-> o, nr |-> i, status |-> announced[o][i]]

Publish(o, i) ==
    /\ <<o, i>> \notin published
    /\ published' = published \cup {<<o, i>>}
    /\ HubMessageArrives(Message(o, i))
    /\ HookArrives(Message(o, i))
    /\ UNCHANGED <<state, announced, cancels>>

\* Ordering dies between the commit and the publication.
LosesAnnouncement(o, i) ==
    /\ <<o, i>> \notin published
    /\ published' = published \cup {<<o, i>>}
    /\ Upset("missed", TRUE)
    /\ UNCHANGED <<state, announced, cancels, hub, connection, pushes, page, hookVars>>

\* The page offers to cancel the orders it lists as submitted.
CancelOrder(o) ==
    /\ listed # Unknown
    /\ listed[o] = "Submitted"
    /\ cancels' = cancels \cup {o}
    /\ UNCHANGED <<state, announced, published, newsVars, hookVars>>

\* An order that has moved on too far meanwhile is not cancelled.
CancelOrderAsync(o) ==
    /\ o \in cancels
    /\ cancels' = cancels \ {o}
    /\ IF state[o] \in {"Paid", "Shipped"} THEN UNCHANGED <<state, announced>>
       ELSE Lifecycle!Cancel(o) /\ Bounded(o)
    /\ UNCHANGED <<published, newsVars, hookVars>>

Answers(i) ==
    /\ GetOrdersAsync(i, state)
    /\ UNCHANGED <<state, announced, published, cancels, hookVars>>

Next ==
    \/ \E o \in Orders :
        \/ OrderMoves(o) \/ CancelOrder(o) \/ CancelOrderAsync(o)
        \/ \E i \in DOMAIN announced[o] : Publish(o, i) \/ LosesAnnouncement(o, i)
    \/ \E i \in DOMAIN gets : Answers(i)
    \/ NewsStep /\ UNCHANGED <<state, announced, published, cancels, hookVars>>
    \/ WebhooksStep /\ UNCHANGED <<state, announced, published, cancels, newsVars>>

(***************************************************************************)
(* Ordering publishes what it announced, the processes run, and the        *)
(* network delivers or fails.  Nothing forces an order to move, a user to  *)
(* act or a connection to come up.                                         *)
(***************************************************************************)
Fairness ==
    /\ \A o \in Orders, i \in 1 .. MaxAnnounced :
           WF_vars(i \in DOMAIN announced[o] /\ (Publish(o, i) \/ LosesAnnouncement(o, i)))
    /\ WF_vars((SubscribeHub \/ HandleHub \/ HubDrops \/ AckHub \/ MsgReceived
                   \/ \E i \in DOMAIN gets : OrdersArrive(i))
               /\ UNCHANGED <<state, announced, published, cancels, hookVars>>)
    /\ WF_vars(\E i \in DOMAIN gets : Answers(i))
    /\ WF_vars((SubscribeHook \/ HandleHook \/ DiscardHook \/ HookFails \/ AckHook
                   \/ \E r \in Receivers : OnSendData(r))
               /\ UNCHANGED <<state, announced, published, cancels, newsVars>>)

Spec == Init /\ [][Next]_vars /\ Fairness

---------------------------------------------------------------------------
Messages == [order : Orders, nr : 1 .. MaxAnnounced, status : Lifecycle!Stages]

Lists == {Unknown} \cup [Orders -> Lifecycle!Stages]

\* The variables have values of their kinds, and whatever is queued was announced.
NotificationsTypeOK ==
    /\ state \in [Orders -> Lifecycle!Stages]
    /\ \A o \in Orders : announced[o] \in Seq(Lifecycle!Stages) /\ Len(announced[o]) <= MaxAnnounced
    /\ published \subseteq Orders \X (1 .. MaxAnnounced)
    /\ cancels \subseteq Orders
    /\ hubQueue \in Seq(Messages) /\ hubTypes \in 0 .. Len(HubEvents)
    /\ sent \in BOOLEAN /\ (sent => hubQueue # <<>>)
    /\ connection \in {"starting", "up", "reconnecting", "down"}
    /\ pushes \in Nat
    /\ open \in BOOLEAN
    /\ listed \in Lists /\ gets \in Seq(Lists)
    /\ upsets \subseteq Upsets
    /\ subscriptions \in [Receivers -> SUBSET WebhookTypes]
    /\ hooks \in Seq(Messages) /\ hookTypes \in 0 .. Len(HookEvents)
    /\ sending \in {Idle} \cup SUBSET Receivers /\ (sending # Idle => hooks # <<>>)
    /\ owed \subseteq Receivers \X Messages
    /\ dropped \subseteq Messages

\* The last change of the order was announced: it was not cancelled for want of stock.
IsAnnounced(o) == announced[o] # <<>> /\ Last(announced[o]) = state[o]

\* News of the order is still on its way to the page.
InTheNews(o) ==
    \/ <<o, Len(announced[o])>> \notin published
    \/ \E k \in DOMAIN hubQueue : hubQueue[k].order = o /\ hubQueue[k].nr = Len(announced[o])
    \/ pushes > 0

LatestAnswer == IF gets = <<>> THEN listed ELSE Last(gets)

\* The order page knows of every announced change, or will be told: unless news was missed,
\* or a request failed or was overtaken, what the page was answered last is how the order
\* is now, or news of it is on its way, or the page is about to be answered.
PageCatchesUp ==
    (open /\ upsets = {}) =>
        \A o \in Orders :
            IsAnnounced(o) =>
                \/ LatestAnswer = Unknown
                \/ LatestAnswer[o] = state[o]
                \/ InTheNews(o)

\* The message stays in the queue until whoever was subscribed when its event was published
\* has been called or has unsubscribed, whichever other receiver cannot be reached and
\* wherever the process dies.  The exception is a message that is acknowledged unsent,
\* because a restarted process had no handler for it yet or could not read the subscribers:
\* it is lost on all its receivers.
NobodyIsForgotten ==
    \A d \in owed : (\E k \in DOMAIN hooks : hooks[k] = d[2]) \/ d[2] \in dropped

\* Everybody who is owed a call gets it in the end, through a restart and other receivers
\* that cannot be reached: except about a message that was acknowledged unsent.
EverybodyIsCalled == []<>(\A d \in owed : d[2] \in dropped)

\* A page that stays open ends up with the orders as they are.
PageIsCurrent ==
    open /\ listed # Unknown /\ \A o \in Orders : IsAnnounced(o) => listed[o] = state[o]

NewsReachesThePage == <>[](open /\ upsets = {}) => <>[]PageIsCurrent
=============================================================================
