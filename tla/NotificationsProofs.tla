------------------------ MODULE NotificationsProofs ------------------------
(***************************************************************************)
(* A webhook message stays queued until its receivers are called, unless   *)
(* it is acknowledged unsent, and an open order page knows of every        *)
(* announced change or will be told: for any number of orders,             *)
(* announcements, receivers and restarts.                                  *)
(***************************************************************************)
EXTENDS Notifications, TLAPS

\* The part of the type invariant each group of variables has.
LifecycleOK ==
    /\ state \in [Orders -> Lifecycle!Stages]
    /\ announced \in [Orders -> Seq(Lifecycle!Stages)]
    /\ \A o \in Orders : Len(announced[o]) <= MaxAnnounced
    /\ published \subseteq Orders \X (1 .. MaxAnnounced)
    /\ cancels \subseteq Orders

NewsOK ==
    /\ hubQueue \in Seq(Messages) /\ hubTypes \in 0 .. Len(HubEvents)
    /\ sent \in BOOLEAN /\ (sent => hubQueue # <<>>)
    /\ connection \in {"starting", "up", "reconnecting", "down"}
    /\ pushes \in Nat
    /\ open \in BOOLEAN
    /\ listed \in Lists /\ gets \in Seq(Lists)
    /\ upsets \subseteq Upsets

HooksOK ==
    /\ subscriptions \in [Receivers -> SUBSET WebhookTypes]
    /\ hooks \in Seq(Messages) /\ hookTypes \in 0 .. Len(HookEvents)
    /\ sending \in {Idle} \cup SUBSET Receivers /\ (sending # Idle => hooks # <<>>)
    /\ owed \subseteq Receivers \X Messages
    /\ dropped \subseteq Messages

TypeInv == LifecycleOK /\ NewsOK /\ HooksOK

LEMMA TypeInvImpliesType == TypeInv => NotificationsTypeOK
BY DEF TypeInv, LifecycleOK, NewsOK, HooksOK, NotificationsTypeOK

---------------------------------------------------------------------------
(***************************************************************************)
(* Type correctness.                                                       *)
(***************************************************************************)
LEMMA TypeInit == Init => TypeInv
<1> SUFFICES ASSUME Init PROVE TypeInv
  OBVIOUS
<1>1. LifecycleOK
  <2>1. <<>> \in Seq(Lifecycle!Stages) /\ Len(<<>>) = 0 /\ MaxAnnounced \in Nat
    BY NotificationsAssumption
  <2>2. /\ state \in [Orders -> Lifecycle!Stages]
        /\ announced \in [Orders -> Seq(Lifecycle!Stages)]
        /\ \A o \in Orders : announced[o] = <<>>
        /\ published = {} /\ cancels = {}
    BY <2>1 DEF Init
  <2> QED BY <2>1, <2>2 DEF LifecycleOK
<1>2. NewsOK
  <2>1. Len(HubEvents) \in 0 .. Len(HubEvents)
    BY DEF HubEvents
  <2>2. /\ hubQueue = <<>> /\ hubTypes = Len(HubEvents) /\ sent = FALSE
        /\ connection \in {"starting", "down"} /\ pushes = 0 /\ open = FALSE
        /\ listed = Unknown /\ gets = <<>> /\ upsets = {}
    BY DEF Init, NewsInit
  <2>3. <<>> \in Seq(Messages) /\ <<>> \in Seq(Lists)
    OBVIOUS
  <2> QED BY <2>1, <2>2, <2>3 DEF NewsOK, Lists
<1>3. HooksOK
  BY WebhooksAssumption DEF Init, WebhooksInit, HooksOK, HookEvents
<1> QED BY <1>1, <1>2, <1>3 DEF TypeInv

\* A message about an announcement.
LEMMA MessageType ==
  ASSUME LifecycleOK, NEW o \in Orders, NEW i \in DOMAIN announced[o]
  PROVE  /\ Message(o, i) \in Messages
         /\ i \in 1 .. MaxAnnounced
<1>1. announced[o] \in Seq(Lifecycle!Stages) /\ Len(announced[o]) <= MaxAnnounced
  BY DEF LifecycleOK
<1>2. MaxAnnounced \in Nat /\ Len(announced[o]) \in Nat /\ DOMAIN announced[o] = 1 .. Len(announced[o])
  BY <1>1, NotificationsAssumption
<1>3. i \in 1 .. MaxAnnounced /\ announced[o][i] \in Lifecycle!Stages
  BY <1>1, <1>2
<1> QED BY <1>3 DEF Message, Messages

LEMMA TypeEnter ==
  ASSUME LifecycleOK, NEW o \in Orders, NEW s \in Lifecycle!Stages, Lifecycle!Enter(o, s),
         Bounded(o), published' = published, cancels' \subseteq Orders
  PROVE  LifecycleOK'
<1>1. /\ state' = [state EXCEPT ![o] = s]
      /\ announced' = [announced EXCEPT ![o] = Append(announced[o], s)]
  BY DEF Lifecycle!Enter
<1>2. announced[o] \in Seq(Lifecycle!Stages) /\ Len(announced[o]) < MaxAnnounced
  BY DEF LifecycleOK, Bounded
<1>3. /\ Append(announced[o], s) \in Seq(Lifecycle!Stages)
      /\ Len(Append(announced[o], s)) = Len(announced[o]) + 1
      /\ Len(announced[o]) \in Nat
  BY <1>2
<1>4. Len(Append(announced[o], s)) <= MaxAnnounced
  BY <1>2, <1>3, NotificationsAssumption
<1> QED BY <1>1, <1>3, <1>4 DEF LifecycleOK

LEMMA AdvanceEnters ==
  ASSUME NEW o \in Orders, Lifecycle!Advance(o)
  PROVE  \E s \in Lifecycle!Stages : s # "Cancelled" /\ Lifecycle!Enter(o, s)
BY DEF Lifecycle!Advance, Lifecycle!Predecessor, Lifecycle!Stages

LEMMA TypeMoves ==
  ASSUME LifecycleOK, NEW o \in Orders,
         OrderMoves(o) \/ CancelOrder(o) \/ CancelOrderAsync(o)
  PROVE  LifecycleOK'
<1>1. CASE OrderMoves(o) /\ Lifecycle!Advance(o) /\ Bounded(o)
  BY <1>1, AdvanceEnters, TypeEnter DEF OrderMoves, LifecycleOK
<1>2. CASE OrderMoves(o) /\ Lifecycle!RejectStock(o)
  BY <1>2 DEF OrderMoves, Lifecycle!RejectStock, Lifecycle!Stages, LifecycleOK
<1>3. CASE CancelOrder(o)
  BY <1>3 DEF CancelOrder, LifecycleOK
<1>4. CASE CancelOrderAsync(o)
  <2>1. cancels' \subseteq Orders /\ published' = published
    BY <1>4 DEF CancelOrderAsync, LifecycleOK
  <2>2. CASE UNCHANGED <<state, announced>>
    BY <2>1, <2>2 DEF LifecycleOK
  <2>3. CASE Lifecycle!Cancel(o) /\ Bounded(o)
    BY <2>1, <2>3, TypeEnter DEF Lifecycle!Cancel, Lifecycle!Stages
  <2> QED BY <1>4, <2>2, <2>3 DEF CancelOrderAsync
<1> QED BY <1>1, <1>2, <1>3, <1>4 DEF OrderMoves

LEMMA TypePublication ==
  ASSUME TypeInv, NEW o \in Orders, NEW i \in DOMAIN announced[o],
         Publish(o, i) \/ LosesAnnouncement(o, i)
  PROVE  TypeInv'
<1>1. Message(o, i) \in Messages /\ i \in 1 .. MaxAnnounced
  BY MessageType DEF TypeInv
<1>2. LifecycleOK'
  <2>1. /\ published' = published \cup {<<o, i>>}
        /\ state' = state /\ announced' = announced /\ cancels' = cancels
    BY DEF Publish, LosesAnnouncement
  <2>2. LifecycleOK
    BY DEF TypeInv
  <2>3. published' \subseteq Orders \X (1 .. MaxAnnounced)
    BY <1>1, <2>1, <2>2 DEF LifecycleOK
  <2> QED BY <2>1, <2>2, <2>3 DEF LifecycleOK
<1>3. NewsOK'
  <2>1. CASE Publish(o, i)
    <3>1. hubQueue' = Append(hubQueue, Message(o, i))
      BY <2>1 DEF Publish, HubMessageArrives
    <3>2. hubQueue' \in Seq(Messages) /\ hubQueue' # <<>>
      BY <1>1, <3>1 DEF TypeInv, NewsOK
    <3> QED BY <2>1, <3>2 DEF Publish, HubMessageArrives, page, TypeInv, NewsOK
  <2>2. CASE LosesAnnouncement(o, i)
    BY <2>2 DEF LosesAnnouncement, Upset, Upsets, hub, page, TypeInv, NewsOK
  <2> QED BY <2>1, <2>2
<1>4. HooksOK'
  <2>1. CASE Publish(o, i) /\ Message(o, i).status \in WebhookTypes
    <3>1. hooks' = Append(hooks, Message(o, i))
      BY <2>1 DEF Publish, HookArrives
    <3>2. hooks' \in Seq(Messages) /\ hooks' # <<>>
      BY <1>1, <3>1 DEF TypeInv, HooksOK
    <3>3. owed' \subseteq Receivers \X Messages /\ dropped' = dropped
      BY <1>1, <2>1 DEF Publish, HookArrives, TypeInv, HooksOK
    <3> QED BY <2>1, <3>2, <3>3 DEF Publish, HookArrives, TypeInv, HooksOK
  <2>2. CASE UNCHANGED hookVars
    BY <2>2 DEF hookVars, TypeInv, HooksOK
  <2> QED BY <2>1, <2>2 DEF Publish, LosesAnnouncement, HookArrives
<1> QED BY <1>2, <1>3, <1>4 DEF TypeInv

\* What is left of a queue that loses an element.
LEMMA RemoveAtType ==
  ASSUME NEW S, NEW s \in Seq(S), NEW i \in DOMAIN s
  PROVE  /\ RemoveAt(s, i) \in Seq(S)
         /\ Len(RemoveAt(s, i)) = Len(s) - 1
         /\ \A j \in 1 .. Len(s) - 1 :
                RemoveAt(s, i)[j] = IF j < i THEN s[j] ELSE s[j + 1]
<1>1. i \in 1 .. Len(s) /\ Len(s) \in Nat
  OBVIOUS
<1> DEFINE a == SubSeq(s, 1, i - 1)
           b == SubSeq(s, i + 1, Len(s))
<1>2. a \in Seq(S) /\ Len(a) = i - 1 /\ \A j \in 1 .. i - 1 : a[j] = s[j]
  BY <1>1
<1>3. b \in Seq(S) /\ Len(b) = Len(s) - i /\ \A j \in 1 .. Len(s) - i : b[j] = s[j + i]
  BY <1>1
<1>4. RemoveAt(s, i) = a \o b
  BY DEF RemoveAt
<1> HIDE DEF a, b
<1>5. /\ a \o b \in Seq(S)
      /\ Len(a \o b) = Len(s) - 1
      /\ \A j \in 1 .. Len(s) - 1 : (a \o b)[j] = IF j <= i - 1 THEN a[j] ELSE b[j - (i - 1)]
  BY <1>1, <1>2, <1>3
<1>6. ASSUME NEW j \in 1 .. Len(s) - 1
      PROVE  (a \o b)[j] = IF j < i THEN s[j] ELSE s[j + 1]
  <2>1. CASE j < i
    BY <1>1, <1>2, <1>5, <2>1
  <2>2. CASE ~(j < i)
    <3>1. j - (i - 1) \in 1 .. Len(s) - i /\ j - (i - 1) + i = j + 1
      BY <1>1, <2>2
    <3> QED BY <1>1, <1>3, <1>5, <2>2, <3>1
  <2> QED BY <2>1, <2>2
<1> QED BY <1>4, <1>5, <1>6

LEMMA TailType ==
  ASSUME NEW S, NEW s \in Seq(S), s # <<>>
  PROVE  Tail(s) \in Seq(S) /\ Head(s) \in S /\ Head(s) = s[1]
OBVIOUS

LEMMA TypeAnswer ==
  ASSUME TypeInv, NEW i \in DOMAIN gets, Answers(i)
  PROVE  TypeInv'
<1>1. gets' \in Seq(Lists)
  BY DEF TypeInv, LifecycleOK, NewsOK, Lists, Answers, GetOrdersAsync
<1>2. upsets' \subseteq Upsets
  BY DEF TypeInv, NewsOK, Answers, GetOrdersAsync, Upset, Upsets
<1>3. NewsOK'
  BY <1>1, <1>2 DEF TypeInv, NewsOK, Answers, GetOrdersAsync, hub
<1>4. LifecycleOK' /\ HooksOK'
  BY DEF TypeInv, LifecycleOK, HooksOK, Answers, hookVars
<1> QED BY <1>3, <1>4 DEF TypeInv

LEMMA UnknownIsList == Unknown \in Lists
BY DEF Lists

LEMMA TypeNews ==
  ASSUME NewsOK, NewsStep
  PROVE  NewsOK'
<1> USE DEF NewsOK
<1>1. Len(HubEvents) = 6
  BY DEF HubEvents
<1>2. Unknown \in Lists
  BY UnknownIsList
<1>3. CASE SubscribeHub
  BY <1>1, <1>3 DEF SubscribeHub, page
<1>4. CASE HandleHub
  BY <1>4 DEF HandleHub, Waiting, Upset, Upsets, page
<1>5. CASE HubDrops
  BY <1>5, TailType DEF HubDrops, Waiting, Upset, Upsets, page
<1>6. CASE AckHub
  BY <1>6, TailType DEF AckHub, page
<1>7. CASE RestartHub
  <2>1. /\ hubTypes' \in 0 .. Len(HubEvents) /\ sent' = FALSE /\ pushes' \in Nat
        /\ connection' \in {"starting", "up", "reconnecting", "down"}
        /\ upsets' \subseteq Upsets
    BY <1>1, <1>7 DEF RestartHub, Upset, Upsets
  <2>2. UNCHANGED <<hubQueue, open, listed, gets>>
    BY <1>7 DEF RestartHub, page
  <2> QED BY <2>1, <2>2
<1>8. CASE Connects \/ GivesUp
  BY <1>8 DEF Connects, GivesUp, hub, page
<1>9. CASE Disconnects
  BY <1>9 DEF Disconnects, Upset, Upsets, hub, page
<1>10. CASE OpenOrders
  <2>1. gets' \in Seq(Lists)
    BY <1>2, <1>10 DEF OpenOrders
  <2>2. open' \in BOOLEAN /\ UNCHANGED <<hubQueue, hubTypes, sent, connection, pushes, listed, upsets>>
    BY <1>10 DEF OpenOrders, hub
  <2> QED BY <2>1, <2>2
<1>11. CASE LeaveOrders
  <2>1. gets' = <<>> /\ listed' = Unknown /\ open' = FALSE
    BY <1>11 DEF LeaveOrders
  <2>2. <<>> \in Seq(Lists)
    OBVIOUS
  <2>3. gets' \in Seq(Lists)
    BY <2>1, <2>2
  <2>4. UNCHANGED <<hubQueue, hubTypes, sent, connection, pushes, upsets>>
    BY <1>11 DEF LeaveOrders, hub
  <2> QED BY <1>2, <2>1, <2>3, <2>4
<1>12. CASE MsgReceived
  <2>1. Append(gets, Unknown) \in Seq(Lists)
    BY <1>2
  <2>2. gets' \in Seq(Lists)
    BY <1>12, <2>1 DEF MsgReceived, GetOrders
  <2>3. pushes' \in Nat
    BY <1>12 DEF MsgReceived
  <2>4. UNCHANGED <<hubQueue, hubTypes, sent, connection, open, listed, upsets>>
    BY <1>12 DEF MsgReceived, hub
  <2> QED BY <2>2, <2>3, <2>4
<1>13. ASSUME NEW i \in DOMAIN gets, OrdersArrive(i) \/ GetFails(i)
       PROVE  NewsOK'
  <2>1. gets' = RemoveAt(gets, i)
    BY <1>13 DEF OrdersArrive, GetFails
  <2>2. RemoveAt(gets, i) \in Seq(Lists)
    BY RemoveAtType DEF NewsOK
  <2>3. gets' \in Seq(Lists)
    BY <2>1, <2>2
  <2>4. gets[i] \in Lists
    OBVIOUS
  <2>5. listed' \in Lists /\ upsets' \subseteq Upsets
    BY <1>13, <2>4 DEF OrdersArrive, GetFails, Upset, Upsets
  <2>6. UNCHANGED <<hubQueue, hubTypes, sent, connection, pushes, open>>
    BY <1>13 DEF OrdersArrive, GetFails, hub
  <2> QED BY <2>3, <2>5, <2>6
<1> QED BY <1>3, <1>4, <1>5, <1>6, <1>7, <1>8, <1>9, <1>10, <1>11, <1>12, <1>13 DEF NewsStep

LEMMA TypeWebhooks ==
  ASSUME HooksOK, WebhooksStep
  PROVE  HooksOK'
<1> USE DEF HooksOK
<1>1. Len(HookEvents) = 3
  BY DEF HookEvents
<1>2. ASSUME NEW r \in Receivers, NEW type \in WebhookTypes,
             SubscribeWebhook(r, type) \/ UnsubscribeWebhook(r, type)
      PROVE  HooksOK'
  BY <1>2 DEF SubscribeWebhook, UnsubscribeWebhook
<1>3. CASE SubscribeHook
  BY <1>1, <1>3 DEF SubscribeHook
<1>4. CASE HandleHook
  BY <1>4 DEF HandleHook
<1>5. CASE DiscardHook \/ HookFails
  BY <1>5, TailType DEF DiscardHook, HookFails, AckUnsent
<1>6. ASSUME NEW r \in Receivers, OnSendData(r)
      PROVE  HooksOK'
  BY <1>6 DEF OnSendData, Call
<1>7. CASE AckHook
  BY <1>7, TailType, WebhooksAssumption DEF AckHook
<1>8. CASE RestartWebhooks
  BY <1>1, <1>8 DEF RestartWebhooks
<1> QED BY <1>2, <1>3, <1>4, <1>5, <1>6, <1>7, <1>8 DEF WebhooksStep

LEMMA TypeNext == TypeInv /\ [Next]_vars => TypeInv'
<1> SUFFICES ASSUME TypeInv, [Next]_vars PROVE TypeInv'
  OBVIOUS
<1>1. ASSUME NEW o \in Orders, OrderMoves(o) \/ CancelOrder(o) \/ CancelOrderAsync(o)
      PROVE  TypeInv'
  <2>1. UNCHANGED <<newsVars, hookVars>>
    BY <1>1 DEF OrderMoves, CancelOrder, CancelOrderAsync
  <2>2. NewsOK' /\ HooksOK'
    BY <2>1 DEF TypeInv, NewsOK, HooksOK, newsVars, hookVars, hub, page
  <2> QED BY <1>1, <2>2, TypeMoves DEF TypeInv
<1>2. ASSUME NEW o \in Orders, NEW i \in DOMAIN announced[o],
             Publish(o, i) \/ LosesAnnouncement(o, i)
      PROVE  TypeInv'
  BY <1>2, TypePublication
<1>3. ASSUME NEW i \in DOMAIN gets, Answers(i)
      PROVE  TypeInv'
  BY <1>3, TypeAnswer
<1>4. CASE NewsStep /\ UNCHANGED <<state, announced, published, cancels, hookVars>>
  <2>1. LifecycleOK' /\ HooksOK'
    BY <1>4 DEF TypeInv, LifecycleOK, HooksOK, hookVars
  <2> QED BY <1>4, <2>1, TypeNews DEF TypeInv
<1>5. CASE WebhooksStep /\ UNCHANGED <<state, announced, published, cancels, newsVars>>
  <2>1. LifecycleOK' /\ NewsOK'
    BY <1>5 DEF TypeInv, LifecycleOK, NewsOK, newsVars, hub, page
  <2> QED BY <1>5, <2>1, TypeWebhooks DEF TypeInv
<1>6. CASE UNCHANGED vars
  BY <1>6 DEF vars, newsVars, hookVars, hub, page, TypeInv, LifecycleOK, NewsOK, HooksOK
<1> QED BY <1>1, <1>2, <1>3, <1>4, <1>5, <1>6 DEF Next

\* Every variable keeps a value of its kind, for any number of orders, receivers and steps.
THEOREM NotificationsTypeCorrect == Spec => []NotificationsTypeOK
<1>1. Spec => []TypeInv
  BY TypeInit, TypeNext, PTL DEF Spec
<1> QED BY <1>1, TypeInvImpliesType, PTL

---------------------------------------------------------------------------
(***************************************************************************)
(* Webhooks.  A message that is owed to a receiver is in the queue or was  *)
(* acknowledged unsent, and while the head of the queue is being sent, who *)
(* is owed it is among those still to be called: whoever is owed it has    *)
(* not unsubscribed, so it was found when the subscribers were read, and a *)
(* message published later is another one.                                 *)
(***************************************************************************)
OwedIsSubscribed == \A d \in owed : d[2].status \in subscriptions[d[1]]
OwedIsSent == sending # Idle => \A d \in owed : d[2] = Head(hooks) => d[1] \in sending
HooksPublished == \A k \in DOMAIN hooks : <<hooks[k].order, hooks[k].nr>> \in published

OwedInv == TypeInv /\ OwedIsSubscribed /\ OwedIsSent /\ HooksPublished /\ NobodyIsForgotten

LEMMA OwedInit == Init => OwedInv
<1> SUFFICES ASSUME Init PROVE OwedInv
  OBVIOUS
<1>1. owed = {} /\ hooks = <<>>
  BY DEF Init, WebhooksInit
<1> QED BY <1>1, TypeInit DEF OwedInv, OwedIsSubscribed, OwedIsSent, HooksPublished, NobodyIsForgotten

LEMMA TailElements ==
  ASSUME NEW S, NEW s \in Seq(S), s # <<>>
  PROVE  /\ DOMAIN Tail(s) = 1 .. Len(s) - 1
         /\ \A j \in 1 .. Len(s) - 1 : Tail(s)[j] = s[j + 1]
         /\ \A k \in DOMAIN s : k # 1 => k - 1 \in DOMAIN Tail(s) /\ Tail(s)[k - 1] = s[k]
OBVIOUS

LEMMA OwedPublish ==
  ASSUME OwedInv, NEW o \in Orders, NEW i \in DOMAIN announced[o], Publish(o, i)
  PROVE  OwedIsSubscribed' /\ OwedIsSent' /\ HooksPublished' /\ NobodyIsForgotten'
<1> DEFINE m == Message(o, i)
<1> USE DEF OwedInv
<1>1. m \in Messages /\ m.order = o /\ m.nr = i
  BY MessageType DEF TypeInv, Message
<1>2. <<m.order, m.nr>> \notin published /\ published' = published \cup {<<m.order, m.nr>>}
  BY <1>1 DEF Publish
<1>3. hooks \in Seq(Messages) /\ (sending # Idle => hooks # <<>>) /\ owed \subseteq Receivers \X Messages
  BY DEF TypeInv, HooksOK
<1> HIDE DEF m
<1>4. CASE m.status \notin WebhookTypes
  <2>1. UNCHANGED hookVars
    BY <1>4 DEF Publish, HookArrives, m
  <2> QED BY <1>2, <2>1 DEF hookVars, OwedIsSubscribed, OwedIsSent, HooksPublished, NobodyIsForgotten
<1>5. CASE m.status \in WebhookTypes
  <2>1. /\ hooks' = Append(hooks, m)
        /\ owed' = owed \cup {<<r, m>> : r \in {x \in Receivers : m.status \in subscriptions[x]}}
        /\ subscriptions' = subscriptions /\ sending' = sending /\ dropped' = dropped
    BY <1>5 DEF Publish, HookArrives, m
  <2>2. /\ DOMAIN hooks' = DOMAIN hooks \cup {Len(hooks) + 1}
        /\ \A k \in DOMAIN hooks : hooks'[k] = hooks[k]
        /\ hooks'[Len(hooks) + 1] = m
    BY <1>1, <1>3, <2>1
  <2>3. ASSUME NEW d \in owed' PROVE d \in owed \/ (d[2] = m /\ m.status \in subscriptions[d[1]])
    BY <2>1
  <2>4. OwedIsSubscribed'
    BY <2>1, <2>3 DEF OwedIsSubscribed
  <2>5. OwedIsSent'
    <3> SUFFICES ASSUME sending # Idle, NEW d \in owed', d[2] = Head(hooks')
                 PROVE  d[1] \in sending
      BY <2>1 DEF OwedIsSent
    <3>1. Head(hooks') = Head(hooks) /\ Head(hooks) = hooks[1] /\ 1 \in DOMAIN hooks
      BY <1>1, <1>3, <2>1
    <3>2. Head(hooks) # m
      BY <1>2, <3>1 DEF HooksPublished
    <3> QED BY <2>3, <3>1, <3>2 DEF OwedIsSent
  <2>6. HooksPublished'
    BY <1>2, <2>2 DEF HooksPublished
  <2>7. NobodyIsForgotten'
    BY <2>1, <2>2, <2>3 DEF NobodyIsForgotten
  <2> QED BY <2>4, <2>5, <2>6, <2>7
<1> QED BY <1>4, <1>5

\* The head of the queue goes: nobody is owed it, or it counts as dropped.
LEMMA OwedTail ==
  ASSUME OwedInv, hooks # <<>>, hooks' = Tail(hooks), sending' = Idle,
         owed' = owed, dropped \subseteq dropped',
         \A d \in owed : d[2] = hooks[1] => d[2] \in dropped',
         subscriptions' = subscriptions, published' = published
  PROVE  OwedIsSubscribed' /\ OwedIsSent' /\ HooksPublished' /\ NobodyIsForgotten'
<1>1. hooks \in Seq(Messages)
  BY DEF OwedInv, TypeInv, HooksOK
<1>2. OwedIsSubscribed' /\ OwedIsSent'
  BY DEF OwedInv, OwedIsSubscribed, OwedIsSent
<1>3. HooksPublished'
  <2> SUFFICES ASSUME NEW j \in DOMAIN Tail(hooks)
               PROVE  <<Tail(hooks)[j].order, Tail(hooks)[j].nr>> \in published
    BY DEF HooksPublished
  <2>1. Tail(hooks)[j] = hooks[j + 1] /\ j + 1 \in DOMAIN hooks
    BY <1>1, TailElements
  <2> QED BY <2>1 DEF OwedInv, HooksPublished
<1>4. NobodyIsForgotten'
  <2> SUFFICES ASSUME NEW d \in owed, d[2] \notin dropped'
               PROVE  \E j \in DOMAIN Tail(hooks) : Tail(hooks)[j] = d[2]
    BY DEF NobodyIsForgotten
  <2>1. PICK k \in DOMAIN hooks : hooks[k] = d[2]
    BY DEF OwedInv, NobodyIsForgotten
  <2>2. k # 1
    BY <2>1
  <2>3. k - 1 \in DOMAIN Tail(hooks) /\ Tail(hooks)[k - 1] = hooks[k]
    BY <1>1, <2>2, TailElements
  <2> QED BY <2>1, <2>3
<1> QED BY <1>2, <1>3, <1>4

LEMMA OwedWebhooks ==
  ASSUME OwedInv, WebhooksStep, published' = published
  PROVE  OwedIsSubscribed' /\ OwedIsSent' /\ HooksPublished' /\ NobodyIsForgotten'
<1> USE DEF OwedIsSubscribed, OwedIsSent, HooksPublished, NobodyIsForgotten
<1>0. OwedIsSubscribed /\ OwedIsSent /\ HooksPublished /\ NobodyIsForgotten
  BY DEF OwedInv
<1>1. /\ subscriptions \in [Receivers -> SUBSET WebhookTypes]
      /\ hooks \in Seq(Messages) /\ (sending # Idle => hooks # <<>>)
      /\ owed \subseteq Receivers \X Messages
  BY DEF OwedInv, TypeInv, HooksOK
<1>2. ASSUME NEW r \in Receivers, NEW type \in WebhookTypes, SubscribeWebhook(r, type)
      PROVE  OwedIsSubscribed' /\ OwedIsSent' /\ HooksPublished' /\ NobodyIsForgotten'
  BY <1>0, <1>1, <1>2 DEF SubscribeWebhook
<1>3. ASSUME NEW r \in Receivers, NEW type \in WebhookTypes, UnsubscribeWebhook(r, type)
      PROVE  OwedIsSubscribed' /\ OwedIsSent' /\ HooksPublished' /\ NobodyIsForgotten'
  BY <1>0, <1>1, <1>3 DEF UnsubscribeWebhook
<1>4. CASE SubscribeHook \/ RestartWebhooks
  BY <1>0, <1>4 DEF SubscribeHook, RestartWebhooks
<1>5. CASE HandleHook
  BY <1>0, <1>1, <1>5 DEF HandleHook
<1>6. CASE DiscardHook \/ HookFails
  <2>1. /\ hooks # <<>> /\ hooks' = Tail(hooks) /\ sending' = Idle
        /\ owed' = owed /\ subscriptions' = subscriptions
        /\ dropped' = dropped \cup {Head(hooks)}
    BY <1>6 DEF DiscardHook, HookFails, AckUnsent
  <2>2. Head(hooks) = hooks[1]
    BY <1>1, <2>1, TailType
  <2> QED BY <2>1, <2>2, OwedTail
<1>7. ASSUME NEW r \in Receivers, OnSendData(r)
      PROVE  OwedIsSubscribed' /\ OwedIsSent' /\ HooksPublished' /\ NobodyIsForgotten'
  <2>1. /\ sending # Idle
        /\ sending' = sending \ {r}
        /\ owed' = owed \ {<<r, Head(hooks)>>}
        /\ UNCHANGED <<subscriptions, hooks, dropped>>
    BY <1>7 DEF OnSendData, Call
  <2> QED BY <1>0, <1>1, <2>1
<1>8. CASE AckHook
  <2>1. sending # Idle /\ sending = {}
    BY <1>8, WebhooksAssumption DEF AckHook
  <2>2. /\ hooks # <<>> /\ hooks' = Tail(hooks) /\ sending' = Idle
        /\ UNCHANGED <<owed, dropped, subscriptions>>
    BY <1>1, <1>8, <2>1 DEF AckHook
  <2>3. \A d \in owed : d[2] # hooks[1]
    BY <1>0, <1>1, <2>1, <2>2, TailType
  <2> QED BY <2>2, <2>3, OwedTail
<1> QED BY <1>2, <1>3, <1>4, <1>5, <1>6, <1>7, <1>8 DEF WebhooksStep

LEMMA OwedNext == OwedInv /\ [Next]_vars => OwedInv'
<1> SUFFICES ASSUME OwedInv, [Next]_vars PROVE OwedInv'
  OBVIOUS
<1>1. TypeInv'
  BY TypeNext DEF OwedInv
<1>2. OwedIsSubscribed' /\ OwedIsSent' /\ HooksPublished' /\ NobodyIsForgotten'
  <2>1. ASSUME NEW o \in Orders, NEW i \in DOMAIN announced[o], Publish(o, i)
        PROVE  OwedIsSubscribed' /\ OwedIsSent' /\ HooksPublished' /\ NobodyIsForgotten'
    BY <2>1, OwedPublish
  <2>2. CASE WebhooksStep /\ published' = published
    BY <2>2, OwedWebhooks
  <2>3. CASE UNCHANGED hookVars /\ published \subseteq published'
    BY <2>3 DEF hookVars, OwedInv, OwedIsSubscribed, OwedIsSent, HooksPublished, NobodyIsForgotten
  <2>4. \/ \E o \in Orders : \E i \in DOMAIN announced[o] : Publish(o, i)
        \/ WebhooksStep /\ published' = published
        \/ UNCHANGED hookVars /\ published \subseteq published'
    BY DEF Next, vars, OrderMoves, CancelOrder, CancelOrderAsync, LosesAnnouncement, Answers
  <2> QED BY <2>1, <2>2, <2>3, <2>4
<1> QED BY <1>1, <1>2 DEF OwedInv

\* Whoever was subscribed when an event was published has been called about it, or has
\* unsubscribed, or the message is still in the queue, or it is one of those that were
\* acknowledged without a call to anybody: for any number of receivers and restarts.
THEOREM ReceiversAreCalled == Spec => []NobodyIsForgotten
<1>1. OwedInv => NobodyIsForgotten
  BY DEF OwedInv
<1> QED BY <1>1, OwedInit, OwedNext, PTL DEF Spec

---------------------------------------------------------------------------
(***************************************************************************)
(* The order page.  News of an order is on its way as long as its last     *)
(* announcement was not sent: it is not published, or is queued at the hub *)
(* (the head of the queue no longer counts once it was sent), or a message *)
(* is on its way to the browser.  What the page was answered last is then  *)
(* stale only while there is such news.                                    *)
(***************************************************************************)
OnlyAnnouncedIsPublished == \A p \in published : p[2] <= Len(announced[p[1]])

LastIsState ==
    \A o \in Orders :
        announced[o] # <<>> /\ state[o] # "Cancelled" => announced[o][Len(announced[o])] = state[o]

Queued(o, k) == hubQueue[k].order = o /\ hubQueue[k].nr = Len(announced[o])

Coming(o) ==
    \/ <<o, Len(announced[o])>> \notin published
    \/ \E k \in DOMAIN hubQueue : Queued(o, k) /\ (k = 1 => ~sent)
    \/ pushes > 0

Current(o) ==
    \/ ~IsAnnounced(o)
    \/ LatestAnswer = Unknown
    \/ LatestAnswer[o] = state[o]
    \/ Coming(o)

Informed == open /\ upsets = {} => \A o \in Orders : Current(o)

PageInv == TypeInv /\ OnlyAnnouncedIsPublished /\ LastIsState /\ Informed

LEMMA PageInvImplies == PageInv => PageCatchesUp
BY DEF PageInv, Informed, Current, Coming, Queued, PageCatchesUp, InTheNews

LEMMA PageInit == Init => PageInv
<1> SUFFICES ASSUME Init PROVE PageInv
  OBVIOUS
<1>1. published = {} /\ open = FALSE /\ \A o \in Orders : announced[o] = <<>>
  BY DEF Init, NewsInit
<1> QED BY <1>1, TypeInit DEF PageInv, OnlyAnnouncedIsPublished, LastIsState, Informed

\* An order takes a status and announces it: the announcement is not yet published.
LEMMA PageEnter ==
  ASSUME PageInv, NEW o \in Orders, NEW s \in Lifecycle!Stages, Lifecycle!Enter(o, s),
         published' = published, UNCHANGED newsVars
  PROVE  OnlyAnnouncedIsPublished' /\ LastIsState' /\ Informed'
<1>1. /\ state' = [state EXCEPT ![o] = s]
      /\ announced' = [announced EXCEPT ![o] = Append(announced[o], s)]
  BY DEF Lifecycle!Enter
<1>2. /\ state \in [Orders -> Lifecycle!Stages]
      /\ announced \in [Orders -> Seq(Lifecycle!Stages)]
      /\ published \subseteq Orders \X (1 .. MaxAnnounced) /\ MaxAnnounced \in Nat
  BY NotificationsAssumption DEF PageInv, TypeInv, LifecycleOK
<1>3. /\ Len(announced'[o]) = Len(announced[o]) + 1 /\ announced'[o][Len(announced'[o])] = s
      /\ Len(announced[o]) \in Nat /\ state'[o] = s
  BY <1>1, <1>2
<1>4. \A x \in Orders : x # o => announced'[x] = announced[x] /\ state'[x] = state[x]
  BY <1>1, <1>2
<1>5. OnlyAnnouncedIsPublished'
  <2> SUFFICES ASSUME NEW p \in published PROVE p[2] <= Len(announced'[p[1]])
    BY DEF OnlyAnnouncedIsPublished
  <2>1. p[2] <= Len(announced[p[1]]) /\ p[1] \in Orders /\ p[2] \in Nat
    BY <1>2 DEF PageInv, OnlyAnnouncedIsPublished
  <2> QED BY <1>3, <1>4, <2>1
<1>6. LastIsState'
  BY <1>3, <1>4 DEF PageInv, LastIsState
<1>7. Informed'
  <2> SUFFICES ASSUME open, upsets = {}, NEW x \in Orders PROVE Current(x)'
    BY DEF Informed, newsVars, page
  <2>1. Current(x) /\ UNCHANGED <<hubQueue, sent, pushes, LatestAnswer>>
    BY DEF PageInv, Informed, newsVars, hub, page, LatestAnswer
  <2>2. CASE x = o
    <3>1. <<o, Len(announced'[o])>> \notin published'
      BY <1>2, <1>3 DEF PageInv, OnlyAnnouncedIsPublished
    <3> QED BY <2>2, <3>1 DEF Current, Coming
  <2>3. CASE x # o
    <3>1. announced'[x] = announced[x] /\ state'[x] = state[x] /\ published' = published
      BY <1>4, <2>3
    <3> QED BY <2>1, <3>1 DEF Current, Coming, Queued, IsAnnounced
  <2> QED BY <2>2, <2>3
<1> QED BY <1>5, <1>6, <1>7

LEMMA PageMoves ==
  ASSUME PageInv, NEW o \in Orders, OrderMoves(o) \/ CancelOrder(o) \/ CancelOrderAsync(o)
  PROVE  OnlyAnnouncedIsPublished' /\ LastIsState' /\ Informed'
<1>1. published' = published /\ UNCHANGED newsVars
  BY DEF OrderMoves, CancelOrder, CancelOrderAsync
<1>2. CASE \E s \in Lifecycle!Stages : Lifecycle!Enter(o, s)
  BY <1>1, <1>2, PageEnter
<1>3. CASE UNCHANGED <<state, announced>>
  BY <1>1, <1>3 DEF PageInv, OnlyAnnouncedIsPublished, LastIsState, Informed, Current, Coming,
     Queued, IsAnnounced, LatestAnswer, newsVars, hub, page
<1>4. CASE Lifecycle!RejectStock(o)
  <2>1. /\ state[o] = "AwaitingValidation" /\ announced' = announced
        /\ state' = [state EXCEPT ![o] = "Cancelled"]
    BY <1>4 DEF Lifecycle!RejectStock
  <2>2. state \in [Orders -> Lifecycle!Stages] /\ announced \in [Orders -> Seq(Lifecycle!Stages)]
    BY DEF PageInv, TypeInv, LifecycleOK
  <2>3. /\ state'[o] = "Cancelled"
        /\ \A x \in Orders : x # o => state'[x] = state[x]
    BY <2>1, <2>2
  <2>4. OnlyAnnouncedIsPublished' /\ LastIsState'
    BY <1>1, <2>1, <2>3 DEF PageInv, OnlyAnnouncedIsPublished, LastIsState
  <2>5. ~IsAnnounced(o)'
    <3>1. announced[o] # <<>> => announced[o][Len(announced[o])] = "AwaitingValidation"
      BY <2>1 DEF PageInv, LastIsState
    <3> QED BY <2>1, <2>3, <3>1 DEF IsAnnounced, Last
  <2>6. Informed'
    <3> SUFFICES ASSUME open, upsets = {}, NEW x \in Orders, x # o PROVE Current(x)'
      BY <1>1, <2>5 DEF Informed, Current, newsVars, page
    <3>1. Current(x)
      BY DEF PageInv, Informed
    <3>2. UNCHANGED <<hubQueue, sent, pushes, LatestAnswer, announced, published>>
      BY <1>1, <2>1 DEF newsVars, hub, page, LatestAnswer
    <3> QED BY <2>3, <3>1, <3>2 DEF Current, Coming, Queued, IsAnnounced
  <2> QED BY <2>4, <2>6
<1>5. \/ \E s \in Lifecycle!Stages : Lifecycle!Enter(o, s)
      \/ UNCHANGED <<state, announced>>
      \/ Lifecycle!RejectStock(o)
  BY AdvanceEnters DEF OrderMoves, CancelOrder, CancelOrderAsync, Lifecycle!Cancel, Lifecycle!Stages
<1> QED BY <1>2, <1>3, <1>4, <1>5

\* What keeps the page informed: nothing was upset that is not now, what it was answered
\* last is the same or is to be answered, and news that was coming still is.
LEMMA StillInformed ==
  ASSUME PageInv, UNCHANGED <<state, announced>>,
         open' /\ upsets' = {} =>
             \/ open /\ upsets = {} /\ LatestAnswer' = LatestAnswer
                     /\ \A o \in Orders : Coming(o) => Coming(o)'
             \/ LatestAnswer' \in {Unknown, state}
             \/ pushes' > 0
  PROVE  Informed'
<1> SUFFICES ASSUME open', upsets' = {}, NEW o \in Orders PROVE Current(o)'
  BY DEF Informed
<1>1. CASE open /\ upsets = {} /\ LatestAnswer' = LatestAnswer
           /\ \A x \in Orders : Coming(x) => Coming(x)'
  <2>1. Current(o)
    BY <1>1 DEF PageInv, Informed
  <2> QED BY <1>1, <2>1 DEF Current, IsAnnounced
<1>2. CASE LatestAnswer' \in {Unknown, state}
  BY <1>2 DEF Current
<1>3. CASE pushes' > 0
  BY <1>3 DEF Current, Coming
<1> QED BY <1>1, <1>2, <1>3

LEMMA PagePublication ==
  ASSUME PageInv, NEW o \in Orders, NEW i \in DOMAIN announced[o],
         Publish(o, i) \/ LosesAnnouncement(o, i)
  PROVE  OnlyAnnouncedIsPublished' /\ LastIsState' /\ Informed'
<1>1. published' = published \cup {<<o, i>>} /\ UNCHANGED <<state, announced>>
  BY DEF Publish, LosesAnnouncement
<1>2. i <= Len(announced[o])
  BY DEF PageInv, TypeInv, LifecycleOK
<1>3. OnlyAnnouncedIsPublished' /\ LastIsState'
  BY <1>1, <1>2 DEF PageInv, OnlyAnnouncedIsPublished, LastIsState
<1>4. CASE LosesAnnouncement(o, i)
  <2>1. upsets' # {}
    BY <1>4 DEF LosesAnnouncement, Upset
  <2> QED BY <1>3, <2>1 DEF Informed
<1>5. CASE Publish(o, i)
  <2>1. /\ hubQueue' = Append(hubQueue, Message(o, i))
        /\ UNCHANGED <<sent, pushes, open, upsets, LatestAnswer>>
    BY <1>5 DEF Publish, HubMessageArrives, page, LatestAnswer
  <2>2. hubQueue \in Seq(Messages) /\ (sent => hubQueue # <<>>) /\ Message(o, i) \in Messages
    BY MessageType DEF PageInv, TypeInv, NewsOK
  <2>3. /\ Len(hubQueue) + 1 \in DOMAIN hubQueue'
        /\ hubQueue'[Len(hubQueue) + 1] = Message(o, i)
        /\ Len(hubQueue) + 1 = 1 => hubQueue = <<>>
        /\ \A k \in DOMAIN hubQueue : k \in DOMAIN hubQueue' /\ hubQueue'[k] = hubQueue[k]
    BY <2>1, <2>2
  <2>4. ASSUME NEW x \in Orders, Coming(x) PROVE Coming(x)'
    <3>1. CASE <<x, Len(announced[x])>> \in published' /\ <<x, Len(announced[x])>> \notin published
      <4>1. x = o /\ i = Len(announced[o])
        BY <1>1, <3>1
      <4>2. PICK n \in Nat : n = Len(hubQueue) + 1
        BY <2>2
      <4>3. Queued(o, n)'
        BY <1>1, <2>3, <4>1, <4>2 DEF Queued, Message
      <4> QED BY <2>1, <2>2, <2>3, <4>1, <4>2, <4>3 DEF Coming
    <3>2. ASSUME NEW k \in DOMAIN hubQueue, Queued(x, k), k = 1 => ~sent
          PROVE  Coming(x)'
      BY <1>1, <2>1, <2>3, <3>2 DEF Coming, Queued
    <3> QED BY <1>1, <2>1, <2>4, <3>1, <3>2 DEF Coming
  <2> QED BY <1>1, <1>3, <2>1, <2>4, StillInformed
<1> QED BY <1>4, <1>5

LEMMA PageAnswer ==
  ASSUME PageInv, NEW i \in DOMAIN gets, Answers(i)
  PROVE  OnlyAnnouncedIsPublished' /\ LastIsState' /\ Informed'
<1>1. /\ gets' = [gets EXCEPT ![i] = state]
      /\ UNCHANGED <<state, announced, published, hubQueue, sent, pushes, open, listed>>
      /\ upsets \subseteq upsets'
  BY DEF Answers, GetOrdersAsync, Upset, hub
<1>2. OnlyAnnouncedIsPublished' /\ LastIsState'
  BY <1>1 DEF PageInv, OnlyAnnouncedIsPublished, LastIsState
<1>3. gets \in Seq(Lists)
  BY DEF PageInv, TypeInv, NewsOK
<1>4. gets # <<>> /\ gets' # <<>> /\ Len(gets') = Len(gets) /\ Len(gets) \in DOMAIN gets
  BY <1>1, <1>3
<1>5. LatestAnswer = gets[Len(gets)] /\ LatestAnswer' = gets'[Len(gets)]
  BY <1>4 DEF LatestAnswer, Last
<1>6. LatestAnswer' = state \/ LatestAnswer' = LatestAnswer
  BY <1>1, <1>3, <1>4, <1>5
<1>7. \A o \in Orders : Coming(o) => Coming(o)'
  BY <1>1 DEF Coming, Queued
<1> QED BY <1>1, <1>2, <1>6, <1>7, StillInformed

LEMMA PageNews ==
  ASSUME PageInv, NewsStep, UNCHANGED <<state, announced, published>>
  PROVE  Informed'
<1> DEFINE Steady == LatestAnswer' = LatestAnswer /\ \A o \in Orders : Coming(o) => Coming(o)'
<1>0. /\ hubQueue \in Seq(Messages) /\ (sent => hubQueue # <<>>) /\ sent \in BOOLEAN
      /\ gets \in Seq(Lists) /\ pushes \in Nat
  BY DEF PageInv, TypeInv, NewsOK
<1>1. CASE SubscribeHub \/ Connects \/ GivesUp
  <2>1. UNCHANGED <<hubQueue, sent, pushes, open, listed, gets, upsets>>
    BY <1>1 DEF SubscribeHub, Connects, GivesUp, hub, page
  <2>2. Steady
    BY <2>1 DEF Coming, Queued, LatestAnswer
  <2> QED BY <2>1, <2>2, StillInformed
<1>2. CASE HandleHub
  <2>1. (pushes' = pushes + 1) \/ upsets' # {}
    BY <1>2 DEF HandleHub, Upset
  <2> QED BY <1>0, <2>1, StillInformed
<1>3. CASE HubDrops
  BY <1>3 DEF HubDrops, Upset, Informed
<1>4. CASE AckHub
  <2>1. sent /\ sent' = FALSE /\ hubQueue' = Tail(hubQueue)
        /\ UNCHANGED <<pushes, open, listed, gets, upsets>>
    BY <1>4 DEF AckHub, page
  <2>2. ASSUME NEW o \in Orders, Coming(o) PROVE Coming(o)'
    <3>1. ASSUME NEW k \in DOMAIN hubQueue, Queued(o, k), k = 1 => ~sent
          PROVE  Coming(o)'
      <4>1. k # 1
        BY <2>1, <3>1
      <4>2. k - 1 \in DOMAIN hubQueue' /\ hubQueue'[k - 1] = hubQueue[k]
        BY <1>0, <2>1, <4>1, TailElements
      <4>3. Queued(o, k - 1)'
        BY <3>1, <4>2 DEF Queued
      <4> QED BY <2>1, <4>2, <4>3 DEF Coming
    <3> QED BY <2>1, <2>2, <3>1 DEF Coming
  <2>3. Steady
    BY <2>1, <2>2 DEF LatestAnswer
  <2> QED BY <2>1, <2>3, StillInformed
<1>5. CASE RestartHub \/ Disconnects
  <2>1. /\ upsets' = (IF pushes > 0 THEN upsets \cup {"missed"} ELSE upsets)
        /\ sent' = sent \/ sent' = FALSE
        /\ UNCHANGED <<hubQueue, open, listed, gets>>
    BY <1>5 DEF RestartHub, Disconnects, Upset, hub, page
  <2>2. CASE pushes > 0
    BY <2>1, <2>2 DEF Informed
  <2>3. CASE ~(pushes > 0)
    <3>1. \A o \in Orders : Coming(o) => Coming(o)'
      BY <2>1, <2>3 DEF Coming, Queued
    <3>2. Steady
      BY <2>1, <3>1 DEF LatestAnswer
    <3> QED BY <2>1, <2>3, <3>2, StillInformed
  <2> QED BY <2>2, <2>3
<1>6. CASE OpenOrders
  <2>1. gets' = <<Unknown>>
    BY <1>6 DEF OpenOrders
  <2>2. LatestAnswer' = Unknown
    BY <2>1 DEF LatestAnswer, Last
  <2> QED BY <2>2, StillInformed
<1>7. CASE LeaveOrders
  BY <1>7 DEF LeaveOrders, Informed
<1>8. CASE MsgReceived
  <2>1. open' = open
    BY <1>8 DEF MsgReceived
  <2>2. CASE open
    <3>1. gets' = Append(gets, Unknown)
      BY <1>8, <2>2 DEF MsgReceived, GetOrders
    <3>2. gets' # <<>> /\ gets'[Len(gets')] = Unknown
      BY <1>0, <3>1, UnknownIsList
    <3>3. LatestAnswer' = Unknown
      BY <3>2 DEF LatestAnswer, Last
    <3> QED BY <3>3, StillInformed
  <2> QED BY <2>1, <2>2 DEF Informed
<1>9. ASSUME NEW i \in DOMAIN gets, OrdersArrive(i) PROVE Informed'
  <2>1. /\ listed' = gets[i] /\ gets' = RemoveAt(gets, i)
        /\ upsets' = (IF i > 1 THEN upsets \cup {"overtaken"} ELSE upsets)
        /\ UNCHANGED <<hubQueue, sent, pushes, open>>
    BY <1>9 DEF OrdersArrive, Upset, hub
  <2>2. CASE i > 1
    BY <2>1, <2>2 DEF Informed
  <2>3. CASE ~(i > 1)
    <3>1. /\ i = 1 /\ gets # <<>> /\ LatestAnswer = gets[Len(gets)] /\ Len(gets) \in Nat \ {0}
      BY <1>0, <2>3 DEF LatestAnswer, Last
    <3>2. /\ gets' \in Seq(Lists) /\ Len(gets') = Len(gets) - 1
          /\ \A j \in 1 .. Len(gets) - 1 : gets'[j] = gets[j + 1]
      BY <1>0, <2>1, <3>1, RemoveAtType
    <3>3. LatestAnswer' = LatestAnswer
      <4>1. CASE gets' = <<>>
        <5>1. Len(gets) = 1
          BY <3>1, <3>2, <4>1
        <5> QED BY <2>1, <3>1, <4>1, <5>1 DEF LatestAnswer
      <4>2. CASE gets' # <<>>
        <5>1. Len(gets) - 1 \in 1 .. Len(gets) - 1
          BY <3>1, <3>2, <4>2
        <5>2. gets'[Len(gets')] = gets[Len(gets)]
          BY <3>1, <3>2, <5>1
        <5> QED BY <3>1, <4>2, <5>2 DEF LatestAnswer, Last
      <4> QED BY <4>1, <4>2
    <3>4. Steady
      BY <2>1, <3>3 DEF Coming, Queued
    <3> QED BY <2>1, <2>3, <3>4, StillInformed
  <2> QED BY <2>2, <2>3
<1>10. ASSUME NEW i \in DOMAIN gets, GetFails(i) PROVE Informed'
  BY <1>10 DEF GetFails, Upset, Informed
<1> QED BY <1>1, <1>2, <1>3, <1>4, <1>5, <1>6, <1>7, <1>8, <1>9, <1>10 DEF NewsStep

LEMMA PageNext == PageInv /\ [Next]_vars => PageInv'
<1> SUFFICES ASSUME PageInv, [Next]_vars PROVE PageInv'
  OBVIOUS
<1>1. TypeInv'
  BY TypeNext DEF PageInv
<1>2. ASSUME NEW o \in Orders, OrderMoves(o) \/ CancelOrder(o) \/ CancelOrderAsync(o)
      PROVE  PageInv'
  BY <1>1, <1>2, PageMoves DEF PageInv
<1>3. ASSUME NEW o \in Orders, NEW i \in DOMAIN announced[o],
             Publish(o, i) \/ LosesAnnouncement(o, i)
      PROVE  PageInv'
  BY <1>1, <1>3, PagePublication DEF PageInv
<1>4. ASSUME NEW i \in DOMAIN gets, Answers(i)
      PROVE  PageInv'
  BY <1>1, <1>4, PageAnswer DEF PageInv
<1>5. CASE NewsStep /\ UNCHANGED <<state, announced, published, cancels, hookVars>>
  <2>1. OnlyAnnouncedIsPublished' /\ LastIsState'
    BY <1>5 DEF PageInv, OnlyAnnouncedIsPublished, LastIsState
  <2> QED BY <1>1, <1>5, <2>1, PageNews DEF PageInv
<1>6. CASE UNCHANGED <<state, announced, published, cancels, newsVars>>
  BY <1>1, <1>6 DEF PageInv, OnlyAnnouncedIsPublished, LastIsState, Informed, Current, Coming,
     Queued, IsAnnounced, LatestAnswer, newsVars, hub, page
<1> QED BY <1>2, <1>3, <1>4, <1>5, <1>6 DEF Next, vars

\* Unless news was missed, or a request failed or was overtaken, an open order page knows of
\* every announced change or will be told.
THEOREM PageHearsOfChanges == Spec => []PageCatchesUp
BY PageInit, PageNext, PageInvImplies, PTL DEF Spec
=============================================================================
