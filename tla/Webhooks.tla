------------------------------ MODULE Webhooks ------------------------------
(***************************************************************************)
(* Webhooks.API: passes the events of the order process on to whoever has  *)
(* subscribed to their type.  A message is sent to all its receivers at    *)
(* once and is acknowledged when every call has ended, even if some of     *)
(* them failed; one that was being sent when the process died is delivered *)
(* and sent again.                                                         *)
(***************************************************************************)
EXTENDS Naturals, FiniteSets, Sequences, SequencesExt

CONSTANTS
    Receivers,
    Idle,            \* no message is being sent
    MaxSubscribings, \* how often a receiver subscribes or unsubscribes
    MaxHookRestarts

VARIABLES
    subscriptions,  \* the types each receiver has subscribed to
    hooks,          \* the messages in the service's queue
    hookTypes,      \* how many Subscribe calls the process has made
    sending,        \* the receivers the head of the queue is still being sent to
    owed,           \* receiver and message: subscribed when the event was published, and
                    \* since then neither called nor unsubscribed
    dropped,        \* the messages acknowledged without a call to anybody
    subscribings, hookRestarts

hookVars == <<subscriptions, hooks, hookTypes, sending, owed, dropped,
              subscribings, hookRestarts>>

ASSUME WebhooksAssumption ==
    /\ \A rs \in SUBSET Receivers : Idle # rs
    /\ MaxSubscribings \in Nat /\ MaxHookRestarts \in Nat

\* In the order of ConfigureEventBus; a price change has a handler that does nothing.
HookEvents == <<"PriceChanged", "Shipped", "Paid">>

\* The types somebody may subscribe to, of those the order process announces.
WebhookTypes == {"Shipped", "Paid"}

Subscribed(status, n) == \E k \in 1 .. n : HookEvents[k] = status

\* The counters start anywhere: that leaves fewer of the bounded steps, and no others.
WebhooksInit ==
    /\ subscriptions \in [Receivers -> SUBSET WebhookTypes]
    /\ hooks = <<>>
    /\ hookTypes = Len(HookEvents)
    /\ sending = Idle
    /\ owed = {}
    /\ dropped = {}
    /\ subscribings \in 0 .. MaxSubscribings
    /\ hookRestarts \in 0 .. MaxHookRestarts

\* The bus puts a message into the queue.
HookArrives(m) ==
    IF m.status \in WebhookTypes
    THEN /\ hooks' = Append(hooks, m)
         /\ owed' = owed \cup {<<r, m>> : r \in {x \in Receivers : m.status \in subscriptions[x]}}
         /\ UNCHANGED <<subscriptions, hookTypes, sending, dropped, subscribings, hookRestarts>>
    ELSE UNCHANGED hookVars

\* Its grant URL has answered.
SubscribeWebhook(r, type) ==
    /\ subscribings < MaxSubscribings
    /\ type \notin subscriptions[r]
    /\ subscriptions' = [subscriptions EXCEPT ![r] = @ \cup {type}]
    /\ subscribings' = subscribings + 1
    /\ UNCHANGED <<hooks, hookTypes, sending, owed, dropped, hookRestarts>>

UnsubscribeWebhook(r, type) ==
    /\ subscribings < MaxSubscribings
    /\ type \in subscriptions[r]
    /\ subscriptions' = [subscriptions EXCEPT ![r] = @ \ {type}]
    /\ owed' = {d \in owed : d[1] # r \/ d[2].status # type}
    /\ subscribings' = subscribings + 1
    /\ UNCHANGED <<hooks, hookTypes, sending, dropped, hookRestarts>>

\* Does not begin to consume after a restart.
CarelessSubscribeHook ==
    /\ hookTypes > 0
    /\ hookTypes < Len(HookEvents)
    /\ hookTypes' = hookTypes + 1
    /\ UNCHANGED <<subscriptions, hooks, sending, owed, dropped, subscribings, hookRestarts>>

SubscribeHook ==
    /\ hookTypes < Len(HookEvents)
    /\ hookTypes' = hookTypes + 1
    /\ UNCHANGED <<subscriptions, hooks, sending, owed, dropped, subscribings, hookRestarts>>

\* The subscribers are read, and SendAll starts a call to each of them.
HandleHook ==
    /\ hookTypes > 0 /\ hooks # <<>> /\ sending = Idle
    /\ Subscribed(Head(hooks).status, hookTypes)
    /\ sending' = {r \in Receivers : Head(hooks).status \in subscriptions[r]}
    /\ UNCHANGED <<subscriptions, hooks, hookTypes, owed, dropped, subscribings, hookRestarts>>

AckUnsent ==
    /\ hookTypes > 0 /\ hooks # <<>> /\ sending = Idle
    /\ hooks' = Tail(hooks)
    /\ dropped' = dropped \cup {Head(hooks)}
    /\ UNCHANGED <<subscriptions, hookTypes, sending, owed, subscribings, hookRestarts>>

\* The process has not yet subscribed to the type: a warning, and an acknowledgement.
DiscardHook == AckUnsent /\ ~Subscribed(Head(hooks).status, hookTypes)

\* The subscribers cannot be read: the exception is logged, the message acknowledged.
HookFails == AckUnsent /\ Subscribed(Head(hooks).status, hookTypes)

\* Gives up at the first receiver that cannot be reached.
CarelessCall(r, reached) ==
    /\ sending' = IF reached THEN sending \ {r} ELSE {}
    /\ owed' = owed \ {<<r, Head(hooks)>>}

\* Every call is under way by now, and takes its course.
Call(r, reached) ==
    /\ reached \in BOOLEAN
    /\ sending' = sending \ {r}
    /\ owed' = owed \ {<<r, Head(hooks)>>}

OnSendData(r) ==
    /\ sending # Idle
    /\ r \in sending
    /\ \E reached \in BOOLEAN : Call(r, reached)
    /\ UNCHANGED <<subscriptions, hooks, hookTypes, dropped, subscribings, hookRestarts>>

\* WhenAll returns or throws when every call has ended.
AckHook ==
    /\ sending = {}
    /\ sending' = Idle
    /\ hooks' = Tail(hooks)
    /\ UNCHANGED <<subscriptions, hookTypes, owed, dropped, subscribings, hookRestarts>>

RestartWebhooks ==
    /\ hookRestarts < MaxHookRestarts
    /\ hookRestarts' = hookRestarts + 1
    /\ hookTypes' = 0
    /\ sending' = Idle
    /\ UNCHANGED <<subscriptions, hooks, owed, dropped, subscribings>>

WebhooksStep ==
    \/ \E r \in Receivers, type \in WebhookTypes :
           SubscribeWebhook(r, type) \/ UnsubscribeWebhook(r, type)
    \/ SubscribeHook \/ HandleHook \/ DiscardHook \/ HookFails
    \/ \E r \in Receivers : OnSendData(r)
    \/ AckHook \/ RestartWebhooks
=============================================================================
