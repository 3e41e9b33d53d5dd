---------------------------- MODULE EShopProofs ----------------------------
(***************************************************************************)
(* Theorems about the whole process, for any number of orders, users,      *)
(* products, faults and restarts.  The composition is a behaviour of the   *)
(* open component: whatever the other services do, they do to Ordering     *)
(* only what its environment may do, so what is proved of Ordering alone   *)
(* holds in it.  Beyond that its variables are well typed, an order moves  *)
(* on only for the cause it should have, a customer is charged once more   *)
(* only when Payment.API restarts, and stock leaves the catalog for paid   *)
(* orders only.                                                            *)
(***************************************************************************)
EXTENDS EShop, LifecycleProofs

\* Catalog has a reply at hand whenever it is about to publish one.
ReplyReady == catalogPc = "publish" => reply \in {"OrderStockConfirmed", "OrderStockRejected"}

LEMMA ReplyReadyInit == EShopInit => ReplyReady
BY DEF EShopInit, Catalog!CatalogInit, ReplyReady

LEMMA ReplyReadyNext == ReplyReady /\ [EShopNext]_eshopVars => ReplyReady'
<1> SUFFICES ASSUME ReplyReady, [EShopNext]_eshopVars PROVE ReplyReady'
    OBVIOUS
<1>1. CASE OrderingStep
    BY <1>1 DEF OrderingStep, catalog, ReplyReady
<1>2. CASE \E r \in Checkouts : CheckoutAsync(r)
    BY <1>2 DEF CheckoutAsync, catalog, ReplyReady
<1>3. CASE CheckConfirmedGracePeriodOrders
    BY <1>3 DEF CheckConfirmedGracePeriodOrders, catalog, ReplyReady
<1>4. ASSUME NEW o \in Orders,
             \/ GracePeriodPasses(o) \/ PublishGracePeriodConfirmed(o)
             \/ PaymentTakesPayment(o)
      PROVE  ReplyReady'
    BY <1>4 DEF GracePeriodPasses, PublishGracePeriodConfirmed, PaymentTakesPayment,
                catalog, ReplyReady
<1>5. ASSUME NEW o \in Orders, CatalogValidatesStock(o) PROVE ReplyReady'
    BY <1>5 DEF CatalogValidatesStock, Catalog!ValidateStock, Catalog!CannotValidateStock, ReplyReady
<1>6. ASSUME NEW o \in Orders, CatalogPublishesReply(o) PROVE ReplyReady'
    BY <1>6 DEF CatalogPublishesReply, Catalog!PublishReply, ReplyReady
<1>7. ASSUME NEW o \in Orders, CatalogTakesStock(o) PROVE ReplyReady'
    BY <1>7 DEF CatalogTakesStock, Catalog!TakeStock, ReplyReady
<1>8. CASE CatalogAcknowledges
    BY <1>8 DEF CatalogAcknowledges, Catalog!CatalogAcknowledges, ReplyReady
<1>9. CASE PaymentAcknowledges
    BY <1>9 DEF PaymentAcknowledges, catalog, ReplyReady
<1>10. CASE \E s \in Others : ServiceRestarts(s)
    BY <1>10 DEF ServiceRestarts, Catalog!CatalogRestarts, catalog, ReplyReady
<1>11. CASE CatalogSubscribes
    BY <1>11 DEF CatalogSubscribes, Catalog!CatalogSubscribes, ReplyReady
<1>12. CASE CatalogDiscards
    BY <1>12 DEF CatalogDiscards, Catalog!CatalogDiscards, Catalog!catalogVars, ReplyReady
<1>13. ASSUME NEW p \in Discontinued, ProductIsDeleted(p) PROVE ReplyReady'
    BY <1>13 DEF ProductIsDeleted, Catalog!DeleteProduct, ReplyReady
<1>14. CASE UNCHANGED eshopVars
    BY <1>14 DEF eshopVars, ReplyReady
<1> QED
    BY <1>1, <1>2, <1>3, <1>4, <1>5, <1>6, <1>7, <1>8, <1>9, <1>10, <1>11, <1>12, <1>13, <1>14
    DEF EShopNext

---------------------------------------------------------------------------
LEMMA MessagesAreInbound ==
    ASSUME NEW type \in InboundTypes \ {"UserCheckoutAccepted"}, NEW o \in Orders
    PROVE  [type |-> type, about |-> o] \in Inbound
BY DEF Inbound

LEMMA CheckoutIsInbound ==
    ASSUME NEW r \in Checkouts
    PROVE  [type |-> "UserCheckoutAccepted", about |-> r] \in Inbound
BY EShopAssumption DEF Inbound, EShopAssumption

\* Every step of the process is a step of Ordering, or none of its business.
LEMMA EShopStep == ReplyReady /\ [EShopNext]_eshopVars => [Next]_vars
<1> SUFFICES ASSUME ReplyReady, [EShopNext]_eshopVars PROVE [Next]_vars
    OBVIOUS
<1>1. CASE OrderingStep
    BY <1>1 DEF OrderingStep, Next
<1>2. ASSUME NEW r \in Checkouts, CheckoutAsync(r) PROVE Next
    BY <1>2, CheckoutIsInbound DEF CheckoutAsync, Next
<1>3. CASE CheckConfirmedGracePeriodOrders
    BY <1>3 DEF CheckConfirmedGracePeriodOrders
<1>4. ASSUME NEW o \in Orders,
             GracePeriodPasses(o) \/ CatalogValidatesStock(o) \/ CatalogTakesStock(o)
      PROVE  UNCHANGED vars
    BY <1>4 DEF GracePeriodPasses, CatalogValidatesStock, CatalogTakesStock
<1>5. ASSUME NEW o \in Orders, PublishGracePeriodConfirmed(o) PROVE Next
    <2>1. Deliver([type |-> "GracePeriodConfirmed", about |-> o])
        BY <1>5 DEF PublishGracePeriodConfirmed
    <2>2. [type |-> "GracePeriodConfirmed", about |-> o] \in Inbound
        BY MessagesAreInbound DEF InboundTypes
    <2> QED
        BY <2>1, <2>2 DEF Next
<1>6. ASSUME NEW o \in Orders, CatalogPublishesReply(o) PROVE Next
    <2>1. Deliver([type |-> reply, about |-> o])
        BY <1>6 DEF CatalogPublishesReply
    <2>2. reply \in InboundTypes \ {"UserCheckoutAccepted"}
        BY <1>6 DEF CatalogPublishesReply, Catalog!PublishReply, ReplyReady, InboundTypes
    <2>3. [type |-> reply, about |-> o] \in Inbound
        BY <2>2, MessagesAreInbound
    <2> QED
        BY <2>1, <2>3 DEF Next
<1>7. ASSUME NEW o \in Orders, PaymentTakesPayment(o) PROVE Next
    <2>1. PICK succeeded \in PaymentSucceeded :
              Deliver([type |-> Payment!PaymentResult(succeeded), about |-> o])
        BY <1>7 DEF PaymentTakesPayment
    <2>2. Payment!PaymentResult(succeeded) \in InboundTypes \ {"UserCheckoutAccepted"}
        BY DEF Payment!PaymentResult, InboundTypes
    <2>3. [type |-> Payment!PaymentResult(succeeded), about |-> o] \in Inbound
        BY <2>2, MessagesAreInbound
    <2> QED
        BY <2>1, <2>3 DEF Next
<1>8. CASE CatalogAcknowledges
    BY <1>8 DEF CatalogAcknowledges
<1>9. CASE PaymentAcknowledges
    BY <1>9 DEF PaymentAcknowledges
<1>10. CASE \E s \in Others : ServiceRestarts(s)
    BY <1>10 DEF ServiceRestarts
<1>11. CASE CatalogSubscribes \/ CatalogDiscards
    BY <1>11 DEF CatalogSubscribes, CatalogDiscards
<1>12. ASSUME NEW p \in Discontinued, ProductIsDeleted(p) PROVE UNCHANGED vars
    BY <1>12 DEF ProductIsDeleted
<1>13. CASE UNCHANGED eshopVars
    BY <1>13 DEF eshopVars
<1> QED
    BY <1>1, <1>2, <1>3, <1>4, <1>5, <1>6, <1>7, <1>8, <1>9, <1>10, <1>11, <1>12, <1>13
    DEF EShopNext

---------------------------------------------------------------------------
\* The composition implements Ordering's open specification: Catalog, Payment, the
\* grace-period timer and the users act on it through its queue only, with the
\* messages it subscribes to (Startup.cs, ConfigureEventBus).
THEOREM EShopImplementsOrdering == EShopSpec => Spec
<1>1. EShopInit => Init
    BY DEF EShopInit
<1> QED
    BY <1>1, ReplyReadyInit, ReplyReadyNext, EShopStep, PTL DEF EShopSpec, Spec

\* In the whole process, with any number of users, orders, restarts and duplicates,
\* a checkout creates at most one order.
THEOREM EShopOneOrderPerCheckout == EShopSpec => []OneOrderPerCheckout
BY EShopImplementsOrdering, OneOrderPerCheckoutCorrect, PTL

\* In the whole process no stage of an order is announced twice.
THEOREM EShopEachStageOnce == EShopSpec => []EachStageOnce
BY EShopImplementsOrdering, EachStageOnceCorrect, PTL

\* In the whole process Ordering's log agrees with the bus.
THEOREM EShopOutboxMatchesBus == EShopSpec => []OutboxMatchesBus
BY EShopImplementsOrdering, OutboxMatchesBusCorrect, PTL

\* In the whole process, under the conditions of ImplementsLifecycleCorrect, each change of
\* an order is one stage of its life, announced in the log together with it.
THEOREM EShopImplementsLifecycle ==
  ASSUME Undisturbed
  PROVE  EShopSpec => ImplementsLifecycle
BY EShopImplementsOrdering, ImplementsLifecycleCorrect, PTL

\* What is known of Ordering in every state.
OrderingKnown == StageInv /\ LogInv

LEMMA OrderingIsKnown == Spec => []OrderingKnown
BY StageInit, StageNext, LogInit, LogNext, PTL DEF Spec, OrderingKnown

\* The head of a queue is its first message.
LEMMA HeadFacts ==
  ASSUME NEW S, S \subseteq Nat, S # {}
  PROVE  Min(S) \in S /\ \A i \in S : Min(S) <= i
<1> DEFINE less == OpToRel(<, Nat)
<1>1. \E i \in S : \A j \in S : <<j, i>> \notin less
  BY NatLessThanWellFounded, WFMin
<1>2. \A i, j \in S : <<j, i>> \notin less => i <= j
  BY DEF OpToRel
<1>3. \E i \in S : \A j \in S : i <= j
  BY <1>1, <1>2
<1> QED BY <1>3, Zenon DEF Min

---------------------------------------------------------------------------
(***************************************************************************)
(* Ordering as the other services see it: its log and what it publishes of *)
(* it.                                                                     *)
(***************************************************************************)
\* What was logged stays logged.
LEMMA EventsStay ==
  ASSUME TypeInv, [Next]_vars
  PROVE  \A i \in DOMAIN outbox : /\ i \in DOMAIN outbox'
                                  /\ outbox'[i].type = outbox[i].type
                                  /\ outbox'[i].about = outbox[i].about
<1>1. ASSUME NEW w \in Workers, NEW value, NEW events, Saves(w, value, events)
      PROVE  \A i \in DOMAIN outbox : i \in DOMAIN outbox' /\ outbox'[i] = outbox[i]
  BY <1>1, SavesFreshEntries, SaveAppends DEF Saves
<1> QED BY <1>1, StepKinds DEF SameEvents

\* Messages are copies of entries.
BusCopies ==
    \A m \in DOMAIN out :
        /\ out[m].id \in DOMAIN outbox
        /\ out[m].type = outbox[out[m].id].type
        /\ out[m].about = outbox[out[m].id].about

\* A publication, or none.
LEMMA BusStep ==
  ASSUME TypeInv, [Next]_vars
  PROVE  out' = out \/ \E w \in Workers : Publish(w)
BY StepOnLog DEF Saves, Save, MarkEventAsInProgress, SettlesEntry, Settle, LeavesLog

\* The bus only grows.
LEMMA BusGrows ==
  ASSUME TypeInv, [Next]_vars
  PROVE  /\ Len(out) \in Nat /\ Len(out') \in Nat /\ Len(out') >= Len(out)
         /\ DOMAIN out = 1 .. Len(out) /\ DOMAIN out' = 1 .. Len(out')
         /\ \A m \in DOMAIN out : out'[m] = out[m]
<1>1. out \in Seq(Published)
  BY DEF TypeInv, TypeOK
<1>2. ASSUME NEW w \in Workers, Publish(w)
      PROVE  Len(out') = Len(out) + 1 /\ DOMAIN out' = 1 .. Len(out') /\ \A m \in DOMAIN out : out'[m] = out[m]
  BY <1>1, <1>2 DEF Publish
<1>3. Len(out) \in Nat /\ DOMAIN out = 1 .. Len(out)
  BY <1>1
<1> QED BY <1>2, <1>3, BusStep

LEMMA CopiesNext ==
  ASSUME TypeInv, BusCopies, [Next]_vars
  PROVE  BusCopies'
<1>1. out \in Seq(Published)
  BY DEF TypeInv, TypeOK
<1>2. CASE out' = out
  BY <1>2, EventsStay DEF BusCopies
<1>3. ASSUME NEW w \in Workers, Publish(w)
      PROVE  BusCopies'
  <2>1. next[w] \in DOMAIN outbox
    BY <1>3, PublisherNumbers DEF Publish
  <2>2. \A m \in DOMAIN out' : IF m \in DOMAIN out THEN out'[m] = out[m]
                               ELSE /\ out'[m].id = next[w]
                                    /\ out'[m].type = outbox[next[w]].type
                                    /\ out'[m].about = outbox[next[w]].about
    BY <1>1, <1>3 DEF Publish
  <2>3. outbox' = outbox
    BY <1>3 DEF Publish, database
  <2> QED BY <2>1, <2>2, <2>3 DEF BusCopies
<1> QED BY <1>2, <1>3, BusStep

\* A stage is sent once.
LEMMA SentOnce ==
  ASSUME OrderingKnown, BusCopies, NEW m \in DOMAIN out, NEW n \in DOMAIN out,
         out[m].type = out[n].type, out[m].about = out[n].about, out[m].type \in ConsumerStages
  PROVE  m = n
BY DEF OrderingKnown, StageInv, StageParts, EachStageOnce, LogInv, LogParts, OutboxMatchesBus, BusCopies

\* An order whose stage was sent exists.
LEMMA SentExists ==
  ASSUME OrderingKnown, BusCopies, NEW m \in DOMAIN out, NEW o \in Orders,
         out[m].about = o, out[m].type \in ConsumerStages
  PROVE  status[o] # Absent
<1>1. Logged(out[m].type, o)
  BY DEF BusCopies, Logged
<1>2. Absent \in Behind[out[m].type]
  BY DEF ConsumerStages, Behind
<1> QED BY <1>1, <1>2 DEF OrderingKnown, StageInv, StageParts, AnnouncedIsPassed

\* A stage is logged by the consumer, for the command it carries out.
LEMMA NewlyLogged ==
  ASSUME OrderingKnown, [Next]_vars, NEW t \in ConsumerStages, NEW o \in Orders,
         Logged(t, o)', ~Logged(t, o)
  PROVE  /\ job[Consumer].cmd \in StatusCommands
         /\ Target[job[Consumer].cmd] = t /\ job[Consumer].about = o
<1>1. TypeInv
  BY DEF OrderingKnown, LogInv
<1>2. PICK w \in Workers : \E value, events : Saves(w, value, events)
  BY <1>1, StepKinds, LoggedKept
<1>3. PICK value, events : Saves(w, value, events)
  BY <1>2
<1>4. PICK k \in DOMAIN events : events[k].type = t /\ events[k].about = o
  BY <1>1, <1>3, LoggedBySave
<1>5. w = Consumer /\ OrderChanges(w, events) /\ job[w].about = o
  BY <1>3, <1>4, NewStage DEF OrderingKnown
<1>6. /\ job[w].cmd \in StatusCommands /\ Outcome(w).event = t /\ Outcome(w).event # NoEvent
      /\ Outcome(w) = Apply(job[w].cmd, seen[w]) /\ seen[w] \in Statuses
  BY <1>4, <1>5, ChangeFacts DEF OrderingKnown, StageInv
<1> QED BY <1>5, <1>6, ApplyFacts

\* A row comes from the checkout a worker handles, and keeps it.
LEMMA NewRows ==
  ASSUME OrderingKnown, [Next]_vars, NEW o \in Orders, status'[o] # Absent
  PROVE  \/ status[o] # Absent /\ origin'[o] = origin[o]
         \/ \E w \in Workers : job[w].cmd = "CreateOrder" /\ origin'[o] = job[w].about
<1>0. TypeInv /\ UniqueInv
  BY DEF OrderingKnown, LogInv, StageInv
<1>1. ASSUME NEW w \in Workers, NEW value, NEW events, Saves(w, value, events), OrderChanges(w, events)
      PROVE  status[o] # Absent /\ origin' = origin
  BY <1>0, <1>1, ChangeFacts DEF OrderChanges, WriteStatus
<1>2. ASSUME NEW w \in Workers, NEW events, OrderStays(w, events)
      PROVE  status[o] # Absent /\ origin' = origin
  BY <1>2 DEF OrderStays
<1>3. ASSUME NEW w \in Workers, NEW events, NEW p \in Orders, OrderComes(w, p, events)
      PROVE  \/ status[o] # Absent /\ origin'[o] = origin[o]
             \/ job[w].cmd = "CreateOrder" /\ origin'[o] = job[w].about
  BY <1>0, <1>3 DEF OrderComes, InsertOrder, AtCommit, TypeInv, TypeOK
<1>4. CASE SameRows
  BY <1>4 DEF SameRows
<1> QED BY <1>0, <1>1, <1>2, <1>3, <1>4, StepKinds DEF Saves

\* A row stays, and keeps the checkout it comes from.
LEMMA RowsStay ==
  ASSUME OrderingKnown, [Next]_vars, NEW o \in Orders, status[o] # Absent
  PROVE  status'[o] # Absent /\ origin'[o] = origin[o]
<1>0. TypeInv /\ UniqueInv
  BY DEF OrderingKnown, LogInv, StageInv
<1>1. ASSUME NEW w \in Workers, NEW value, NEW events, Saves(w, value, events), OrderChanges(w, events)
      PROVE  status'[o] # Absent /\ origin' = origin
  <2>1. origin' = origin
    BY <1>1 DEF OrderChanges, WriteStatus
  <2>2. CASE o = job[w].about
    BY <1>0, <1>1, <2>1, <2>2, ChangeFacts, AbsentIsNoStatus
  <2>3. CASE o # job[w].about
    BY <1>0, <1>1, <2>1, <2>3, ChangeFacts
  <2> QED BY <2>2, <2>3
<1>2. ASSUME NEW w \in Workers, NEW events, OrderStays(w, events)
      PROVE  status'[o] # Absent /\ origin' = origin
  BY <1>2 DEF OrderStays
<1>3. ASSUME NEW w \in Workers, NEW events, NEW p \in Orders, OrderComes(w, p, events)
      PROVE  status'[o] # Absent /\ origin'[o] = origin[o]
  BY <1>0, <1>3 DEF OrderComes, InsertOrder, AtCommit, TypeInv, TypeOK
<1>4. CASE SameRows
  BY <1>4 DEF SameRows
<1> QED BY <1>0, <1>1, <1>2, <1>3, <1>4, StepKinds DEF Saves

---------------------------------------------------------------------------
(***************************************************************************)
(* Causes.  Whatever waits in Ordering's queue, or has become a command of *)
(* a worker, has happened: the timer saw the grace period pass, Payment    *)
(* charged the customer, a user checked out.  None of this is ever undone, *)
(* so it still holds when the command is carried out.                      *)
(***************************************************************************)
Caused(cmd, x) ==
    /\ cmd = "CreateOrder" => x \in Checkouts
    /\ cmd = "SetAwaitingValidation" => x \in expired
    /\ cmd = "SetPaid" => x \in Orders /\ charged[x] > 0

MessagesAreCaused == \A k \in DOMAIN queue : Caused(CommandFor(queue[k]).cmd, queue[k].about)

JobsAreCaused == \A w \in Workers : Caused(job[w].cmd, job[w].about)

RowsAreCaused == \A o \in Orders : status[o] # Absent => origin[o] \in Checkouts

CauseInv == MessagesAreCaused /\ JobsAreCaused /\ RowsAreCaused /\ NothingBeforeItsCause

\* No cause is undone.
CausesStay == expired \subseteq expired' /\ \A o \in Orders : charged[o] > 0 => charged'[o] > 0

LEMMA CauseInit == EShopInit => CauseInv
<1> SUFFICES ASSUME EShopInit PROVE CauseInv
  OBVIOUS
<1>1. /\ queue = <<>> /\ outbox = <<>>
      /\ \A o \in Orders : status[o] = Absent
      /\ \A w \in Workers : job[w].cmd = "none"
  BY DEF EShopInit, Init, NoJob
<1> QED BY <1>1 DEF CauseInv, MessagesAreCaused, JobsAreCaused, RowsAreCaused,
                    NothingBeforeItsCause, Caused, Logged

\* Ordering keeps what it was told and nothing else.
LEMMA OrderingKeepsCauses ==
  ASSUME OrderingKnown, CauseInv, OrderingNext, UNCHANGED <<expired, charged>>
  PROVE  CauseInv'
<1>0. TypeInv /\ [Next]_vars /\ CausesStay /\ Consumer \in Workers
  BY DEF OrderingKnown, LogInv, Next, CausesStay, Workers
<1>1. queue \in Seq(Inbound)
  BY <1>0 DEF TypeInv, TypeOK
<1>2. MessagesAreCaused'
  <2>1. queue' = queue \/ (queue # <<>> /\ queue' = Tail(queue))
    BY <1>0, OrderingTakes DEF QueueStep
  <2>2. \A k \in DOMAIN queue' : \E l \in DOMAIN queue : queue'[k] = queue[l]
    <3>1. CASE queue' = queue
      BY <3>1
    <3>2. CASE queue # <<>> /\ queue' = Tail(queue)
      <4>1. \A k \in DOMAIN queue' : k + 1 \in DOMAIN queue /\ queue'[k] = queue[k + 1]
        BY <1>1, <3>2
      <4> QED BY <4>1
    <3> QED BY <2>1, <3>1, <3>2
  <2>3. \A k \in DOMAIN queue' : Caused(CommandFor(queue'[k]).cmd, queue'[k].about)
    BY <2>2 DEF CauseInv, MessagesAreCaused
  <2> QED BY <1>0, <2>3 DEF MessagesAreCaused, Caused, CausesStay
<1>3. JobsAreCaused'
  <2>1. ASSUME NEW w \in Workers PROVE Caused(job'[w].cmd, job'[w].about)
    <3>1. CASE job'[w] = job[w]
      BY <3>1 DEF CauseInv, JobsAreCaused
    <3>2. CASE job'[w] = NoJob
      BY <3>2 DEF NoJob, Caused
    <3>3. CASE job'[w] \in ApiRequests
      BY <3>3, OrderingAssumption DEF HttpCommands, Caused
    <3>4. CASE queue # <<>> /\ job'[w] = CommandFor(Head(queue))
      <4>1. 1 \in DOMAIN queue /\ Head(queue) = queue[1] /\ queue[1] \in Inbound
        BY <1>1, <3>4
      <4>2. CommandFor(queue[1]).about = queue[1].about
        BY <4>1 DEF CommandFor, Inbound, InboundTypes
      <4> QED BY <3>4, <4>1, <4>2 DEF CauseInv, MessagesAreCaused
    <3> QED BY <1>0, <3>1, <3>2, <3>3, <3>4, OrderingTakes DEF JobStep
  <2> QED BY <1>0, <2>1 DEF JobsAreCaused, Caused, CausesStay
<1>4. RowsAreCaused'
  BY <1>0, NewRows DEF CauseInv, RowsAreCaused, JobsAreCaused, Caused
<1>5. NothingBeforeItsCause'
  <2>1. ASSUME NEW t \in ConsumerStages, NEW o \in Orders, Logged(t, o)', ~Logged(t, o)
        PROVE  /\ t = "AwaitingValidation" => o \in expired
               /\ t = "Paid" => charged[o] > 0
    <3>1. /\ job[Consumer].cmd \in StatusCommands
          /\ Target[job[Consumer].cmd] = t /\ job[Consumer].about = o
      BY <1>0, <2>1, NewlyLogged
    <3>2. /\ t = "AwaitingValidation" => job[Consumer].cmd = "SetAwaitingValidation"
          /\ t = "Paid" => job[Consumer].cmd = "SetPaid"
      BY <3>1 DEF Target, StatusCommands
    <3> QED BY <1>0, <3>1, <3>2 DEF CauseInv, JobsAreCaused, Caused
  <2>2. "AwaitingValidation" \in ConsumerStages /\ "Paid" \in ConsumerStages
    BY DEF ConsumerStages
  <2>3. \A o \in Orders : /\ Logged("AwaitingValidation", o)' => o \in expired
                          /\ Logged("Paid", o)' => charged[o] > 0
    BY <2>1, <2>2 DEF CauseInv, NothingBeforeItsCause
  <2> QED BY <2>3 DEF NothingBeforeItsCause
<1> QED BY <1>2, <1>3, <1>4, <1>5 DEF CauseInv

\* A message is sent when its cause is there.
LEMMA DeliveryKeepsCauses ==
  ASSUME TypeInv, CauseInv, CausesStay, NEW m, Deliver(m), Caused(CommandFor(m).cmd, m.about)'
  PROVE  CauseInv'
<1>1. queue \in Seq(Inbound) /\ queue' = Append(queue, m)
  BY DEF TypeInv, TypeOK, Deliver
<1>2. MessagesAreCaused'
  <2>1. \A k \in DOMAIN queue' : (k \in DOMAIN queue /\ queue'[k] = queue[k]) \/ queue'[k] = m
    BY <1>1
  <2> QED BY <2>1 DEF CauseInv, MessagesAreCaused, Caused, CausesStay
<1>3. JobsAreCaused'
  BY DEF CauseInv, JobsAreCaused, Caused, CausesStay, Deliver, context
<1>4. RowsAreCaused' /\ NothingBeforeItsCause'
  BY DEF CauseInv, RowsAreCaused, NothingBeforeItsCause, Logged, CausesStay, Deliver, database
<1> QED BY <1>2, <1>3, <1>4 DEF CauseInv

\* The services' own steps undo nothing.
LEMMA RestKeepsCauses ==
  ASSUME CauseInv, CausesStay, UNCHANGED vars
  PROVE  CauseInv'
<1>1. MessagesAreCaused' /\ JobsAreCaused'
  BY DEF CauseInv, MessagesAreCaused, JobsAreCaused, Caused, CausesStay, vars
<1>2. RowsAreCaused' /\ NothingBeforeItsCause'
  BY DEF CauseInv, RowsAreCaused, NothingBeforeItsCause, Logged, CausesStay, vars
<1> QED BY <1>1, <1>2 DEF CauseInv
---------------------------------------------------------------------------
(***************************************************************************)
(* The services.  A service that is not idle has a message at the head of  *)
(* its queue, which a publication does not change.                         *)
(***************************************************************************)
HeadsWait ==
    /\ catalogPc # "idle" => Waiting("Catalog") # {}
    /\ paymentPc # "idle" => Waiting("Payment") # {}

ServicesTypeOK ==
    /\ Background!GracePeriodTypeOK
    /\ Catalog!CatalogTypeOK
    /\ Payment!PaymentTypeOK
    /\ handled \in [Services -> 0 .. Len(out)]
    /\ checkouts \in [Checkouts -> 0 .. MaxCheckouts]
    /\ restarts \in [Others -> Nat]

ServiceInv == ServicesTypeOK /\ HeadsWait /\ BusCopies /\ CauseInv

LEMMA ServiceInit == EShopInit => ServiceInv
<1> SUFFICES ASSUME EShopInit PROVE ServiceInv
  OBVIOUS
<1>1. out = <<>> /\ Len(out) = 0 /\ DOMAIN out = {}
  BY DEF EShopInit, Init
<1>2. Background!GracePeriodTypeOK
  BY DEF EShopInit, Background!GracePeriodInit, Background!GracePeriodTypeOK
<1>3. Catalog!CatalogTypeOK
  BY EShopAssumption DEF EShopInit, Catalog!CatalogInit, Catalog!CatalogTypeOK, EShopAssumption,
                         Catalog!CatalogSubscriptions
<1>4. Payment!PaymentTypeOK
  BY DEF EShopInit, Payment!PaymentInit, Payment!PaymentTypeOK
<1>5. /\ handled \in [Services -> 0 .. Len(out)]
      /\ checkouts \in [Checkouts -> 0 .. MaxCheckouts]
      /\ restarts \in [Others -> Nat]
  BY <1>1, EShopAssumption DEF EShopInit, EShopAssumption
<1>6. HeadsWait /\ BusCopies
  BY <1>1 DEF EShopInit, Catalog!CatalogInit, Payment!PaymentInit, HeadsWait, BusCopies
<1> QED BY <1>2, <1>3, <1>4, <1>5, <1>6, CauseInit DEF ServiceInv, ServicesTypeOK

\* What waits for a service.
LEMMA WaitingFacts ==
  ASSUME TypeInv, ServicesTypeOK, NEW s \in Services
  PROVE  /\ Waiting(s) \subseteq DOMAIN out /\ Waiting(s) \subseteq Nat
         /\ handled[s] \in Nat
         /\ \A i \in Waiting(s) : i > handled[s]
         /\ Waiting(s) # {} => /\ Min(Waiting(s)) \in Waiting(s)
                               /\ \A i \in Waiting(s) : Min(Waiting(s)) <= i
<1>1. out \in Seq(Published) /\ handled[s] \in Nat
  BY DEF TypeInv, TypeOK, ServicesTypeOK
<1>2. Waiting(s) \subseteq DOMAIN out /\ Waiting(s) \subseteq Nat
  BY <1>1 DEF Waiting
<1> QED BY <1>1, <1>2, HeadFacts DEF Waiting

\* A step that acknowledges nothing leaves the heads where they are.
LEMMA HeadsStay ==
  ASSUME TypeInv, ServicesTypeOK, [Next]_vars, handled' = handled, NEW s \in Services, Waiting(s) # {}
  PROVE  Waiting(s)' # {} /\ Min(Waiting(s))' = Min(Waiting(s))
<1>1. /\ Len(out) \in Nat /\ Len(out') \in Nat /\ Len(out') >= Len(out)
      /\ DOMAIN out = 1 .. Len(out) /\ DOMAIN out' = 1 .. Len(out')
      /\ \A m \in DOMAIN out : out'[m] = out[m]
  BY BusGrows
<1>2. /\ Waiting(s) \subseteq Waiting(s)'
      /\ \A i \in Waiting(s)' : i \in Waiting(s) \/ i > Len(out)
      /\ Waiting(s)' \subseteq Nat
  BY <1>1 DEF Waiting
<1>3. Waiting(s) \subseteq 1 .. Len(out)
  BY <1>1 DEF Waiting
<1> DEFINE head == Min(Waiting(s))
<1>4. head \in Waiting(s) /\ \A i \in Waiting(s) : head <= i
  BY WaitingFacts
<1>5. Min(Waiting(s)') \in Waiting(s)' /\ \A i \in Waiting(s)' : Min(Waiting(s)') <= i
  BY <1>2, <1>4, HeadFacts
<1>6. head \in Waiting(s)' /\ \A i \in Waiting(s)' : head <= i
  <2>1. \A i \in Waiting(s)' : i \in Nat /\ head \in Nat /\ head <= Len(out)
    BY <1>1, <1>2, <1>3, <1>4
  <2> QED BY <1>1, <1>2, <1>4, <2>1
<1>7. Min(Waiting(s)') = head
  <2>1. Min(Waiting(s)') <= head /\ head <= Min(Waiting(s)')
    BY <1>5, <1>6
  <2>2. Min(Waiting(s)') \in Nat /\ head \in Nat
    BY <1>2, <1>5, <1>6
  <2> HIDE DEF head
  <2> QED BY <2>1, <2>2
<1>8. Min(Waiting(s))' = Min(Waiting(s)')
  BY DEF Min
<1> QED BY <1>4, <1>2, <1>7, <1>8

\* An acknowledgement moves on behind the head.
LEMMA AckFacts ==
  ASSUME TypeInv, ServicesTypeOK, NEW s \in Services, Waiting(s) # {}, AckMessage(s), out' = out
  PROVE  /\ handled' \in [Services -> 0 .. Len(out)]
         /\ handled'[s] = Min(Waiting(s)) /\ handled'[s] > handled[s]
         /\ \A r \in Services \ {s} : handled'[r] = handled[r] /\ Waiting(r)' = Waiting(r)
<1>1. Min(Waiting(s)) \in DOMAIN out /\ Min(Waiting(s)) > handled[s]
  BY WaitingFacts
<1>2. out \in Seq(Published)
  BY DEF TypeInv, TypeOK
<1>3. Min(Waiting(s)) \in 0 .. Len(out)
  BY <1>1, <1>2
<1> QED BY <1>1, <1>3 DEF AckMessage, ServicesTypeOK, Waiting

\* A position stays a position when the bus grows.
LEMMA PositionsStay ==
  ASSUME TypeInv, ServicesTypeOK, [Next]_vars, handled' = handled
  PROVE  handled' \in [Services -> 0 .. Len(out')]
BY BusGrows DEF ServicesTypeOK

LEMMA ServiceNames ==
  Services = {"Catalog", "Payment"} /\ Others = {"GracePeriod", "Catalog", "Payment"}
BY DEF Services, Subscriptions, Others

\* A product's stock after an order of known units was taken.
LEMMA TakenStock ==
  ASSUME NEW items \in [Products -> Nat], stock \in [Products -> Nat], Catalog!TakeStock(items)
  PROVE  stock' \in [Products -> Nat]
<1>1. \A p \in Products : /\ stock[p] \in Nat /\ items[p] \in Nat
                          /\ Catalog!Removed(items[p], stock[p]) \in 0 .. stock[p]
  BY DEF Catalog!Removed
<1>2. \A p \in Products : stock[p] - Catalog!Removed(items[p], stock[p]) \in Nat
  BY <1>1
<1> QED BY <1>2 DEF Catalog!TakeStock

LEMMA ServicesNext ==
  ASSUME OrderingKnown, ServiceInv, [EShopNext]_eshopVars, [Next]_vars
  PROVE  ServicesTypeOK' /\ HeadsWait'
<1>0. TypeInv /\ ServicesTypeOK /\ HeadsWait
  BY DEF OrderingKnown, LogInv, ServiceInv
<1>a. "Catalog" \in Services /\ "Payment" \in Services
  BY ServiceNames
<1> DEFINE waits == /\ handled' = handled
                    /\ catalogPc' # "idle" => Waiting("Catalog") # {}
                    /\ paymentPc' # "idle" => Waiting("Payment") # {}
<1>b. ASSUME waits
      PROVE  HeadsWait' /\ handled' \in [Services -> 0 .. Len(out')]
  BY <1>0, <1>a, <1>b, PositionsStay, HeadsStay DEF HeadsWait
<1>1. CASE OrderingStep \/ UNCHANGED eshopVars
  <2>1. waits /\ UNCHANGED <<background, catalog, payment, checkouts, restarts>>
    BY <1>0, <1>1 DEF OrderingStep, eshopVars, background, catalog, payment, HeadsWait
  <2> QED BY <1>0, <1>b, <2>1 DEF ServicesTypeOK, background, catalog, payment,
       Background!GracePeriodTypeOK, Catalog!CatalogTypeOK, Payment!PaymentTypeOK
<1>2. ASSUME NEW r \in Checkouts, CheckoutAsync(r)
      PROVE  ServicesTypeOK' /\ HeadsWait'
  <2>1. waits /\ UNCHANGED <<background, catalog, payment, restarts>>
    BY <1>0, <1>2 DEF CheckoutAsync, background, catalog, payment, HeadsWait
  <2>2. checkouts' \in [Checkouts -> 0 .. MaxCheckouts]
    BY <1>0, <1>2, EShopAssumption DEF CheckoutAsync, ServicesTypeOK, EShopAssumption
  <2> QED BY <1>0, <1>b, <2>1, <2>2 DEF ServicesTypeOK, background, catalog, payment,
       Background!GracePeriodTypeOK, Catalog!CatalogTypeOK, Payment!PaymentTypeOK
<1>3. CASE \/ CheckConfirmedGracePeriodOrders
           \/ \E o \in Orders : GracePeriodPasses(o) \/ PublishGracePeriodConfirmed(o)
  <2>1. waits /\ UNCHANGED <<catalog, payment, checkouts, restarts>>
    BY <1>0, <1>3 DEF CheckConfirmedGracePeriodOrders, GracePeriodPasses, PublishGracePeriodConfirmed,
                      catalog, payment, HeadsWait
  <2>2. Background!GracePeriodTypeOK'
    BY <1>0, <1>3 DEF ServicesTypeOK, Background!GracePeriodTypeOK, CheckConfirmedGracePeriodOrders,
       GracePeriodPasses, PublishGracePeriodConfirmed, Background!GracePeriodPasses,
       Background!CheckConfirmedGracePeriodOrders, Background!PublishGracePeriodConfirmed
  <2> QED BY <1>0, <1>b, <2>1, <2>2 DEF ServicesTypeOK, catalog, payment,
       Catalog!CatalogTypeOK, Payment!PaymentTypeOK
<1>4. ASSUME NEW o \in Orders, CatalogValidatesStock(o) \/ CatalogPublishesReply(o)
      PROVE  ServicesTypeOK' /\ HeadsWait'
  <2>1. waits /\ UNCHANGED <<payment, checkouts, restarts>>
    BY <1>0, <1>4 DEF CatalogValidatesStock, CatalogPublishesReply, AtHead, payment, HeadsWait
  <2>2. Catalog!CatalogTypeOK'
    BY <1>0, <1>4 DEF ServicesTypeOK, Catalog!CatalogTypeOK, CatalogValidatesStock,
       CatalogPublishesReply, Catalog!ValidateStock, Catalog!CannotValidateStock, Catalog!PublishReply
  <2>3. Background!GracePeriodTypeOK'
    BY <1>0, <1>4 DEF ServicesTypeOK, Background!GracePeriodTypeOK, CatalogValidatesStock,
       CatalogPublishesReply, background
  <2> QED BY <1>0, <1>b, <2>1, <2>2, <2>3 DEF ServicesTypeOK, payment, Payment!PaymentTypeOK
<1>5. ASSUME NEW o \in Orders, CatalogTakesStock(o)
      PROVE  ServicesTypeOK' /\ HeadsWait'
  <2>1. waits /\ UNCHANGED <<background, payment, checkouts, restarts>>
    BY <1>0, <1>5 DEF CatalogTakesStock, AtHead, background, payment, HeadsWait
  <2>2. origin[o] \in Checkouts
    <3>1. Min(Waiting("Catalog")) \in DOMAIN out
      BY <1>0, <1>5, <1>a, WaitingFacts DEF CatalogTakesStock, AtHead
    <3>2. status[o] # Absent
      BY <1>5, <3>1, SentExists DEF CatalogTakesStock, AtHead, ServiceInv, ConsumerStages
    <3> QED BY <3>2 DEF ServiceInv, CauseInv, RowsAreCaused
  <2>3. Items[origin[o]] \in [Products -> Nat]
    BY <2>2, EShopAssumption DEF EShopAssumption
  <2>4. Catalog!TakeStock(Items[origin[o]]) /\ stock \in [Products -> Nat]
    BY <1>0, <1>5 DEF CatalogTakesStock, ServicesTypeOK, Catalog!CatalogTypeOK
  <2>5. stock' \in [Products -> Nat]
    BY <2>3, <2>4, TakenStock
  <2>6. Catalog!CatalogTypeOK'
    BY <1>0, <2>4, <2>5 DEF ServicesTypeOK, Catalog!CatalogTypeOK, Catalog!TakeStock
  <2> QED BY <1>0, <1>b, <2>1, <2>6 DEF ServicesTypeOK, background, payment,
       Background!GracePeriodTypeOK, Payment!PaymentTypeOK
<1>6. CASE CatalogSubscribes \/ \E p \in Discontinued : ProductIsDeleted(p)
  <2>1. waits /\ UNCHANGED <<background, payment, checkouts, restarts>>
    BY <1>0, <1>6 DEF CatalogSubscribes, ProductIsDeleted, Catalog!CatalogSubscribes,
                      Catalog!DeleteProduct, background, payment, HeadsWait
  <2>2. Catalog!CatalogTypeOK'
    BY <1>0, <1>6, EShopAssumption DEF EShopAssumption, ServicesTypeOK, Catalog!CatalogTypeOK,
       CatalogSubscribes, ProductIsDeleted, Catalog!CatalogSubscribes, Catalog!DeleteProduct,
       Catalog!CatalogSubscriptions
  <2> QED BY <1>0, <1>b, <2>1, <2>2 DEF ServicesTypeOK, background, payment,
       Background!GracePeriodTypeOK, Payment!PaymentTypeOK
<1>7. ASSUME NEW o \in Orders, PaymentTakesPayment(o)
      PROVE  ServicesTypeOK' /\ HeadsWait'
  <2>1. waits /\ UNCHANGED <<background, catalog, checkouts, restarts>>
    BY <1>0, <1>7 DEF PaymentTakesPayment, AtHead, background, catalog, HeadsWait
  <2>2. Payment!PaymentTypeOK'
    BY <1>0, <1>7 DEF ServicesTypeOK, Payment!PaymentTypeOK, PaymentTakesPayment, Payment!TakePayment
  <2> QED BY <1>0, <1>b, <2>1, <2>2 DEF ServicesTypeOK, background, catalog,
       Background!GracePeriodTypeOK, Catalog!CatalogTypeOK
<1>8. CASE CatalogAcknowledges \/ CatalogDiscards
  <2>1. /\ Waiting("Catalog") # {} /\ AckMessage("Catalog") /\ catalogPc' = "idle"
        /\ UNCHANGED <<vars, background, payment, checkouts, restarts>>
    BY <1>0, <1>8 DEF CatalogAcknowledges, CatalogDiscards, Catalog!CatalogAcknowledges,
       Catalog!CatalogDiscards, Catalog!catalogVars, HeadsWait
  <2>2. Catalog!CatalogTypeOK'
    BY <1>0, <1>8 DEF ServicesTypeOK, Catalog!CatalogTypeOK, CatalogAcknowledges, CatalogDiscards,
       Catalog!CatalogAcknowledges, Catalog!CatalogDiscards, Catalog!catalogVars
  <2>3. out' = out
    BY <2>1 DEF vars
  <2>4. handled' \in [Services -> 0 .. Len(out')] /\ Waiting("Payment")' = Waiting("Payment")
    BY <1>0, <1>a, <2>1, <2>3, AckFacts
  <2> QED BY <1>0, <2>1, <2>2, <2>4 DEF HeadsWait, ServicesTypeOK, background, payment,
       Background!GracePeriodTypeOK, Payment!PaymentTypeOK
<1>9. CASE PaymentAcknowledges
  <2>1. /\ Waiting("Payment") # {} /\ AckMessage("Payment") /\ paymentPc' = "idle" /\ charged' = charged
        /\ UNCHANGED <<vars, background, catalog, checkouts, restarts>>
    BY <1>0, <1>9 DEF PaymentAcknowledges, Payment!PaymentAcknowledges, HeadsWait
  <2>2. out' = out
    BY <2>1 DEF vars
  <2>3. handled' \in [Services -> 0 .. Len(out')] /\ Waiting("Catalog")' = Waiting("Catalog")
    BY <1>0, <1>a, <2>1, <2>2, AckFacts
  <2> QED BY <1>0, <2>1, <2>3 DEF HeadsWait, ServicesTypeOK, background, catalog,
       Background!GracePeriodTypeOK, Catalog!CatalogTypeOK, Payment!PaymentTypeOK
<1>10. CASE \E s \in Others : ServiceRestarts(s)
  <2>1. waits /\ checkouts' = checkouts
    BY <1>0, <1>10 DEF ServiceRestarts, Background!GracePeriodRestarts, Catalog!CatalogRestarts,
       Payment!PaymentRestarts, Payment!PaymentAcknowledges, catalog, payment, HeadsWait
  <2>2. restarts' \in [Others -> Nat]
    BY <1>0, <1>10 DEF ServiceRestarts, ServicesTypeOK
  <2>3. Background!GracePeriodTypeOK' /\ Catalog!CatalogTypeOK' /\ Payment!PaymentTypeOK'
    BY <1>0, <1>10 DEF ServiceRestarts, Background!GracePeriodRestarts, Catalog!CatalogRestarts,
       Payment!PaymentRestarts, Payment!PaymentAcknowledges, background, catalog, payment, ServicesTypeOK,
       Background!GracePeriodTypeOK, Catalog!CatalogTypeOK, Payment!PaymentTypeOK,
       Catalog!CatalogSubscriptions
  <2> QED BY <1>0, <1>b, <2>1, <2>2, <2>3 DEF ServicesTypeOK
<1> QED BY <1>1, <1>2, <1>3, <1>4, <1>5, <1>6, <1>7, <1>8, <1>9, <1>10 DEF EShopNext

LEMMA CausesNext ==
  ASSUME OrderingKnown, ReplyReady, ServiceInv, [EShopNext]_eshopVars
  PROVE  CauseInv'
<1>0. TypeInv /\ CauseInv /\ ServicesTypeOK
  BY DEF OrderingKnown, LogInv, ServiceInv
<1>1. CausesStay
  <2>1. expired \subseteq expired'
    BY DEF EShopNext, OrderingStep, CheckoutAsync, CheckConfirmedGracePeriodOrders, GracePeriodPasses,
       PublishGracePeriodConfirmed, CatalogValidatesStock, CatalogPublishesReply, CatalogTakesStock,
       PaymentTakesPayment, CatalogAcknowledges, CatalogSubscribes, CatalogDiscards, ProductIsDeleted,
       PaymentAcknowledges, ServiceRestarts, background, eshopVars, Background!GracePeriodPasses,
       Background!CheckConfirmedGracePeriodOrders, Background!PublishGracePeriodConfirmed,
       Background!GracePeriodRestarts
  <2>2. charged' = charged \/ \E o \in Orders, succeeded \in BOOLEAN : Payment!TakePayment(o, succeeded)
    BY EShopAssumption DEF EShopNext, OrderingStep, CheckoutAsync, CheckConfirmedGracePeriodOrders,
       GracePeriodPasses, PublishGracePeriodConfirmed, CatalogValidatesStock, CatalogPublishesReply,
       CatalogTakesStock, PaymentTakesPayment, CatalogAcknowledges, CatalogSubscribes, CatalogDiscards,
       ProductIsDeleted, PaymentAcknowledges, ServiceRestarts, payment, eshopVars, EShopAssumption,
       Payment!PaymentAcknowledges, Payment!PaymentRestarts
  <2>3. charged \in [Orders -> Nat]
    BY <1>0 DEF ServicesTypeOK, Payment!PaymentTypeOK
  <2>4. \A o \in Orders : charged[o] > 0 => charged'[o] > 0
    BY <2>2, <2>3 DEF Payment!TakePayment
  <2> QED BY <2>1, <2>4 DEF CausesStay
<1>2. CASE OrderingStep
  BY <1>0, <1>2, OrderingKeepsCauses DEF OrderingStep, background, payment
<1>3. CASE UNCHANGED vars
  BY <1>0, <1>1, <1>3, RestKeepsCauses
<1>4. ASSUME NEW r \in Checkouts, CheckoutAsync(r)
      PROVE  CauseInv'
  BY <1>0, <1>1, <1>4, DeliveryKeepsCauses DEF CheckoutAsync, CommandFor, Caused
<1>5. ASSUME NEW o \in Orders, PublishGracePeriodConfirmed(o)
      PROVE  CauseInv'
  <2>1. o \in expired /\ expired' = expired /\ Deliver([type |-> "GracePeriodConfirmed", about |-> o])
    BY <1>0, <1>5 DEF PublishGracePeriodConfirmed, Background!PublishGracePeriodConfirmed,
       ServicesTypeOK, Background!GracePeriodTypeOK
  <2> QED BY <1>0, <1>1, <2>1, DeliveryKeepsCauses DEF CommandFor, Caused
<1>6. ASSUME NEW o \in Orders, CatalogPublishesReply(o)
      PROVE  CauseInv'
  <2>1. PICK type \in {"OrderStockConfirmed", "OrderStockRejected"} : type = reply
    BY <1>6 DEF CatalogPublishesReply, Catalog!PublishReply, ReplyReady
  <2>2. Deliver([type |-> type, about |-> o])
    BY <1>6, <2>1 DEF CatalogPublishesReply
  <2> QED BY <1>0, <1>1, <2>2, DeliveryKeepsCauses DEF CommandFor, Caused
<1>7. ASSUME NEW o \in Orders, PaymentTakesPayment(o)
      PROVE  CauseInv'
  <2>1. PICK succeeded \in BOOLEAN :
            /\ Payment!TakePayment(o, succeeded)
            /\ Deliver([type |-> Payment!PaymentResult(succeeded), about |-> o])
    BY <1>7, EShopAssumption DEF PaymentTakesPayment, EShopAssumption
  <2>2. CASE succeeded
    <3>1. charged'[o] > 0
      BY <1>0, <2>1, <2>2 DEF Payment!TakePayment, ServicesTypeOK, Payment!PaymentTypeOK
    <3>2. Deliver([type |-> "OrderPaymentSucceeded", about |-> o])
      BY <2>1, <2>2 DEF Payment!PaymentResult
    <3> QED BY <1>0, <1>1, <3>1, <3>2, DeliveryKeepsCauses DEF CommandFor, Caused
  <2>3. CASE ~succeeded
    <3>1. Deliver([type |-> "OrderPaymentFailed", about |-> o])
      BY <2>1, <2>3 DEF Payment!PaymentResult
    <3> QED BY <1>0, <1>1, <3>1, DeliveryKeepsCauses DEF CommandFor, Caused
  <2> QED BY <2>2, <2>3
<1>8. CASE \/ CheckConfirmedGracePeriodOrders \/ CatalogAcknowledges \/ CatalogSubscribes
           \/ CatalogDiscards \/ PaymentAcknowledges \/ (\E s \in Others : ServiceRestarts(s))
           \/ (\E p \in Discontinued : ProductIsDeleted(p))
           \/ (\E o \in Orders : GracePeriodPasses(o) \/ CatalogValidatesStock(o) \/ CatalogTakesStock(o))
           \/ UNCHANGED eshopVars
  <2>1. UNCHANGED vars
    BY <1>8 DEF CheckConfirmedGracePeriodOrders, CatalogAcknowledges, CatalogSubscribes,
       CatalogDiscards, PaymentAcknowledges, ServiceRestarts, ProductIsDeleted, GracePeriodPasses,
       CatalogValidatesStock, CatalogTakesStock, eshopVars
  <2> QED BY <1>3, <2>1
<1> QED BY <1>2, <1>4, <1>5, <1>6, <1>7, <1>8 DEF EShopNext

LEMMA ServiceNext ==
  OrderingKnown /\ ReplyReady /\ ServiceInv /\ [EShopNext]_eshopVars => ServiceInv'
<1> SUFFICES ASSUME OrderingKnown, ReplyReady, ServiceInv, [EShopNext]_eshopVars
             PROVE  ServiceInv'
  OBVIOUS
<1>1. [Next]_vars /\ TypeInv
  BY EShopStep DEF OrderingKnown, LogInv
<1>2. BusCopies'
  BY <1>1, CopiesNext DEF ServiceInv
<1> QED BY <1>1, <1>2, ServicesNext, CausesNext DEF ServiceInv

LEMMA EShopIsKnown == EShopSpec => [](OrderingKnown /\ ReplyReady /\ ServiceInv)
<1>1. EShopSpec => []OrderingKnown
  BY EShopImplementsOrdering, OrderingIsKnown, PTL
<1>2. EShopSpec => []ReplyReady
  BY ReplyReadyInit, ReplyReadyNext, PTL DEF EShopSpec
<1> QED BY <1>1, <1>2, ServiceInit, ServiceNext, PTL DEF EShopSpec

\* The variables of every service keep values of their kinds, whatever is repeated, lost or
\* deleted; in particular no product's stock becomes negative.
THEOREM EShopTypeCorrect == EShopSpec => []EShopTypeOK
<1>1. OrderingKnown /\ ServiceInv => EShopTypeOK
  BY DEF OrderingKnown, LogInv, TypeInv, ServiceInv, ServicesTypeOK, EShopTypeOK
<1> QED BY <1>1, EShopIsKnown, PTL

\* An order awaits validation only after its grace period and counts as paid only if the
\* customer was charged, however late or often the timer's and Payment's messages come.
THEOREM NothingBeforeItsCauseCorrect == EShopSpec => []NothingBeforeItsCause
<1>1. ServiceInv => NothingBeforeItsCause
  BY DEF ServiceInv, CauseInv
<1> QED BY <1>1, EShopIsKnown, PTL

---------------------------------------------------------------------------
(***************************************************************************)
(* Charges.  The message that asks for a payment is sent once; a charge    *)
(* uses it up, unless Payment.API dies before it acknowledges it.          *)
(***************************************************************************)

\* The payment of order o is done, or done but for the acknowledgement.
IsTaken(o) ==
    \E i \in DOMAIN out :
        /\ out[i].type = "StockConfirmed" /\ out[i].about = o
        /\ i <= handled["Payment"] \/ (paymentPc = "ack" /\ i = Min(Waiting("Payment")))

ChargeInv ==
    \A o \in Orders :
        /\ charged[o] <= 1 + restarts["Payment"]
        /\ ~IsTaken(o) => charged[o] <= restarts["Payment"]

EShopKnown == OrderingKnown /\ ReplyReady /\ ServiceInv

LEMMA ChargeInit == EShopInit => ChargeInv
BY ServiceNames DEF EShopInit, Payment!PaymentInit, ChargeInv

\* A step of another service takes no payment back.
LEMMA TakenStays ==
  ASSUME EShopKnown, [Next]_vars, handled' = handled, paymentPc' = paymentPc,
         NEW o \in Orders, IsTaken(o)
  PROVE  IsTaken(o)'
<1>0. TypeInv /\ ServicesTypeOK /\ HeadsWait /\ "Payment" \in Services
  BY ServiceNames DEF EShopKnown, OrderingKnown, LogInv, ServiceInv
<1>1. \A i \in DOMAIN out : i \in DOMAIN out' /\ out'[i] = out[i]
  BY <1>0, BusGrows
<1>2. paymentPc = "ack" => Min(Waiting("Payment"))' = Min(Waiting("Payment"))
  BY <1>0, HeadsStay DEF HeadsWait
<1> QED BY <1>1, <1>2 DEF IsTaken

LEMMA ChargeNext == EShopKnown /\ ChargeInv /\ [EShopNext]_eshopVars => ChargeInv'
<1> SUFFICES ASSUME EShopKnown, ChargeInv, [EShopNext]_eshopVars PROVE ChargeInv'
  OBVIOUS
<1>0. /\ TypeInv /\ ServicesTypeOK /\ HeadsWait /\ BusCopies /\ OrderingKnown /\ [Next]_vars
      /\ "Payment" \in Services /\ "Catalog" \in Services
      /\ restarts \in [Others -> Nat] /\ {"Payment", "Catalog"} \subseteq Others
      /\ restarts["Payment"] \in Nat /\ charged \in [Orders -> Nat] /\ paymentPc \in {"idle", "ack"}
  BY ServiceNames, EShopStep DEF EShopKnown, OrderingKnown, LogInv, ServiceInv, ServicesTypeOK,
     Payment!PaymentTypeOK
<1>1. CASE /\ handled'["Payment"] = handled["Payment"] /\ Waiting("Payment")' = Waiting("Payment")
           /\ out' = out /\ UNCHANGED <<paymentPc, charged, restarts["Payment"]>>
  BY <1>1 DEF ChargeInv, IsTaken, Min
<1>2. CASE UNCHANGED <<handled, paymentPc, charged, restarts["Payment"]>>
  BY <1>0, <1>2, TakenStays DEF ChargeInv
<1>3. ASSUME NEW o \in Orders, PaymentTakesPayment(o)
      PROVE  ChargeInv'
  <2> DEFINE head == Min(Waiting("Payment"))
  <2>1. /\ head \in DOMAIN out /\ head > handled["Payment"] /\ paymentPc = "idle"
        /\ out[head].type = "StockConfirmed" /\ out[head].about = o
        /\ out' = out /\ handled' = handled /\ paymentPc' = "ack"
        /\ restarts'["Payment"] = restarts["Payment"]
        /\ Waiting("Payment")' = Waiting("Payment")
    BY <1>0, <1>3, WaitingFacts DEF PaymentTakesPayment, AtHead, Deliver, Payment!TakePayment, Waiting
  <2>2. ~IsTaken(o)
    <3>1. ASSUME NEW i \in DOMAIN out, out[i].type = "StockConfirmed", out[i].about = o
          PROVE  i = head
      BY <1>0, <2>1, <3>1, SentOnce DEF ConsumerStages
    <3>2. handled["Payment"] \in Nat /\ head \in Nat
      BY <1>0, <2>1, WaitingFacts, BusGrows
    <3> HIDE DEF head
    <3> QED BY <2>1, <3>1, <3>2 DEF IsTaken
  <2>3. IsTaken(o)'
    BY <2>1 DEF IsTaken, Min
  <2>4. \A p \in Orders : IsTaken(p) => IsTaken(p)'
    BY <2>1 DEF IsTaken
  <2>5. charged'[o] <= charged[o] + 1 /\ \A p \in Orders \ {o} : charged'[p] = charged[p]
    BY <1>0, <1>3 DEF PaymentTakesPayment, Payment!TakePayment
  <2>6. charged'[o] \in Nat
    BY <1>0, <1>3 DEF PaymentTakesPayment, Payment!TakePayment
  <2> QED BY <1>0, <2>1, <2>2, <2>3, <2>4, <2>5, <2>6 DEF ChargeInv
<1>4. CASE PaymentAcknowledges
  <2>1. /\ Waiting("Payment") # {} /\ AckMessage("Payment") /\ paymentPc' = "idle"
        /\ out' = out /\ charged' = charged /\ restarts'["Payment"] = restarts["Payment"]
    BY <1>0, <1>4 DEF PaymentAcknowledges, Payment!PaymentAcknowledges, HeadsWait, vars
  <2>2. handled'["Payment"] = Min(Waiting("Payment")) /\ handled'["Payment"] > handled["Payment"]
    BY <1>0, <2>1, AckFacts
  <2>3. handled["Payment"] \in Nat /\ handled'["Payment"] \in Nat /\ DOMAIN out \subseteq Nat
    BY <1>0, <2>1, <2>2, WaitingFacts, BusGrows
  <2>4. \A o \in Orders : IsTaken(o) => IsTaken(o)'
    BY <2>1, <2>2, <2>3 DEF IsTaken
  <2> QED BY <2>1, <2>4 DEF ChargeInv
<1>5. ASSUME NEW s \in Others, ServiceRestarts(s)
      PROVE  ChargeInv'
  <2>1. handled' = handled /\ out' = out /\ charged' = charged
    BY <1>5 DEF ServiceRestarts, payment, Payment!PaymentRestarts, Payment!PaymentAcknowledges, vars
  <2>2. CASE s = "Payment"
    <3>1. restarts'["Payment"] = restarts["Payment"] + 1
      BY <1>0, <1>5, <2>2 DEF ServiceRestarts, ServicesTypeOK
    <3> QED BY <1>0, <2>1, <3>1 DEF ChargeInv
  <2>3. CASE s # "Payment"
    <3>1. restarts'["Payment"] = restarts["Payment"] /\ paymentPc' = paymentPc
      BY <1>0, <1>5, <2>3 DEF ServiceRestarts, ServicesTypeOK, payment
    <3> QED BY <1>2, <2>1, <3>1
  <2> QED BY <2>2, <2>3
<1>6. CASE CatalogAcknowledges \/ CatalogDiscards
  <2>1. /\ Waiting("Catalog") # {} /\ AckMessage("Catalog")
        /\ UNCHANGED <<vars, payment, restarts["Payment"]>>
    BY <1>0, <1>6 DEF CatalogAcknowledges, CatalogDiscards, Catalog!CatalogAcknowledges, HeadsWait
  <2>2. out' = out
    BY <2>1 DEF vars
  <2>3. handled'["Payment"] = handled["Payment"] /\ Waiting("Payment")' = Waiting("Payment")
    BY <1>0, <2>1, <2>2, AckFacts
  <2> QED BY <1>1, <2>1, <2>2, <2>3 DEF payment
<1>7. CASE \/ OrderingStep \/ (\E r \in Checkouts : CheckoutAsync(r))
           \/ CheckConfirmedGracePeriodOrders \/ CatalogSubscribes
           \/ (\E p \in Discontinued : ProductIsDeleted(p))
           \/ (\E o \in Orders : \/ GracePeriodPasses(o) \/ PublishGracePeriodConfirmed(o)
                                 \/ CatalogValidatesStock(o) \/ CatalogPublishesReply(o)
                                 \/ CatalogTakesStock(o))
           \/ UNCHANGED eshopVars
  <2>1. UNCHANGED <<handled, paymentPc, charged, restarts["Payment"]>>
    BY <1>7 DEF OrderingStep, CheckoutAsync, CheckConfirmedGracePeriodOrders, CatalogSubscribes,
       ProductIsDeleted, GracePeriodPasses, PublishGracePeriodConfirmed, CatalogValidatesStock,
       CatalogPublishesReply, CatalogTakesStock, payment, eshopVars
  <2> QED BY <1>2, <2>1
<1> QED BY <1>3, <1>4, <1>5, <1>6, <1>7 DEF EShopNext

\* A customer is charged once per order, and once more at most for each restart of Payment.API,
\* whatever the timer, the users, Ordering's retries and crashes and Catalog's restarts repeat.
THEOREM ChargedOncePerRestartCorrect == EShopSpec => []ChargedOncePerRestart
<1>1. ChargeInv => ChargedOncePerRestart
  BY DEF ChargeInv, ChargedOncePerRestart
<1>2. EShopSpec => []EShopKnown
  BY EShopIsKnown, PTL DEF EShopKnown
<1> QED BY <1>1, <1>2, ChargeInit, ChargeNext, PTL DEF EShopSpec

---------------------------------------------------------------------------
(***************************************************************************)
(* Stock.  The message that asks Catalog to take an order's units is sent  *)
(* once; it uses the order up, unless Catalog.API dies before it           *)
(* acknowledges it: a restart can at most take all paid orders back.       *)
(***************************************************************************)

\* The units of order o are taken, but for the acknowledgement.
IsDelivered(o) ==
    \E i \in DOMAIN out :
        /\ out[i].type = "Paid" /\ out[i].about = o
        /\ i <= handled["Catalog"] \/ (catalogPc = "ack" /\ i = Min(Waiting("Catalog")))

DeliveredOrders == {o \in Orders : IsDelivered(o)}

Units(p, S) == Total([o \in S |-> Items[origin[o]][p]])

StockInv ==
    \A p \in Products :
        InitialStock[p] - stock[p]
            <= restarts["Catalog"] * Units(p, PaidOrders) + Units(p, DeliveredOrders)

\* The invariant's sum is the property's.
LEMMA UnitsAreSummed ==
  ASSUME NEW p, NEW S, IsFiniteSet(S), \A o \in S : Items[origin[o]][p] \in Nat
  PROVE  MapThenSumSet(LAMBDA o : Items[origin[o]][p], S) = Units(p, S)
<1> DEFINE f == [o \in S |-> Items[origin[o]][p]]
           Folds(g) == g = [T \in SUBSET S |->
                              IF T = {} THEN 0
                              ELSE Items[origin[Chosen(T)]][p] + g[T \ {Chosen(T)}]]
           iter == CHOOSE g : Folds(g)
<1>1. f \in [S -> Nat]
  OBVIOUS
<1>2. PICK sum : IsSum(sum, f, S) /\ Total(f) = sum[S] /\ sum[S] \in Nat
  BY <1>1, TotalFacts
<1>3. MapThenSumSet(LAMBDA o : Items[origin[o]][p], S) = iter[S]
  BY DEF MapThenSumSet, MapThenFoldSet, Chosen
<1>4. \A T \in SUBSET S : T # {} => Chosen(T) \in S /\ f[Chosen(T)] = Items[origin[Chosen(T)]][p]
  BY DEF Chosen
<1>5. Folds(sum)
  BY <1>2, <1>4 DEF IsSum
<1>6. Folds(iter)
  <2> HIDE DEF Folds
  <2> QED BY <1>5
<1>7. IsFold(iter, f, S)
  <2> DEFINE summed(T) == IF T = {} THEN 0
                          ELSE Items[origin[Chosen(T)]][p] + iter[T \ {Chosen(T)}]
             folded(T) == IF T = {} THEN 0 ELSE f[Chosen(T)] + iter[T \ {Chosen(T)}]
  <2>1. iter = [T \in SUBSET S |-> summed(T)]
    BY <1>6
  <2>2. ASSUME NEW T \in SUBSET S PROVE summed(T) = folded(T)
    <3> HIDE DEF iter, f
    <3> QED BY <1>4
  <2>3. [T \in SUBSET S |-> summed(T)] = [T \in SUBSET S |-> folded(T)]
    <3> HIDE DEF summed, folded
    <3> QED BY <2>2
  <2>4. iter = [T \in SUBSET S |-> folded(T)]
    <3> HIDE DEF iter, summed, folded
    <3> QED BY <2>1, <2>3
  <2> HIDE DEF iter, f
  <2> QED BY <2>4 DEF IsFold
<1> HIDE DEF iter, f, Folds
<1>8. iter[S] = sum[S]
  BY <1>2, <1>7, SumIsUnique
<1> QED BY <1>2, <1>3, <1>8 DEF f, Units

\* The orders that count as paid are finitely many, and their units known.
PaidFacts ==
    /\ IsFiniteSet(PaidOrders) /\ PaidOrders \subseteq Orders
    /\ DeliveredOrders \subseteq PaidOrders
    /\ \A o \in PaidOrders : status[o] # Absent /\ Items[origin[o]] \in [Products -> Nat]

LEMMA PaidIsKnown == EShopKnown => PaidFacts
<1> SUFFICES ASSUME EShopKnown PROVE PaidFacts
  OBVIOUS
<1>1. Len(outbox) \in Nat /\ DOMAIN outbox = 1 .. Len(outbox)
  BY DEF EShopKnown, OrderingKnown, LogInv, TypeInv, TypeOK
<1>2. IsFiniteSet({outbox[i].about : i \in 1 .. Len(outbox)})
  <2> DEFINE D == 1 .. Len(outbox)
             T == {outbox[i].about : i \in D}
             f == [i \in D |-> outbox[i].about]
  <2>1. IsFiniteSet(D)
    BY <1>1, FS_Interval
  <2>2. f \in Surjection(D, T)
    BY DEF Surjection
  <2> QED BY <2>1, <2>2, FS_Surjection
<1>3. PaidOrders \in SUBSET {outbox[i].about : i \in 1 .. Len(outbox)}
  BY <1>1 DEF PaidOrders, Logged
<1>4. IsFiniteSet(PaidOrders)
  BY <1>2, <1>3, FS_Subset
<1>5. DeliveredOrders \subseteq PaidOrders
  BY DEF DeliveredOrders, IsDelivered, PaidOrders, EShopKnown, ServiceInv, BusCopies, Logged
<1>6. ASSUME NEW o \in PaidOrders
      PROVE  status[o] # Absent /\ Items[origin[o]] \in [Products -> Nat]
  <2>1. o \in Orders /\ Logged("Paid", o) /\ "Paid" \in ConsumerStages /\ Absent \in Behind["Paid"]
    BY DEF PaidOrders, ConsumerStages, Behind
  <2>2. status[o] # Absent
    BY <2>1 DEF EShopKnown, OrderingKnown, StageInv, StageParts, AnnouncedIsPassed
  <2>3. origin[o] \in Checkouts
    BY <2>1, <2>2 DEF EShopKnown, ServiceInv, CauseInv, RowsAreCaused
  <2> QED BY <2>2, <2>3, EShopAssumption DEF EShopAssumption
<1> QED BY <1>4, <1>5, <1>6 DEF PaidFacts, PaidOrders

LEMMA PaidStaysKnown == EShopKnown' => PaidFacts'
BY PaidIsKnown, PTL

LEMMA TimesGrows ==
  ASSUME NEW a \in Nat, NEW b \in Nat, NEW c \in Nat, b <= c
  PROVE  a * b <= a * c /\ a * b \in Nat /\ a * c \in Nat /\ (a + 1) * b = a * b + b
OBVIOUS

\* The units of the orders that are paid can only become more: rows keep their checkouts.
LEMMA UnitsGrow ==
  ASSUME EShopKnown, EShopKnown', [Next]_vars, NEW p \in Products,
         NEW S \in SUBSET PaidOrders, NEW T \in SUBSET PaidOrders', S \subseteq T
  PROVE  /\ Units(p, S) \in Nat
         /\ Total([o \in T |-> Items[origin'[o]][p]]) \in Nat
         /\ Units(p, S) <= Total([o \in T |-> Items[origin'[o]][p]])
<1> DEFINE f == [o \in S |-> Items[origin[o]][p]]
           g == [o \in T |-> Items[origin'[o]][p]]
<1>0. PaidFacts /\ PaidFacts'
  BY PaidIsKnown, PaidStaysKnown
<1>1. IsFiniteSet(PaidOrders) /\ IsFiniteSet(PaidOrders') /\ PaidOrders \subseteq Orders
  BY <1>0 DEF PaidFacts
<1>2. IsFiniteSet(S) /\ IsFiniteSet(T)
  BY <1>1, FS_Subset
<1>3. \A o \in S : status[o] # Absent /\ Items[origin[o]] \in [Products -> Nat]
  BY <1>0 DEF PaidFacts
<1>4. \A o \in T : Items[origin'[o]] \in [Products -> Nat]
  BY <1>0 DEF PaidFacts
<1>5. \A o \in S : origin'[o] = origin[o]
  BY <1>1, <1>3, RowsStay DEF EShopKnown
<1>6. f \in [S -> Nat]
  BY <1>3
<1>7. g \in [T -> Nat]
  BY <1>4
<1>8. \A o \in S : f[o] = g[o]
  BY <1>5
<1> HIDE DEF f, g
<1>9. Total(f) \in Nat /\ Total(g) \in Nat
  BY <1>2, <1>6, <1>7, TotalType
<1>10. Total(f) <= Total(g)
  BY <1>2, <1>6, <1>7, <1>8, TotalGrows
<1> QED BY <1>9, <1>10 DEF f, g, Units

\* The delivered orders are some of the paid ones.
LEMMA UnitsOfPart ==
  ASSUME PaidFacts, NEW p \in Products
  PROVE  /\ Units(p, PaidOrders) \in Nat /\ Units(p, DeliveredOrders) \in Nat
         /\ Units(p, DeliveredOrders) <= Units(p, PaidOrders)
<1> DEFINE S == DeliveredOrders
           T == PaidOrders
           f == [o \in S |-> Items[origin[o]][p]]
           g == [o \in T |-> Items[origin[o]][p]]
<1>1. IsFiniteSet(T) /\ S \subseteq T
  BY DEF PaidFacts
<1>2. g \in [T -> Nat]
  BY DEF PaidFacts
<1>3. f \in [S -> Nat]
  BY DEF PaidFacts
<1>4. \A o \in S : f[o] = g[o]
  BY <1>1
<1> HIDE DEF S, T, f, g
<1>5. IsFiniteSet(S)
  BY <1>1, FS_Subset
<1>6. Total(f) \in Nat /\ Total(g) \in Nat
  BY <1>1, <1>2, <1>3, <1>5, TotalType
<1>7. Total(f) <= Total(g)
  BY <1>1, <1>2, <1>3, <1>4, TotalGrows
<1> QED BY <1>6, <1>7 DEF f, g, S, T, Units

LEMMA StockInit == EShopInit => StockInv
<1> SUFFICES ASSUME EShopInit, NEW p \in Products
             PROVE  InitialStock[p] - stock[p]
                      <= restarts["Catalog"] * Units(p, PaidOrders) + Units(p, DeliveredOrders)
  BY DEF StockInv
<1>1. PaidOrders = {} /\ DeliveredOrders = {}
  BY DEF EShopInit, Init, PaidOrders, DeliveredOrders, Logged, IsDelivered
<1>2. Units(p, {}) \in Nat
  <2> DEFINE f == [o \in {} |-> Items[origin[o]][p]]
  <2>1. f \in [{} -> Nat] /\ IsFiniteSet({})
    BY FS_EmptySet
  <2> HIDE DEF f
  <2>2. Total(f) \in Nat
    BY <2>1, TotalType
  <2> QED BY <2>2 DEF f, Units
<1>3. stock = InitialStock /\ restarts["Catalog"] = 0 /\ InitialStock[p] \in Nat
  BY ServiceNames, EShopAssumption DEF EShopInit, Catalog!CatalogInit, EShopAssumption
<1> QED BY <1>1, <1>2, <1>3

\* A step that takes nothing, and takes back nothing without a restart.
LEMMA StockStays ==
  ASSUME EShopKnown, EShopKnown', StockInv, [Next]_vars, stock' = stock,
         \/ restarts'["Catalog"] = restarts["Catalog"] /\ DeliveredOrders \subseteq DeliveredOrders'
         \/ restarts'["Catalog"] = restarts["Catalog"] + 1
  PROVE  StockInv'
<1> SUFFICES ASSUME NEW p \in Products
             PROVE  InitialStock[p] - stock[p]
                      <= restarts'["Catalog"] * Units(p, PaidOrders)' + Units(p, DeliveredOrders)'
  BY DEF StockInv
<1>0. PaidFacts /\ PaidFacts' /\ PaidOrders \subseteq PaidOrders'
  <2>1. TypeInv
    BY DEF EShopKnown, OrderingKnown, LogInv
  <2>2. \A o \in Orders : Logged("Paid", o) => Logged("Paid", o)'
    BY <2>1, EventsStay DEF Logged
  <2> QED BY <2>2, PaidIsKnown, PaidStaysKnown DEF PaidOrders
<1> DEFINE u  == Units(p, PaidOrders)
           v  == Units(p, PaidOrders)'
           d  == Units(p, DeliveredOrders)
           e  == Units(p, DeliveredOrders)'
           taken == InitialStock[p] - stock[p]
<1>1. u \in Nat /\ v \in Nat /\ u <= v
  BY <1>0, UnitsGrow DEF Units
<1>2. d \in Nat /\ d <= v
  BY <1>0, UnitsGrow DEF Units, PaidFacts
<1>3. e \in Nat
  <2>1. DeliveredOrders' \in SUBSET PaidOrders' /\ {} \in SUBSET PaidOrders
    BY <1>0 DEF PaidFacts
  <2>2. {} \subseteq DeliveredOrders'
    OBVIOUS
  <2> QED BY <2>1, <2>2, UnitsGrow DEF Units
<1>4. taken \in Int /\ taken <= restarts["Catalog"] * u + d /\ restarts["Catalog"] \in Nat
  BY ServiceNames, EShopAssumption DEF StockInv, EShopKnown, ServiceInv, ServicesTypeOK,
     Catalog!CatalogTypeOK, EShopAssumption
<1>5. CASE restarts'["Catalog"] = restarts["Catalog"] /\ DeliveredOrders \subseteq DeliveredOrders'
  <2>1. d <= e
    BY <1>0, <1>5, UnitsGrow DEF Units, PaidFacts
  <2> HIDE DEF u, v, d, e, taken
  <2>2. /\ restarts["Catalog"] * u <= restarts["Catalog"] * v
        /\ restarts["Catalog"] * u \in Nat /\ restarts["Catalog"] * v \in Nat
    BY <1>1, <1>4, TimesGrows
  <2> QED BY <1>2, <1>3, <1>4, <1>5, <2>1, <2>2 DEF v, e, taken
<1>6. CASE restarts'["Catalog"] = restarts["Catalog"] + 1
  <2> HIDE DEF u, v, d, e, taken
  <2>1. /\ restarts["Catalog"] * u <= restarts["Catalog"] * v
        /\ restarts["Catalog"] * u \in Nat /\ restarts["Catalog"] * v \in Nat
        /\ (restarts["Catalog"] + 1) * v = restarts["Catalog"] * v + v
    BY <1>1, <1>4, TimesGrows
  <2>2. taken <= (restarts["Catalog"] + 1) * v + e
    BY <1>1, <1>2, <1>3, <1>4, <2>1
  <2> QED BY <1>6, <2>2 DEF v, e, taken
<1> QED BY <1>5, <1>6

\* No step but a restart takes an order's delivery back.
LEMMA DeliveredStays ==
  ASSUME EShopKnown, [Next]_vars, handled' = handled, catalogPc = "ack" => catalogPc' = "ack"
  PROVE  DeliveredOrders \subseteq DeliveredOrders'
<1>0. TypeInv /\ ServicesTypeOK /\ HeadsWait /\ "Catalog" \in Services
  BY ServiceNames DEF EShopKnown, OrderingKnown, LogInv, ServiceInv
<1>1. \A i \in DOMAIN out : i \in DOMAIN out' /\ out'[i] = out[i]
  BY <1>0, BusGrows
<1>2. catalogPc = "ack" => Min(Waiting("Catalog"))' = Min(Waiting("Catalog"))
  BY <1>0, HeadsStay DEF HeadsWait
<1> QED BY <1>1, <1>2 DEF DeliveredOrders, IsDelivered

\* Catalog takes no more than the units of an order it has not taken before.
LEMMA StockTaken ==
  ASSUME EShopKnown, EShopKnown', StockInv, NEW o \in Orders, CatalogTakesStock(o)
  PROVE  StockInv'
<1> SUFFICES ASSUME NEW p \in Products
             PROVE  InitialStock[p] - stock'[p]
                      <= restarts'["Catalog"] * Units(p, PaidOrders)' + Units(p, DeliveredOrders)'
  BY DEF StockInv
<1>0. /\ TypeInv /\ ServicesTypeOK /\ HeadsWait /\ BusCopies /\ OrderingKnown
      /\ "Catalog" \in Services /\ PaidFacts /\ PaidFacts' /\ UNCHANGED vars
  BY ServiceNames, PaidIsKnown, PaidStaysKnown DEF EShopKnown, OrderingKnown, LogInv, ServiceInv,
     CatalogTakesStock
<1> DEFINE head == Min(Waiting("Catalog"))
<1>1. /\ head \in DOMAIN out /\ head > handled["Catalog"] /\ catalogPc = "idle"
      /\ out[head].type = "Paid" /\ out[head].about = o
      /\ out' = out /\ handled' = handled /\ catalogPc' = "ack"
      /\ restarts'["Catalog"] = restarts["Catalog"]
      /\ Waiting("Catalog")' = Waiting("Catalog") /\ origin' = origin
      /\ PaidOrders' = PaidOrders
  BY <1>0, WaitingFacts DEF CatalogTakesStock, AtHead, Catalog!TakeStock, Waiting, vars, PaidOrders, Logged
<1>2. o \notin DeliveredOrders
  <2>1. ASSUME NEW i \in DOMAIN out, out[i].type = "Paid", out[i].about = o
        PROVE  i = head
    BY <1>0, <1>1, <2>1, SentOnce DEF ConsumerStages
  <2>2. handled["Catalog"] \in Nat /\ head \in Nat
    BY <1>0, <1>1, WaitingFacts, BusGrows
  <2> HIDE DEF head
  <2> QED BY <1>1, <2>1, <2>2 DEF DeliveredOrders, IsDelivered
<1>3. DeliveredOrders' \ {o} = DeliveredOrders /\ o \in DeliveredOrders'
  <2>1. o \in DeliveredOrders'
    BY <1>1 DEF DeliveredOrders, IsDelivered, Min
  <2>2. \A q \in Orders : q # o => (IsDelivered(q) <=> IsDelivered(q)')
    BY <1>1 DEF IsDelivered, Min
  <2> QED BY <1>2, <2>1, <2>2 DEF DeliveredOrders
<1>4. Items[origin[o]] \in [Products -> Nat]
  BY <1>0, <1>1, <1>3 DEF PaidFacts
<1> DEFINE u == Units(p, PaidOrders)
           d == Units(p, DeliveredOrders)
           e == Units(p, DeliveredOrders)'
           item == Items[origin[o]][p]
<1>5. d \in Nat /\ e = d + item /\ item \in Nat
  <2> DEFINE D == DeliveredOrders
             E == DeliveredOrders'
             f == [q \in D |-> Items[origin[q]][p]]
             g == [q \in E |-> Items[origin[q]][p]]
  <2>1. IsFiniteSet(E) /\ D = E \ {o} /\ o \in E
    BY <1>0, <1>3, FS_Subset DEF PaidFacts
  <2>2. g \in [E -> Nat]
    BY <1>0, <1>1 DEF PaidFacts
  <2>3. f \in [D -> Nat]
    BY <1>0 DEF PaidFacts
  <2>4. \A q \in D : f[q] = g[q]
    BY <2>1
  <2>5. g[o] = item
    BY <2>1
  <2>6. Total(f) = d /\ Total(g) = e
    BY <1>1 DEF Units
  <2>7. IsFiniteSet(D)
    BY <2>1, FS_Subset
  <2> HIDE DEF D, E, f, g, item, d, e
  <2>8. Total(g) = Total(f) + g[o]
    BY <2>1, <2>2, <2>3, <2>4, TotalAdds
  <2>9. Total(f) \in Nat
    BY <2>3, <2>7, TotalType
  <2> QED BY <1>4, <2>5, <2>6, <2>8, <2>9 DEF item
<1>6. stock[p] \in Nat /\ stock'[p] \in Nat /\ stock[p] - stock'[p] <= item
  <2>1. stock \in [Products -> Nat] /\ Catalog!TakeStock(Items[origin[o]])
    BY <1>0 DEF ServicesTypeOK, Catalog!CatalogTypeOK, CatalogTakesStock
  <2>2. stock' \in [Products -> Nat]
    BY <1>4, <2>1, TakenStock
  <2>3. \/ stock'[p] = stock[p]
        \/ stock'[p] = stock[p] - Catalog!Removed(item, stock[p])
    BY <2>1 DEF Catalog!TakeStock
  <2>4. item \in Nat /\ stock[p] \in Nat
    BY <1>4, <2>1
  <2> QED BY <2>2, <2>3, <2>4 DEF Catalog!Removed
<1>7. /\ InitialStock[p] - stock[p] <= restarts["Catalog"] * u + d
      /\ InitialStock[p] \in Nat /\ restarts["Catalog"] \in Nat
  BY <1>0, ServiceNames, EShopAssumption DEF StockInv, EShopAssumption, ServicesTypeOK
<1>8. Units(p, PaidOrders)' = u
  BY <1>1 DEF Units
<1>9. u \in Nat
  <2>1. [Next]_vars
    BY <1>0
  <2> QED BY <1>1, <2>1, UnitsGrow
<1> HIDE DEF u, d, e, item
<1>10. restarts["Catalog"] * u \in Nat
  BY <1>7, <1>9, TimesGrows
<1>11. InitialStock[p] - stock'[p] <= restarts["Catalog"] * u + e
  BY <1>5, <1>6, <1>7, <1>10
<1> QED BY <1>1, <1>8, <1>11 DEF e

LEMMA StockNext ==
  EShopKnown /\ EShopKnown' /\ StockInv /\ [EShopNext]_eshopVars => StockInv'
<1> SUFFICES ASSUME EShopKnown, EShopKnown', StockInv, [EShopNext]_eshopVars PROVE StockInv'
  OBVIOUS
<1>0. /\ TypeInv /\ ServicesTypeOK /\ HeadsWait /\ [Next]_vars
      /\ "Payment" \in Services /\ "Catalog" \in Services /\ "Catalog" \in Others
  BY ServiceNames, EShopStep DEF EShopKnown, OrderingKnown, LogInv, ServiceInv
<1>1. CASE /\ UNCHANGED <<handled, stock, restarts["Catalog"]>>
           /\ catalogPc = "ack" => catalogPc' = "ack"
  BY <1>0, <1>1, DeliveredStays, StockStays
<1>2. CASE \/ OrderingStep \/ (\E r \in Checkouts : CheckoutAsync(r))
           \/ CheckConfirmedGracePeriodOrders \/ CatalogSubscribes
           \/ (\E p \in Discontinued : ProductIsDeleted(p))
           \/ (\E o \in Orders : \/ GracePeriodPasses(o) \/ PublishGracePeriodConfirmed(o)
                                 \/ CatalogValidatesStock(o) \/ CatalogPublishesReply(o)
                                 \/ PaymentTakesPayment(o))
           \/ UNCHANGED eshopVars
  <2>1. /\ UNCHANGED <<handled, stock, restarts["Catalog"]>>
        /\ catalogPc = "ack" => catalogPc' = "ack"
    BY <1>2 DEF OrderingStep, CheckoutAsync, CheckConfirmedGracePeriodOrders, CatalogSubscribes,
       ProductIsDeleted, GracePeriodPasses, PublishGracePeriodConfirmed, CatalogValidatesStock,
       CatalogPublishesReply, PaymentTakesPayment, catalog, eshopVars, Catalog!CatalogSubscribes,
       Catalog!DeleteProduct, Catalog!ValidateStock, Catalog!CannotValidateStock, Catalog!PublishReply
  <2> QED BY <1>1, <2>1
<1>3. ASSUME NEW o \in Orders, CatalogTakesStock(o) PROVE StockInv'
  BY <1>3, StockTaken
<1>4. CASE CatalogAcknowledges \/ CatalogDiscards
  <2>1. /\ Waiting("Catalog") # {} /\ AckMessage("Catalog") /\ stock' = stock
        /\ out' = out /\ restarts'["Catalog"] = restarts["Catalog"]
    BY <1>0, <1>4 DEF CatalogAcknowledges, CatalogDiscards, Catalog!CatalogAcknowledges,
       Catalog!CatalogDiscards, Catalog!catalogVars, HeadsWait, vars
  <2>2. handled'["Catalog"] = Min(Waiting("Catalog")) /\ handled'["Catalog"] > handled["Catalog"]
    BY <1>0, <2>1, AckFacts
  <2>3. handled["Catalog"] \in Nat /\ handled'["Catalog"] \in Nat /\ DOMAIN out \subseteq Nat
    BY <1>0, <2>1, <2>2, WaitingFacts, BusGrows
  <2>4. \A o \in Orders : IsDelivered(o) => IsDelivered(o)'
    BY <2>1, <2>2, <2>3 DEF IsDelivered
  <2> QED BY <1>0, <2>1, <2>4, StockStays DEF DeliveredOrders
<1>5. CASE PaymentAcknowledges
  <2>1. /\ Waiting("Payment") # {} /\ AckMessage("Payment")
        /\ UNCHANGED <<vars, catalog, restarts["Catalog"]>>
    BY <1>0, <1>5 DEF PaymentAcknowledges, Payment!PaymentAcknowledges, HeadsWait
  <2>2. out' = out /\ stock' = stock /\ catalogPc' = catalogPc
    BY <2>1 DEF vars, catalog
  <2>3. handled'["Catalog"] = handled["Catalog"] /\ Waiting("Catalog")' = Waiting("Catalog")
    BY <1>0, <2>1, <2>2, AckFacts
  <2>4. DeliveredOrders \subseteq DeliveredOrders'
    BY <2>2, <2>3 DEF DeliveredOrders, IsDelivered, Min
  <2> QED BY <1>0, <2>1, <2>2, <2>4, StockStays
<1>6. ASSUME NEW s \in Others, ServiceRestarts(s)
      PROVE  StockInv'
  <2>1. stock' = stock /\ handled' = handled
    BY <1>6 DEF ServiceRestarts, catalog, Catalog!CatalogRestarts
  <2>2. CASE s = "Catalog"
    <3>1. restarts'["Catalog"] = restarts["Catalog"] + 1
      BY <1>0, <1>6, <2>2 DEF ServiceRestarts, ServicesTypeOK
    <3> QED BY <1>0, <2>1, <3>1, StockStays
  <2>3. CASE s # "Catalog"
    <3>1. restarts'["Catalog"] = restarts["Catalog"] /\ catalogPc' = catalogPc
      BY <1>0, <1>6, <2>3 DEF ServiceRestarts, ServicesTypeOK, catalog
    <3> QED BY <1>1, <2>1, <3>1
  <2> QED BY <2>2, <2>3
<1> QED BY <1>2, <1>3, <1>4, <1>5, <1>6 DEF EShopNext

\* Stock leaves the catalog for paid orders only, and for each no more than its units and,
\* for each restart of Catalog.API, its units once more.
THEOREM StockLeavesForPaidOrdersCorrect == EShopSpec => []StockLeavesForPaidOrders
<1>1. EShopKnown /\ StockInv => StockLeavesForPaidOrders
  <2> SUFFICES ASSUME EShopKnown, StockInv, NEW p \in Products
               PROVE  InitialStock[p] - stock[p]
                        <= (1 + restarts["Catalog"])
                             * MapThenSumSet(LAMBDA o : Items[origin[o]][p], PaidOrders)
    BY DEF StockLeavesForPaidOrders
  <2> DEFINE u == Units(p, PaidOrders)
             d == Units(p, DeliveredOrders)
  <2>1. PaidFacts
    BY PaidIsKnown
  <2>2. MapThenSumSet(LAMBDA o : Items[origin[o]][p], PaidOrders) = u
    BY <2>1, UnitsAreSummed DEF PaidFacts
  <2>3. u \in Nat /\ d \in Nat /\ d <= u
    BY <2>1, UnitsOfPart
  <2>4. InitialStock[p] - stock[p] <= restarts["Catalog"] * u + d /\ restarts["Catalog"] \in Nat
        /\ InitialStock[p] - stock[p] \in Int
    BY ServiceNames, EShopAssumption DEF StockInv, EShopKnown, ServiceInv, ServicesTypeOK,
       Catalog!CatalogTypeOK, EShopAssumption
  <2> HIDE DEF u, d
  <2>5. (restarts["Catalog"] + 1) * u = restarts["Catalog"] * u + u /\ restarts["Catalog"] * u \in Nat
    BY <2>3, <2>4, TimesGrows
  <2>6. InitialStock[p] - stock[p] <= (1 + restarts["Catalog"]) * u
    BY <2>3, <2>4, <2>5
  <2> QED BY <2>2, <2>6
<1>2. EShopSpec => []EShopKnown
  BY EShopIsKnown, PTL DEF EShopKnown
<1> QED BY <1>1, <1>2, StockInit, StockNext, PTL DEF EShopSpec
=============================================================================
