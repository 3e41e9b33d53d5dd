------------------------------ MODULE Ordering ------------------------------
(***************************************************************************)
(* Ordering.API: the service that owns the orders.  Its workers are the    *)
(* RabbitMQ consumer, which handles the messages of the service's queue    *)
(* one at a time and in order, and the HTTP calls to OrdersController,     *)
(* which run beside it.  Each job is a MediatR command that                *)
(* TransactionBehaviour runs in one database transaction (ReadCommitted):  *)
(*                                                                         *)
(*    check, insert   the request id of an IdentifiedCommand               *)
(*    read            OrderRepository.GetAsync                             *)
(*    commit          the aggregate's method, the domain event handlers,   *)
(*                    SaveChanges and COMMIT                               *)
(*    publish, send, mark   the outbox entries of the transaction          *)
(*    reply           acknowledge the message, answer the HTTP call        *)
(*                                                                         *)
(* "commit" is one step although the code does several: from the first row *)
(* it writes to the COMMIT the transaction holds the row's exclusive lock, *)
(* so no other transaction sees a state in between.  What lies between     *)
(* "read" and "commit" is not protected: ReadCommitted releases the read   *)
(* lock and no entity has a concurrency token.                             *)
(*                                                                         *)
(* The module is open: Deliver lets the bus bring any message, any number  *)
(* of times.  EShop composes it with the services that publish them.       *)
(***************************************************************************)
EXTENDS OrderAggregate, Naturals, Sequences

CONSTANTS
    Orders,         \* ids of order rows
    Requests,       \* request ids (x-requestid, UserCheckoutAccepted.RequestId)
    Calls,          \* HTTP calls, each made at most once
    Consumer,       \* the consumer of the queue
    NoRequest,      \* the request id of a command that is not identified
    CheckoutKind,   \* what becomes of the content of each checkout, by request id
    ApiRequests,    \* the commands HTTP clients send
    FaultKinds,     \* subset of AllFaults
    MaxFaults       \* bound on the number of faults

HttpCommands == {"CancelOrder", "ShipOrder"}

AllFaults == {"crash", "commit", "statement", "broker", "log"}

(***************************************************************************)
(* What CreateOrderCommandHandler meets in a checkout:                     *)
(*   valid        an order is created                                      *)
(*   invalid      CreateOrderCommandValidator refuses the command          *)
(*   badItem      an OrderItem constructor throws (no units)               *)
(*   cardExpires  the card, valid when validated, has expired when the     *)
(*                PaymentMethod constructor checks it                      *)
(***************************************************************************)
CheckoutKinds == {"valid", "invalid", "badItem", "cardExpires"}

ASSUME OrderingAssumption ==
    /\ Orders \cap Requests = {}
    /\ NoRequest \notin Orders \cup Requests
    /\ Consumer \notin Calls
    /\ CheckoutKind \in [Requests -> CheckoutKinds]
    /\ ApiRequests \subseteq [cmd : HttpCommands, about : Orders, req : Requests]
    /\ FaultKinds \subseteq AllFaults
    /\ MaxFaults \in Nat

VARIABLES
    status,     \* the Status column of each order row
    hasBuyer,   \* whether its BuyerId column is set
    origin,     \* the checkout the row's buyer and items come from
    requests,   \* the ClientRequest table
    outbox,     \* the IntegrationEventLog table, in the order of its commits
    queue,      \* the service's queue, its head being handled or next
    out,        \* everything the service published, in order
    pc,         \* where each worker is
    job,        \* its command
    seen,       \* the status of the Order instance its DbContext tracks
    mine,       \* whether its DbContext tracks the ClientRequest
    next, last, \* the outbox entries next..last are left for it to publish
    answer,     \* the value its command returned
    subscribed, \* how many Subscribe calls ConfigureEventBus has made since the start
    faults      \* how many faults happened

database == <<status, hasBuyer, origin, requests, outbox>>
context  == <<job, seen, mine>>
vars == <<status, hasBuyer, origin, requests, outbox, queue, out,
          pc, job, seen, mine, next, last, answer, subscribed, faults>>

Workers == Calls \cup {Consumer}

InboundTypes == {"UserCheckoutAccepted", "GracePeriodConfirmed", "OrderStockConfirmed",
                 "OrderStockRejected", "OrderPaymentSucceeded", "OrderPaymentFailed"}

\* The Subscribe calls of ConfigureEventBus, in order.
OrderingSubscriptions ==
    <<"UserCheckoutAccepted", "GracePeriodConfirmed", "OrderStockConfirmed",
      "OrderStockRejected", "OrderPaymentFailed", "OrderPaymentSucceeded">>

Inbound == [type : {"UserCheckoutAccepted"}, about : Requests]
             \cup [type : InboundTypes \ {"UserCheckoutAccepted"}, about : Orders]

Jobs == [cmd : {"CreateOrder"}, about : Requests, req : Requests]
          \cup [cmd : StatusCommands, about : Orders, req : Requests \cup {NoRequest}]

NoJob == [cmd |-> "none", about |-> NoRequest, req |-> NoRequest]

EventTypes == Statuses \cup {"OrderStarted"}

EntryStates == {"NotPublished", "InProgress", "Published", "PublishedFailed"}

Entries == [type : EventTypes, about : Orders \cup Requests, state : EntryStates]

Published == [id : Nat, type : EventTypes, about : Orders \cup Requests]

Stages == {"idle", "check", "insert", "read", "commit",
           "publish", "send", "mark", "reply", "done"}

Answers == {"none", "true", "false", "error"}

---------------------------------------------------------------------------
(***************************************************************************)
(* Taking a job.                                                           *)
(***************************************************************************)

\* Makes the order id the request id of the timer's command.
CarelessCommandFor(m) ==
    [cmd   |-> IF m.type = "UserCheckoutAccepted" THEN "CreateOrder" ELSE "SetAwaitingValidation",
     about |-> m.about,
     req   |-> m.about]

\* The command each integration event handler sends; only the checkout's is
\* wrapped in an IdentifiedCommand.
CommandFor(m) ==
    LET plain(cmd) == [cmd |-> cmd, about |-> m.about, req |-> NoRequest]
    IN  CASE m.type = "UserCheckoutAccepted"  ->
                 [cmd |-> "CreateOrder", about |-> m.about, req |-> m.about]
          [] m.type = "GracePeriodConfirmed"  -> plain("SetAwaitingValidation")
          [] m.type = "OrderStockConfirmed"   -> plain("SetStockConfirmed")
          [] m.type = "OrderStockRejected"    -> plain("SetStockRejected")
          [] m.type = "OrderPaymentSucceeded" -> plain("SetPaid")
          [] m.type = "OrderPaymentFailed"    -> plain("CancelOrder")

Identified(w) == job[w].req # NoRequest

\* Where the delegate TransactionBehaviour runs (and runs again) starts.
FirstStage(j) == IF j.req # NoRequest THEN "check" ELSE "read"

Start(w, j) ==
    /\ pc[w] = "idle"
    /\ job' = [job EXCEPT ![w] = j]
    /\ pc'  = [pc EXCEPT ![w] = FirstStage(j)]

HasSubscriptions(type) == \E i \in 1 .. subscribed : OrderingSubscriptions[i] = type

Receive ==
    /\ queue # <<>>
    /\ HasSubscriptions(Head(queue).type)
    /\ Start(Consumer, CommandFor(Head(queue)))
    /\ UNCHANGED <<database, queue, out, seen, mine, next, last, answer, subscribed, faults>>

\* The server listens only when Configure has returned.
CallApi(c, r) ==
    /\ subscribed = Len(OrderingSubscriptions)
    /\ Start(c, r)
    /\ UNCHANGED <<database, queue, out, seen, mine, next, last, answer, subscribed, faults>>

\* Subscribe starts to consume at once, so that the messages that waited in the
\* durable queue arrive while later types have no handler yet: these messages are
\* acknowledged and gone.
Subscribe ==
    /\ subscribed < Len(OrderingSubscriptions)
    /\ subscribed' = subscribed + 1
    /\ UNCHANGED <<database, queue, out, pc, context, next, last, answer, faults>>

Discard ==
    /\ pc[Consumer] = "idle"
    /\ subscribed > 0
    /\ queue # <<>>
    /\ ~HasSubscriptions(Head(queue).type)
    /\ queue' = Tail(queue)
    /\ UNCHANGED <<database, out, pc, context, next, last, answer, subscribed, faults>>

---------------------------------------------------------------------------
(***************************************************************************)
(* IdentifiedCommandHandler and RequestManager.  The insert of a request   *)
(* id locks its key until the transaction ends: whoever reads or inserts   *)
(* the same key waits.                                                     *)
(***************************************************************************)

HoldsKey(v, r) == pc[v] \in {"read", "commit"} /\ job[v].req = r

KeyIsFree(w) == \A v \in Workers \ {w} : ~HoldsKey(v, job[w].req)

GoTo(w, stage) ==
    /\ pc' = [pc EXCEPT ![w] = stage]
    /\ UNCHANGED <<database, queue, out, job, next, last, subscribed, faults>>

\* ExistAsync: FindAsync answers from the DbContext before it asks the database.
RequestExists(w) == mine[w] \/ job[w].req \in requests

DuplicateRequest(w) ==
    /\ pc[w] = "check"
    /\ mine[w] \/ KeyIsFree(w)
    /\ RequestExists(w)
    /\ GoTo(w, "reply")
    /\ answer' = [answer EXCEPT ![w] = "true"]
    /\ UNCHANGED <<seen, mine>>

NewRequest(w) ==
    /\ pc[w] = "check"
    /\ KeyIsFree(w)
    /\ ~RequestExists(w)
    /\ GoTo(w, "insert")
    /\ UNCHANGED <<seen, mine, answer>>

\* Trusts the first look: no second one, and no key that another holds.
CarelessCreateRequest(w) ==
    /\ pc[w] = "insert"
    /\ GoTo(w, IF job[w].cmd = "CreateOrder" THEN "commit" ELSE "read")
    /\ mine' = [mine EXCEPT ![w] = TRUE]
    /\ UNCHANGED <<seen, answer>>

CreateRequest(w) ==
    /\ pc[w] = "insert"
    /\ KeyIsFree(w)
    /\ job[w].req \notin requests
    /\ GoTo(w, IF job[w].cmd = "CreateOrder" THEN "commit" ELSE "read")
    /\ mine' = [mine EXCEPT ![w] = TRUE]
    /\ UNCHANGED <<seen, answer>>

\* The second look finds the id, or the insert violates the primary key:
\* both exceptions leave the handler and roll the transaction back.
RejectRequest(w) ==
    /\ pc[w] = "insert"
    /\ KeyIsFree(w)
    /\ job[w].req \in requests
    /\ GoTo(w, "reply")
    /\ answer' = [answer EXCEPT ![w] = "error"]
    /\ UNCHANGED <<seen, mine>>

\* A query returns the instance the DbContext already tracks, unrefreshed.
LoadOrder(w) ==
    /\ pc[w] = "read"
    /\ GoTo(w, "commit")
    /\ seen' = [seen EXCEPT ![w] = IF @ = Absent THEN status[job[w].about] ELSE @]
    /\ UNCHANGED <<mine, answer>>

---------------------------------------------------------------------------
(***************************************************************************)
(* The command handlers, the domain event handlers and COMMIT.             *)
(***************************************************************************)

Entry(type, about) == [type |-> type, about |-> about, state |-> "NotPublished"]

\* Saves the order and its events but not the request id.
CarelessSave(w, value, events) ==
    /\ requests' = requests
    /\ outbox'   = outbox \o events
    /\ next'     = [next EXCEPT ![w] = Len(outbox) + 1]
    /\ last'     = [last EXCEPT ![w] = Len(outbox) + Len(events)]
    /\ answer'   = [answer EXCEPT ![w] = value]
    /\ pc'       = [pc EXCEPT ![w] = "publish"]
    /\ UNCHANGED <<queue, out, context, subscribed>>

\* COMMIT, which makes the request id and the outbox entries durable with
\* whatever the action says of the order.
Save(w, value, events) ==
    /\ requests' = requests \cup ({job[w].req} \ {NoRequest})
    /\ outbox'   = outbox \o events
    /\ next'     = [next EXCEPT ![w] = Len(outbox) + 1]
    /\ last'     = [last EXCEPT ![w] = Len(outbox) + Len(events)]
    /\ answer'   = [answer EXCEPT ![w] = value]
    /\ pc'       = [pc EXCEPT ![w] = "publish"]
    /\ UNCHANGED <<queue, out, context, subscribed>>

Commit(w, value, events) == Save(w, value, events) /\ UNCHANGED faults

AtCommit(w, cmds) == pc[w] = "commit" /\ job[w].cmd \in cmds

Outcome(w) == Apply(job[w].cmd, seen[w])

\* The method throws, or it added a domain event whose handler dereferences
\* the BuyerId of an order that has none.
Throws(w) ==
    Outcome(w).throws \/ (Outcome(w).event # NoEvent /\ ~hasBuyer[job[w].about])

\* EF Core writes the column only if the instance differs from what was loaded.
WriteStatus(w) ==
    /\ status' = IF Outcome(w).status = seen[w] THEN status
                 ELSE [status EXCEPT ![job[w].about] = Outcome(w).status]
    /\ UNCHANGED <<hasBuyer, origin>>

EventsOf(w) == IF Outcome(w).event = NoEvent THEN <<>>
               ELSE <<Entry(Outcome(w).event, job[w].about)>>

ChangeStatus(w) ==
    /\ AtCommit(w, StatusCommands)
    /\ seen[w] # Absent
    /\ ~Throws(w)
    /\ WriteStatus(w)
    /\ Commit(w, "true", EventsOf(w))

OrderNotFound(w) ==
    /\ AtCommit(w, StatusCommands)
    /\ seen[w] = Absent
    /\ Commit(w, "false", <<>>)
    /\ UNCHANGED <<status, hasBuyer, origin>>

\* IdentifiedCommandHandler swallows the exception; the outer transaction
\* goes on to save what the DbContext holds.
SwallowException(w) ==
    /\ AtCommit(w, StatusCommands)
    /\ seen[w] # Absent
    /\ Throws(w)
    /\ Identified(w)
    /\ WriteStatus(w)
    /\ Commit(w, "false", <<>>)

\* Without IdentifiedCommandHandler the exception rolls the transaction back.
RethrowException(w) ==
    /\ AtCommit(w, StatusCommands)
    /\ seen[w] # Absent
    /\ Throws(w)
    /\ ~Identified(w)
    /\ GoTo(w, "reply")
    /\ answer' = [answer EXCEPT ![w] = "error"]
    /\ UNCHANGED <<seen, mine>>

InsertOrder(o, r, buyer) ==
    /\ status[o] = Absent
    /\ status'   = [status EXCEPT ![o] = "Submitted"]
    /\ hasBuyer' = [hasBuyer EXCEPT ![o] = buyer]
    /\ origin'   = [origin EXCEPT ![o] = r]

CreateOrder(w, o) ==
    LET r == job[w].about
    IN  /\ AtCommit(w, {"CreateOrder"})
        /\ CheckoutKind[r] = "valid"
        /\ InsertOrder(o, r, TRUE)
        /\ Commit(w, "true", <<Entry("OrderStarted", r), Entry("Submitted", o)>>)

\* The domain event handler throws after the order was added to the DbContext
\* and the OrderStarted entry saved; the swallowed exception lets both commit.
CreateOrderWithoutBuyer(w, o) ==
    LET r == job[w].about
    IN  /\ AtCommit(w, {"CreateOrder"})
        /\ CheckoutKind[r] = "cardExpires"
        /\ InsertOrder(o, r, FALSE)
        /\ Commit(w, "false", <<Entry("OrderStarted", r)>>)

\* Nothing but the request id is saved, or the OrderStarted entry with it.
CreateNoOrder(w) ==
    LET r == job[w].about
    IN  /\ AtCommit(w, {"CreateOrder"})
        /\ CheckoutKind[r] \in {"invalid", "badItem"}
        /\ Commit(w, "false", IF CheckoutKind[r] = "invalid" THEN <<>>
                              ELSE <<Entry("OrderStarted", r)>>)
        /\ UNCHANGED <<status, hasBuyer, origin>>

---------------------------------------------------------------------------
(***************************************************************************)
(* PublishEventsThroughEventBusAsync, after COMMIT.                        *)
(***************************************************************************)

SetState(i, s) == outbox' = [outbox EXCEPT ![i].state = s]

MarkEventAsInProgress(w) ==
    /\ pc[w] = "publish"
    /\ next[w] <= last[w]
    /\ SetState(next[w], "InProgress")
    /\ pc' = [pc EXCEPT ![w] = "send"]
    /\ UNCHANGED <<status, hasBuyer, origin, requests, queue, out, context,
                   next, last, answer, subscribed, faults>>

Publish(w) ==
    /\ pc[w] = "send"
    /\ out' = Append(out, [id    |-> next[w],
                           type  |-> outbox[next[w]].type,
                           about |-> outbox[next[w]].about])
    /\ pc' = [pc EXCEPT ![w] = "mark"]
    /\ UNCHANGED <<database, queue, context, next, last, answer, subscribed, faults>>

\* Records the outcome of the entry being published and turns to the next.
Settle(w, s) ==
    /\ SetState(next[w], s)
    /\ next' = [next EXCEPT ![w] = @ + 1]
    /\ pc' = [pc EXCEPT ![w] = "publish"]
    /\ UNCHANGED <<status, hasBuyer, origin, requests, queue, out, context,
                   last, answer, subscribed>>

\* Marks the entry but does not move on to the one after it.
CarelessMarkEventAsPublished(w) ==
    /\ pc[w] = "mark"
    /\ SetState(next[w], "Published")
    /\ pc' = [pc EXCEPT ![w] = "publish"]
    /\ UNCHANGED <<status, hasBuyer, origin, requests, queue, out, context,
                   next, last, answer, subscribed, faults>>

MarkEventAsPublished(w) ==
    /\ pc[w] = "mark"
    /\ Settle(w, "Published")
    /\ UNCHANGED faults

---------------------------------------------------------------------------
(***************************************************************************)
(* The end of a job.  Consumer_Received acknowledges the message whether   *)
(* or not its handler threw; a call keeps its answer.                      *)
(***************************************************************************)

\* Ends the loop over the entries one too early.
CarelessFinished(w) == pc[w] = "reply" \/ (pc[w] = "publish" /\ next[w] >= last[w])

Finished(w) == pc[w] = "reply" \/ (pc[w] = "publish" /\ next[w] > last[w])

\* The request scope ends: its DbContext is disposed.
EndScope(w, stage) ==
    /\ pc'   = [pc EXCEPT ![w] = stage]
    /\ seen' = [seen EXCEPT ![w] = Absent]
    /\ mine' = [mine EXCEPT ![w] = FALSE]
    /\ next' = [next EXCEPT ![w] = 1]
    /\ last' = [last EXCEPT ![w] = 0]

Acknowledge ==
    /\ Finished(Consumer)
    /\ EndScope(Consumer, "idle")
    /\ queue'  = Tail(queue)
    /\ job'    = [job EXCEPT ![Consumer] = NoJob]
    /\ answer' = [answer EXCEPT ![Consumer] = "none"]
    /\ UNCHANGED <<database, out, subscribed, faults>>

Respond(c) ==
    /\ Finished(c)
    /\ EndScope(c, "done")
    /\ UNCHANGED <<database, queue, out, job, answer, subscribed, faults>>

---------------------------------------------------------------------------
(***************************************************************************)
(* Faults.                                                                 *)
(***************************************************************************)

Fault(kind) ==
    /\ kind \in FaultKinds
    /\ faults < MaxFaults
    /\ faults' = faults + 1

\* The delegate runs again on the same DbContext, whose change tracker takes the
\* values it has written for saved ones.
RunAgain(w) ==
    /\ pc'   = [pc EXCEPT ![w] = FirstStage(job[w])]
    /\ seen' = [seen EXCEPT ![w] = IF @ = Absent THEN @ ELSE Outcome(w).status]
    /\ UNCHANGED <<database, queue, out, job, mine, next, last, answer, subscribed>>

(***************************************************************************)
(* A statement of an identified command fails and the transaction stays    *)
(* open (a timeout): IdentifiedCommandHandler swallows the exception, and  *)
(* the outer transaction commits what the DbContext and the log hold.      *)
(***************************************************************************)

\* The statement read the order, or came after the method: in the domain event handler,
\* which logs the event last, or in SaveChanges, which COMMIT repeats.
ChangeStops(w) ==
    /\ AtCommit(w, StatusCommands)
    /\ Identified(w)
    /\ Fault("statement")
    /\ \/ UNCHANGED <<status, hasBuyer, origin>> /\ Save(w, "false", <<>>)
       \/ /\ seen[w] # Absent /\ ~Outcome(w).throws
          /\ WriteStatus(w)
          /\ Save(w, "false", <<>>) \/ (~Throws(w) /\ Save(w, "false", EventsOf(w)))

\* No order was added yet; or it was, with or without the buyer.  If it is the insert of
\* the Submitted entry that fails, the log's own context saves that entry later and nobody
\* publishes it: the model leaves it out.
CreationStops(w, o) ==
    LET r       == job[w].about
        started == <<Entry("OrderStarted", r)>>
    IN  /\ AtCommit(w, {"CreateOrder"})
        /\ CheckoutKind[r] # "invalid"
        /\ Fault("statement")
        /\ \/ /\ UNCHANGED <<status, hasBuyer, origin>>
              /\ \E events \in {<<>>, started} : Save(w, "false", events)
           \/ /\ CheckoutKind[r] # "badItem"
              /\ InsertOrder(o, r, FALSE) \/ (CheckoutKind[r] = "valid" /\ InsertOrder(o, r, TRUE))
              /\ Save(w, "false", started)

Stops(w) == ChangeStops(w) \/ \E o \in Orders : CreationStops(w, o)

\* The exception leaves TransactionBehaviour.
GiveUp(w) ==
    /\ pc' = [pc EXCEPT ![w] = "reply"]
    /\ answer' = [answer EXCEPT ![w] = "error"]
    /\ UNCHANGED <<database, queue, out, context, next, last, subscribed>>

\* COMMIT fails and the execution strategy finds the error transient.
RetryAfterTransientError(w) ==
    /\ pc[w] = "commit"
    /\ Fault("commit")
    /\ job[w].cmd \in StatusCommands /\ seen[w] # Absent /\ Throws(w) => Identified(w)
    /\ RunAgain(w)

\* COMMIT fails for good.
CommitFails(w) ==
    /\ pc[w] = "commit"
    /\ Fault("commit")
    /\ GiveUp(w)

\* Around an entry the log is written: its row may be out of reach.
AtEntry(w) == (pc[w] = "publish" /\ next[w] <= last[w]) \/ pc[w] = "mark"

\* The broker stays unreachable longer than the publisher retries, or an update of
\* the log fails, which may be the one that follows a successful publication.
MarkEventAsFailed(w) ==
    /\ \/ pc[w] = "send" /\ Fault("broker")
       \/ AtEntry(w) /\ Fault("log")
    /\ Settle(w, "PublishedFailed")

\* Marking the failure fails too, after COMMIT, with a transient error or for good.
RetryAfterCommit(w) ==
    /\ AtEntry(w)
    /\ Fault("log")
    /\ RunAgain(w)

AbandonPublishing(w) ==
    /\ AtEntry(w)
    /\ Fault("log")
    /\ GiveUp(w)

\* The process dies and starts again: transactions roll back, callers get no
\* answer, and the message that was not acknowledged is at the queue's head again.
Crash ==
    LET busy == {w \in Workers : pc[w] \notin {"idle", "done"}}
    IN  /\ Fault("crash")
        /\ subscribed' = 0
        /\ pc'     = [w \in Workers |-> IF w \notin busy THEN pc[w]
                                        ELSE IF w = Consumer THEN "idle" ELSE "done"]
        /\ job'    = [job EXCEPT ![Consumer] = NoJob]
        /\ answer' = [w \in Workers |-> IF w \notin busy THEN answer[w]
                                        ELSE IF w = Consumer THEN "none" ELSE "error"]
        /\ seen'   = [w \in Workers |-> Absent]
        /\ mine'   = [w \in Workers |-> FALSE]
        /\ next'   = [w \in Workers |-> 1]
        /\ last'   = [w \in Workers |-> 0]
        /\ UNCHANGED <<database, queue, out>>

---------------------------------------------------------------------------
Deliver(m) ==
    /\ queue' = Append(queue, m)
    /\ UNCHANGED <<database, out, pc, context, next, last, answer, subscribed, faults>>

Init ==
    /\ status   = [o \in Orders |-> Absent]
    /\ hasBuyer = [o \in Orders |-> FALSE]
    /\ origin   = [o \in Orders |-> NoRequest]
    /\ requests = {}
    /\ outbox   = <<>>
    /\ queue    = <<>>
    /\ out      = <<>>
    /\ pc       = [w \in Workers |-> "idle"]
    /\ job      = [w \in Workers |-> NoJob]
    /\ seen     = [w \in Workers |-> Absent]
    /\ mine     = [w \in Workers |-> FALSE]
    /\ next     = [w \in Workers |-> 1]
    /\ last     = [w \in Workers |-> 0]
    /\ answer   = [w \in Workers |-> "none"]
    /\ subscribed = Len(OrderingSubscriptions)
    /\ faults   = 0

\* One step of worker w on its job, up to the publication of its events.
Work(w) ==
    \/ DuplicateRequest(w) \/ NewRequest(w) \/ CreateRequest(w) \/ RejectRequest(w)
    \/ LoadOrder(w)
    \/ ChangeStatus(w) \/ OrderNotFound(w) \/ SwallowException(w) \/ RethrowException(w)
    \/ \E o \in Orders : CreateOrder(w, o) \/ CreateOrderWithoutBuyer(w, o)
    \/ CreateNoOrder(w)
    \/ MarkEventAsInProgress(w) \/ Publish(w) \/ MarkEventAsPublished(w)

Faulty(w) ==
    \/ RetryAfterTransientError(w) \/ CommitFails(w)
    \/ MarkEventAsFailed(w) \/ RetryAfterCommit(w) \/ AbandonPublishing(w)

OrderingNext ==
    \/ Subscribe
    \/ Receive
    \/ Discard
    \/ \E c \in Calls, r \in ApiRequests : CallApi(c, r)
    \/ \E w \in Workers : Work(w) \/ Stops(w)
    \/ Acknowledge
    \/ \E c \in Calls : Respond(c)
    \/ \E w \in Workers : Faulty(w)
    \/ Crash

Next == OrderingNext \/ \E m \in Inbound : Deliver(m)

Spec == Init /\ [][Next]_vars

---------------------------------------------------------------------------
(***************************************************************************)
(* What the service promises whatever the bus delivers and whenever calls, *)
(* crashes and failed commits fall between its steps.                      *)
(***************************************************************************)

\* Every variable has a value of its kind.
TypeOK ==
    /\ status   \in [Orders -> Statuses \cup {Absent}]
    /\ hasBuyer \in [Orders -> BOOLEAN]
    /\ origin   \in [Orders -> Requests \cup {NoRequest}]
    /\ requests \subseteq Requests
    /\ outbox   \in Seq(Entries)
    /\ queue    \in Seq(Inbound)
    /\ out      \in Seq(Published)
    /\ pc       \in [Workers -> Stages]
    /\ job      \in [Workers -> Jobs \cup {NoJob}]
    /\ seen     \in [Workers -> Statuses \cup {Absent}]
    /\ mine     \in [Workers -> BOOLEAN]
    /\ next     \in [Workers -> Nat]
    /\ last     \in [Workers -> Nat]
    /\ answer   \in [Workers -> Answers]
    /\ subscribed \in 0 .. Len(OrderingSubscriptions)
    /\ faults   \in 0 .. MaxFaults

Logged(type, about) ==
    \E i \in DOMAIN outbox : outbox[i].type = type /\ outbox[i].about = about

\* A checkout creates at most one order, however often its message is delivered
\* or its command retried, and never one whose request id is not recorded.
OneOrderPerCheckout ==
    /\ \A o \in Orders : status[o] # Absent => origin[o] \in requests
    /\ \A o, p \in Orders :
          (status[o] # Absent /\ status[p] # Absent /\ origin[o] = origin[p]) => o = p

\* The statuses only the consumer assigns.
ConsumerStages == {"AwaitingValidation", "StockConfirmed", "Paid"}

\* The events that make another service act (check stock, take money, take stock)
\* are logged at most once per order: duplicated messages, stale reads and
\* retried transactions never repeat them.
EachStageOnce ==
    \A i, j \in DOMAIN outbox :
        /\ outbox[i].type = outbox[j].type
        /\ outbox[i].about = outbox[j].about
        /\ outbox[i].type \in ConsumerStages \cup {"OrderStarted", "Submitted"}
        => i = j

\* The stage an order must have been in before it may enter another.
Before == [AwaitingValidation |-> "Submitted",
           StockConfirmed     |-> "AwaitingValidation",
           Paid               |-> "StockConfirmed",
           Shipped            |-> "Paid"]

\* No stage is skipped: an order is not paid before its stock was confirmed, nor
\* shipped before it was paid, whatever another transaction wrote meanwhile.
NoStageSkipped ==
    \A j \in DOMAIN outbox :
        outbox[j].type \in DOMAIN Before =>
            \E i \in 1 .. j - 1 : /\ outbox[i].type = Before[outbox[j].type]
                                 /\ outbox[i].about = outbox[j].about

\* A status is never committed without the event that tells of it.  Two cases are
\* exempt as in the code: a rejected stock cancels silently (so only from
\* AwaitingValidation), and an order without buyer cannot log events.
StatusHasItsEvent ==
    \A o \in Orders :
        (status[o] # Absent /\ hasBuyer[o]) =>
            \/ Logged(status[o], o)
            \/ status[o] = "Cancelled" /\ Logged("AwaitingValidation", o)

\* The bus and the log agree: what is marked Published was published, what was
\* never tried was not, and no entry goes out twice, not even when a transaction is
\* repeated after its COMMIT.
OutboxMatchesBus ==
    /\ \A m, n \in DOMAIN out : out[m].id = out[n].id => m = n
    /\ \A i \in DOMAIN outbox :
          /\ outbox[i].state = "Published" => \E m \in DOMAIN out : out[m].id = i
          /\ outbox[i].state = "NotPublished" => \A m \in DOMAIN out : out[m].id # i

---------------------------------------------------------------------------
(***************************************************************************)
(* The service implements OrderLifecycle as long as the consumer alone, or *)
(* the consumer and calls that ship, change orders whose buyer is          *)
(* recorded, and no COMMIT has to be repeated.                             *)
(***************************************************************************)

\* The statuses a log announces of order o, in the order of their commits.
History(log, o) ==
    LET upTo[n \in 0 .. Len(log)] ==
            IF n = 0 THEN <<>>
            ELSE IF log[n].about = o THEN Append(upTo[n - 1], log[n].type) ELSE upTo[n - 1]
    IN  upTo[Len(log)]

Lifecycle == INSTANCE OrderLifecycle
                 WITH state <- status, announced <- [o \in Orders |-> History(outbox, o)]

\* Duplicated and stale messages, crashes and unpublished events included, an
\* order goes through its stages one by one, each logged with its change.
ImplementsLifecycle == Lifecycle!Spec

---------------------------------------------------------------------------
(***************************************************************************)
(* What the code's own messages and comments say and the service does not  *)
(* keep: the runs of these properties end in a counterexample.             *)
(***************************************************************************)

\* A paid or shipped order is not cancelled any more (the message of
\* StatusChangeException): broken by a call that read the order earlier.
PaidIsNotCancelled ==
    [][\A o \in Orders : status[o] \in {"Paid", "Shipped"} => status'[o] # "Cancelled"]_vars

\* OrderStarted, which clears the basket, tells of something that has happened:
\* broken when the handler throws after it saved the event.
StartedOrdersExist ==
    \A r \in Requests : Logged("OrderStarted", r) =>
        \E o \in Orders : status[o] # Absent /\ origin[o] = r

\* The change of the order and the side effects of its domain events are one
\* transaction: broken when the transaction has to be repeated.
EventsCommitWithTheirStatus ==
    [][\A i \in DOMAIN outbox' \ DOMAIN outbox :
          outbox'[i].about \in Orders => status'[outbox'[i].about] = outbox'[i].type]_vars
=============================================================================
