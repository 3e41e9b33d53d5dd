--------------------------- MODULE OrderingProofs ---------------------------
(***************************************************************************)
(* Theorems about Ordering, for every set of orders, requests and calls    *)
(* and every number of faults.                                             *)
(***************************************************************************)
EXTENDS Ordering, TLAPS

---------------------------------------------------------------------------
(***************************************************************************)
(* The operators the actions are built from.                               *)
(***************************************************************************)

LEMMA AbsentIsNoStatus == Absent \notin Statuses
  BY DEF Absent, Statuses

\* Every method of the aggregate returns an outcome, whatever the status.
LEMMA ApplyType ==
  ASSUME NEW cmd \in StatusCommands, NEW s \in Statuses
  PROVE  Apply(cmd, s) \in Outcomes
<1> USE DEF Outcomes, Keeps, Moves, StatusChangeException, Statuses, NoEvent
<1>1. CASE cmd = "SetAwaitingValidation"
  BY <1>1 DEF Apply, SetAwaitingValidationStatus
<1>2. CASE cmd = "SetStockConfirmed"
  BY <1>2 DEF Apply, SetStockConfirmedStatus
<1>3. CASE cmd = "SetStockRejected"
  BY <1>3 DEF Apply, SetCancelledStatusWhenStockIsRejected
<1>4. CASE cmd = "SetPaid"
  BY <1>4 DEF Apply, SetPaidStatus
<1>5. CASE cmd = "ShipOrder"
  BY <1>5 DEF Apply, SetShippedStatus
<1>6. CASE cmd = "CancelOrder"
  BY <1>6 DEF Apply, SetCancelledStatus
<1> QED BY <1>1, <1>2, <1>3, <1>4, <1>5, <1>6 DEF StatusCommands

\* The facts about jobs that the code relies on without checking them: only an
\* identified command has a request id to look up, and a checkout is identified
\* by the id it carries.
JobsOK ==
    \A w \in Workers :
        /\ pc[w] \notin {"idle", "done"} => job[w] \in Jobs
        /\ pc[w] \in {"check", "insert"} => job[w].req \in Requests
        /\ pc[w] = "read" => job[w].cmd \in StatusCommands
        /\ job[w].cmd = "CreateOrder" => job[w].about = job[w].req
        /\ seen[w] # Absent => job[w].cmd \in StatusCommands
        /\ pc[w] \in {"idle", "done"} => seen[w] = Absent

WellFormed(j) ==
    /\ j \in Jobs
    /\ j.cmd = "CreateOrder" => j.about = j.req /\ j.req \in Requests

LEMMA CommandForType ==
  ASSUME NEW m \in Inbound
  PROVE  WellFormed(CommandFor(m))
<1>1. CASE m.type = "UserCheckoutAccepted"
  BY <1>1 DEF CommandFor, WellFormed, Jobs, Inbound, InboundTypes
<1>2. CASE m.type # "UserCheckoutAccepted"
  BY <1>2 DEF CommandFor, WellFormed, Jobs, Inbound, InboundTypes, StatusCommands
<1> QED BY <1>1, <1>2

LEMMA ApiRequestsType ==
  ASSUME NEW r \in ApiRequests
  PROVE  WellFormed(r)
BY OrderingAssumption DEF WellFormed, Jobs, HttpCommands, StatusCommands

\* A publisher never runs past the outbox, and while it sends or marks an entry it
\* has one.
PublishersOK ==
    \A w \in Workers :
        /\ next[w] >= 1
        /\ last[w] <= Len(outbox)
        /\ pc[w] \in {"send", "mark"} => next[w] <= last[w]

\* The message being handled stays at the head of the queue until it is acknowledged.
QueueOK == pc[Consumer] # "idle" => queue # <<>>

TypeInv == TypeOK /\ JobsOK /\ PublishersOK /\ QueueOK

---------------------------------------------------------------------------

LEMMA TypeInit == Init => TypeInv
<1> SUFFICES ASSUME Init PROVE TypeInv
  OBVIOUS
<1> USE OrderingAssumption DEF Init
<1>1. TypeOK
  BY DEF TypeOK, Workers, Stages, Answers, NoJob, Absent
<1>2. JobsOK
  BY DEF JobsOK, NoJob
<1>3. PublishersOK
  BY DEF PublishersOK
<1>4. QueueOK
  BY DEF QueueOK, Workers
<1> QED BY <1>1, <1>2, <1>3, <1>4 DEF TypeInv

LEMMA TypeStart ==
  ASSUME TypeInv, NEW w \in Workers, NEW j, WellFormed(j), Start(w, j),
         w = Consumer => queue # <<>>,
         UNCHANGED <<database, queue, out, seen, mine, next, last, answer, subscribed, faults>>
  PROVE  TypeInv'
<1> USE DEF TypeInv, Start, database
<1>1. TypeOK'
  BY DEF TypeOK, WellFormed, FirstStage, Stages
<1>2. JobsOK'
  <2>1. /\ j \in Jobs
        /\ FirstStage(j) = "check" => j.req \in Requests
        /\ FirstStage(j) = "read" => j.cmd \in StatusCommands
        /\ FirstStage(j) \in {"check", "read"}
        /\ j.cmd = "CreateOrder" => j.about = j.req
    BY OrderingAssumption DEF WellFormed, FirstStage, Jobs
  <2>2. job' = [job EXCEPT ![w] = j] /\ pc' = [pc EXCEPT ![w] = FirstStage(j)]
    OBVIOUS
  <2>3. pc \in [Workers -> Stages] /\ job \in [Workers -> Jobs \cup {NoJob}]
    BY DEF TypeOK
  <2> QED BY <2>1, <2>2, <2>3 DEF JobsOK
<1>3. PublishersOK'
  BY DEF PublishersOK, FirstStage, TypeOK
<1>4. QueueOK'
  BY DEF QueueOK, TypeOK
<1> QED BY <1>1, <1>2, <1>3, <1>4

\* The steps that only move a worker on and touch its context.
LEMMA TypeGoTo ==
  ASSUME TypeInv, NEW w \in Workers, NEW stage \in Stages \ {"idle", "send", "mark", "done"},
         GoTo(w, stage), pc[w] \notin {"idle", "done"},
         stage \in {"check", "insert"} => job[w].req \in Requests,
         stage = "read" => job[w].cmd \in StatusCommands,
         mine' \in [Workers -> BOOLEAN],
         seen' \in [Workers -> Statuses \cup {Absent}],
         \A v \in Workers : seen'[v] = seen[v] \/ (v = w /\ job[w].cmd \in StatusCommands),
         answer' \in [Workers -> Answers]
  PROVE  TypeInv'
<1> USE DEF TypeInv, GoTo, database
<1>1. TypeOK'
  BY DEF TypeOK
<1>2. JobsOK'
  BY DEF JobsOK, TypeOK
<1>3. PublishersOK'
  BY DEF PublishersOK, TypeOK
<1>4. QueueOK'
  BY DEF QueueOK, TypeOK
<1> QED BY <1>1, <1>2, <1>3, <1>4

\* COMMIT appends well-typed entries and hands exactly them to the publisher.
LEMMA TypeCommit ==
  ASSUME TypeInv, NEW w \in Workers, NEW value \in Answers, NEW events \in Seq(Entries),
         Save(w, value, events), pc[w] = "commit", faults' \in 0 .. MaxFaults,
         status' \in [Orders -> Statuses \cup {Absent}],
         hasBuyer' \in [Orders -> BOOLEAN],
         origin' \in [Orders -> Requests \cup {NoRequest}]
  PROVE  TypeInv'
<1> USE DEF TypeInv, Save, context
<1>1. job[w] \in Jobs
  BY DEF JobsOK
<1>2. job[w].req \in Requests \cup {NoRequest}
  BY <1>1 DEF Jobs
<1>3. outbox' \in Seq(Entries) /\ Len(outbox') = Len(outbox) + Len(events)
  BY DEF TypeOK
<1>4. Len(outbox) \in Nat /\ Len(events) \in Nat
  BY DEF TypeOK
<1>5. TypeOK'
  BY <1>2, <1>3, <1>4 DEF TypeOK, Stages
<1>6. JobsOK'
  BY DEF JobsOK, TypeOK
<1>7. PublishersOK'
  BY <1>3, <1>4 DEF PublishersOK, TypeOK
<1>8. QueueOK'
  BY DEF QueueOK, TypeOK
<1> QED BY <1>5, <1>6, <1>7, <1>8

\* The job of a worker that is not idle, by the aggregate it is about.
LEMMA JobFields ==
  ASSUME TypeInv, NEW w \in Workers, pc[w] \notin {"idle", "done"}
  PROVE  /\ job[w].req \in Requests \cup {NoRequest}
         /\ job[w].cmd \in StatusCommands \cup {"CreateOrder"}
         /\ job[w].cmd \in StatusCommands => job[w].about \in Orders
         /\ job[w].cmd = "CreateOrder" =>
              job[w].about \in Requests /\ job[w].req = job[w].about
<1>1. job[w] \in Jobs
  BY DEF TypeInv, JobsOK
<1> QED BY <1>1 DEF Jobs, StatusCommands, TypeInv, JobsOK

\* What the handler computes from the instance it loaded.
LEMMA OutcomeType ==
  ASSUME TypeInv, NEW w \in Workers, pc[w] \notin {"idle", "done"},
         job[w].cmd \in StatusCommands, seen[w] # Absent
  PROVE  /\ Outcome(w) \in Outcomes
         /\ Outcome(w).status \in Statuses
         /\ Outcome(w).event \in Statuses \cup {NoEvent}
         /\ job[w].about \in Orders
<1>1. job[w].cmd \in StatusCommands /\ job[w].about \in Orders
  BY JobFields
<1>2. seen[w] \in Statuses
  BY DEF TypeInv, TypeOK
<1>3. Outcome(w) \in Outcomes
  BY <1>1, <1>2, ApplyType DEF Outcome
<1> QED BY <1>1, <1>3 DEF Outcomes

LEMMA EntryType ==
  ASSUME NEW type \in EventTypes, NEW about \in Orders \cup Requests
  PROVE  Entry(type, about) \in Entries
BY DEF Entry, Entries, EntryStates

LEMMA TypePublish ==
  ASSUME TypeInv, NEW w \in Workers,
         MarkEventAsInProgress(w) \/ Publish(w) \/ MarkEventAsPublished(w)
           \/ MarkEventAsFailed(w)
  PROVE  TypeInv'
<1> USE DEF TypeInv
<1>1. next[w] \in Nat /\ last[w] \in Nat /\ next[w] >= 1 /\ last[w] <= Len(outbox)
  BY DEF PublishersOK, TypeOK
<1>2. next[w] <= last[w]
  BY DEF PublishersOK, MarkEventAsInProgress, Publish, MarkEventAsPublished,
         MarkEventAsFailed, AtEntry
<1>3. next[w] \in DOMAIN outbox /\ outbox[next[w]] \in Entries /\ Len(outbox) \in Nat
  BY <1>1, <1>2 DEF TypeOK
<1>4. ASSUME NEW s \in EntryStates, SetState(next[w], s)
      PROVE  outbox' \in Seq(Entries) /\ Len(outbox') = Len(outbox)
  <2>1. [outbox[next[w]] EXCEPT !.state = s] \in Entries
    BY <1>3 DEF Entries
  <2>2. outbox' = [outbox EXCEPT ![next[w]] = [outbox[next[w]] EXCEPT !.state = s]]
    BY <1>4 DEF SetState
  <2> QED BY <1>3, <2>1, <2>2 DEF TypeOK
<1>5. CASE MarkEventAsInProgress(w)
  <2>1. outbox' \in Seq(Entries) /\ Len(outbox') = Len(outbox)
    BY <1>4, <1>5 DEF MarkEventAsInProgress, EntryStates
  <2>2. TypeOK'
    BY <1>5, <2>1 DEF MarkEventAsInProgress, TypeOK, context, Stages
  <2>3. JobsOK'
    BY <1>5 DEF MarkEventAsInProgress, JobsOK, TypeOK, context
  <2>4. PublishersOK'
    BY <1>2, <1>5, <2>1 DEF MarkEventAsInProgress, PublishersOK, TypeOK
  <2>5. QueueOK'
    BY <1>5 DEF MarkEventAsInProgress, QueueOK, TypeOK
  <2> QED BY <2>2, <2>3, <2>4, <2>5
<1>6. CASE Publish(w)
  <2>1. out' \in Seq(Published)
    BY <1>1, <1>3, <1>6 DEF Publish, TypeOK, Published, Entries
  <2>2. TypeOK'
    BY <1>6, <2>1 DEF Publish, TypeOK, context, database, Stages
  <2>3. JobsOK'
    BY <1>6 DEF Publish, JobsOK, TypeOK, context
  <2>4. PublishersOK'
    BY <1>2, <1>6 DEF Publish, PublishersOK, TypeOK, database
  <2>5. QueueOK'
    BY <1>6 DEF Publish, QueueOK, TypeOK
  <2> QED BY <2>2, <2>3, <2>4, <2>5
<1>7. ASSUME NEW s \in EntryStates, Settle(w, s), pc[w] \in {"publish", "send", "mark"},
             faults' \in 0 .. MaxFaults
      PROVE  TypeInv'
  <2>1. outbox' \in Seq(Entries) /\ Len(outbox') = Len(outbox)
    BY <1>4, <1>7 DEF Settle
  <2>2. next' \in [Workers -> Nat] /\ pc' \in [Workers -> Stages]
    BY <1>1, <1>7 DEF Settle, TypeOK, Stages
  <2>5. TypeOK'
    BY <1>7, <2>1, <2>2 DEF Settle, TypeOK, context
  <2>3. JobsOK'
    BY <1>7 DEF Settle, JobsOK, TypeOK, context
  <2>4. PublishersOK'
    BY <1>1, <1>7, <2>1 DEF Settle, PublishersOK, TypeOK
  <2>6. QueueOK'
    BY <1>7 DEF Settle, QueueOK, TypeOK
  <2> QED BY <2>5, <2>3, <2>4, <2>6
<1>8. CASE MarkEventAsPublished(w)
  BY <1>7, <1>8 DEF MarkEventAsPublished, EntryStates, TypeOK
<1>9. CASE MarkEventAsFailed(w)
  <2>1. faults' \in 0 .. MaxFaults
    BY <1>9, OrderingAssumption DEF MarkEventAsFailed, Fault, TypeOK
  <2> QED BY <1>7, <1>9, <2>1 DEF MarkEventAsFailed, AtEntry, EntryStates
<1> QED BY <1>5, <1>6, <1>8, <1>9

LEMMA TypeEndScope ==
  ASSUME TypeInv, NEW w \in Workers, NEW stage \in {"idle", "done"}, EndScope(w, stage),
         UNCHANGED <<database, out, subscribed, faults>>,
         queue' \in Seq(Inbound),
         IF w = Consumer THEN stage = "idle" ELSE queue' = queue,
         job' \in [Workers -> Jobs \cup {NoJob}],
         \A v \in Workers : job'[v] = job[v] \/ job'[v] = NoJob,
         \A v \in Workers \ {w} : job'[v] = job[v],
         answer' \in [Workers -> Answers]
  PROVE  TypeInv'
<1> USE DEF TypeInv, EndScope, database
<1>1. TypeOK'
  BY DEF TypeOK, Stages
<1>2. JobsOK'
  BY DEF JobsOK, TypeOK, NoJob
<1>3. PublishersOK'
  BY DEF PublishersOK, TypeOK
<1>4. QueueOK'
  BY DEF QueueOK, TypeOK
<1> QED BY <1>1, <1>2, <1>3, <1>4

LEMMA EventsOfType ==
  ASSUME TypeInv, NEW w \in Workers, AtCommit(w, StatusCommands), seen[w] # Absent
  PROVE  EventsOf(w) \in Seq(Entries)
<1>1. Outcome(w).event # NoEvent => Entry(Outcome(w).event, job[w].about) \in Entries
  BY OutcomeType, EntryType DEF AtCommit, EventTypes
<1> QED BY <1>1 DEF EventsOf

LEMMA TypeWriteStatus ==
  ASSUME TypeInv, NEW w \in Workers, AtCommit(w, StatusCommands), seen[w] # Absent,
         WriteStatus(w)
  PROVE  /\ status' \in [Orders -> Statuses \cup {Absent}]
         /\ hasBuyer' \in [Orders -> BOOLEAN]
         /\ origin' \in [Orders -> Requests \cup {NoRequest}]
<1>1. Outcome(w).status \in Statuses /\ job[w].about \in Orders
  BY OutcomeType DEF AtCommit
<1> QED BY <1>1 DEF WriteStatus, TypeInv, TypeOK

LEMMA TypeInsertOrder ==
  ASSUME TypeInv, NEW w \in Workers, NEW o \in Orders, NEW buyer \in BOOLEAN,
         AtCommit(w, {"CreateOrder"}), InsertOrder(o, job[w].about, buyer)
  PROVE  /\ status' \in [Orders -> Statuses \cup {Absent}]
         /\ hasBuyer' \in [Orders -> BOOLEAN]
         /\ origin' \in [Orders -> Requests \cup {NoRequest}]
         /\ job[w].about \in Requests
         /\ Entry("OrderStarted", job[w].about) \in Entries
         /\ Entry("Submitted", o) \in Entries
<1>1. job[w].about \in Requests
  BY JobFields DEF AtCommit
<1> QED BY <1>1, EntryType DEF InsertOrder, Statuses, EventTypes, TypeInv, TypeOK

\* A worker's steps up to the publication of its events.
LEMMA TypeWork ==
  ASSUME TypeInv, NEW w \in Workers, Work(w)
  PROVE  TypeInv'
<1>0. /\ mine \in [Workers -> BOOLEAN]
      /\ seen \in [Workers -> Statuses \cup {Absent}]
      /\ answer \in [Workers -> Answers]
      /\ status \in [Orders -> Statuses \cup {Absent}]
      /\ hasBuyer \in [Orders -> BOOLEAN]
      /\ origin \in [Orders -> Requests \cup {NoRequest}]
      /\ faults \in 0 .. MaxFaults
  BY DEF TypeInv, TypeOK
<1>1. CASE DuplicateRequest(w)
  BY <1>0, <1>1, TypeGoTo DEF DuplicateRequest, Stages, Answers
<1>2. CASE NewRequest(w)
  <2>1. job[w].req \in Requests
    BY <1>2 DEF NewRequest, TypeInv, JobsOK
  <2> QED BY <1>0, <1>2, <2>1, TypeGoTo DEF NewRequest, Stages
<1>3. CASE CreateRequest(w)
  <2>1. job[w].cmd # "CreateOrder" => job[w].cmd \in StatusCommands
    BY <1>3, JobFields DEF CreateRequest
  <2>2. mine' \in [Workers -> BOOLEAN]
    BY <1>0, <1>3 DEF CreateRequest
  <2>3. CASE job[w].cmd = "CreateOrder"
    BY <1>0, <1>3, <2>2, <2>3, TypeGoTo DEF CreateRequest, Stages
  <2>4. CASE job[w].cmd # "CreateOrder"
    BY <1>0, <1>3, <2>1, <2>2, <2>4, TypeGoTo DEF CreateRequest, Stages
  <2> QED BY <2>3, <2>4
<1>4. CASE RejectRequest(w)
  BY <1>0, <1>4, TypeGoTo DEF RejectRequest, Stages, Answers
<1>5. CASE LoadOrder(w)
  <2>1. job[w].about \in Orders /\ job[w].cmd \in StatusCommands
    BY <1>5, JobFields DEF LoadOrder, TypeInv, JobsOK
  <2>2. seen' \in [Workers -> Statuses \cup {Absent}]
    BY <1>0, <1>5, <2>1 DEF LoadOrder
  <2>3. \A v \in Workers \ {w} : seen'[v] = seen[v]
    BY <1>0, <1>5 DEF LoadOrder
  <2> QED BY <1>0, <1>5, <2>1, <2>2, <2>3, TypeGoTo DEF LoadOrder, Stages
<1>7. CASE ChangeStatus(w)
  <2>1. EventsOf(w) \in Seq(Entries)
    BY <1>7, EventsOfType DEF ChangeStatus, AtCommit
  <2> QED BY <1>0, <1>7, <2>1, TypeWriteStatus, TypeCommit
          DEF ChangeStatus, AtCommit, Answers, Commit
<1>8. CASE OrderNotFound(w)
  <2>1. <<>> \in Seq(Entries)
    OBVIOUS
  <2> QED BY <1>0, <1>8, <2>1, TypeCommit DEF OrderNotFound, AtCommit, Answers, Commit
<1>9. CASE SwallowException(w)
  <2>1. <<>> \in Seq(Entries)
    OBVIOUS
  <2> QED BY <1>0, <1>9, <2>1, TypeWriteStatus, TypeCommit
          DEF SwallowException, AtCommit, Answers, Commit
<1>10. CASE RethrowException(w)
  BY <1>0, <1>10, TypeGoTo DEF RethrowException, AtCommit, Stages, Answers
<1>12. ASSUME NEW o \in Orders, CreateOrder(w, o)
       PROVE  TypeInv'
  <2>0. InsertOrder(o, job[w].about, TRUE) /\ AtCommit(w, {"CreateOrder"})
    BY <1>12 DEF CreateOrder
  <2>1. <<Entry("OrderStarted", job[w].about), Entry("Submitted", o)>> \in Seq(Entries)
    <3>1. Entry("OrderStarted", job[w].about) \in Entries /\ Entry("Submitted", o) \in Entries
      BY <2>0, TypeInsertOrder
    <3> QED BY <3>1
  <2> QED BY <1>0, <1>12, <2>0, <2>1, TypeInsertOrder, TypeCommit
          DEF CreateOrder, AtCommit, Answers, Commit
<1>13. ASSUME NEW o \in Orders, CreateOrderWithoutBuyer(w, o)
       PROVE  TypeInv'
  <2>0. InsertOrder(o, job[w].about, FALSE) /\ AtCommit(w, {"CreateOrder"})
    BY <1>13 DEF CreateOrderWithoutBuyer
  <2>1. <<Entry("OrderStarted", job[w].about)>> \in Seq(Entries)
    <3>1. Entry("OrderStarted", job[w].about) \in Entries
      BY <2>0, TypeInsertOrder
    <3> QED BY <3>1
  <2> QED BY <1>0, <1>13, <2>0, <2>1, TypeInsertOrder, TypeCommit
          DEF CreateOrderWithoutBuyer, AtCommit, Answers, Commit
<1>14. CASE CreateNoOrder(w)
  <2>1. job[w].about \in Requests
    BY <1>14, JobFields DEF CreateNoOrder, AtCommit
  <2>2. <<Entry("OrderStarted", job[w].about)>> \in Seq(Entries)
    BY <2>1, EntryType DEF EventTypes
  <2> DEFINE events == IF CheckoutKind[job[w].about] = "invalid" THEN <<>>
                       ELSE <<Entry("OrderStarted", job[w].about)>>
  <2>3. events \in Seq(Entries)
    BY <2>2
  <2> HIDE DEF events
  <2> QED BY <1>0, <1>14, <2>3, TypeCommit DEF CreateNoOrder, AtCommit, Answers, Commit, events
<1> QED BY <1>1, <1>2, <1>3, <1>4, <1>5, <1>7, <1>8, <1>9, <1>10, <1>12, <1>13, <1>14,
           TypePublish DEF Work

LEMMA TypeStops ==
  ASSUME TypeInv, NEW w \in Workers, Stops(w)
  PROVE  TypeInv'
<1>0. /\ status \in [Orders -> Statuses \cup {Absent}]
      /\ hasBuyer \in [Orders -> BOOLEAN]
      /\ origin \in [Orders -> Requests \cup {NoRequest}]
      /\ <<>> \in Seq(Entries)
  BY DEF TypeInv, TypeOK
<1>1. faults' \in 0 .. MaxFaults
  <2>1. Fault("statement")
    <3>1. CASE ChangeStops(w)
      BY <3>1 DEF ChangeStops
    <3>2. ASSUME NEW o \in Orders, CreationStops(w, o) PROVE Fault("statement")
      BY <3>2 DEF CreationStops
    <3> QED BY <3>1, <3>2 DEF Stops
  <2> QED BY <2>1, OrderingAssumption DEF Fault, TypeInv, TypeOK
<1>2. CASE ChangeStops(w)
  <2>1. pc[w] = "commit" /\ AtCommit(w, StatusCommands)
    BY <1>2 DEF ChangeStops, AtCommit
  <2>2. CASE UNCHANGED <<status, hasBuyer, origin>> /\ Save(w, "false", <<>>)
    BY <1>0, <1>1, <2>1, <2>2, TypeCommit DEF Answers
  <2>3. CASE /\ seen[w] # Absent /\ WriteStatus(w)
             /\ Save(w, "false", <<>>) \/ Save(w, "false", EventsOf(w))
    BY <1>0, <1>1, <2>1, <2>3, EventsOfType, TypeWriteStatus, TypeCommit DEF Answers
  <2> QED BY <1>2, <2>2, <2>3 DEF ChangeStops
<1>3. ASSUME NEW o \in Orders, CreationStops(w, o)
      PROVE  TypeInv'
  <2>1. pc[w] = "commit" /\ AtCommit(w, {"CreateOrder"})
    BY <1>3 DEF CreationStops, AtCommit
  <2>2. <<Entry("OrderStarted", job[w].about)>> \in Seq(Entries)
    BY <2>1, JobFields, EntryType DEF AtCommit, EventTypes
  <2> DEFINE started == <<Entry("OrderStarted", job[w].about)>>
  <2>3. started \in Seq(Entries)
    BY <2>2
  <2>4. \/ /\ UNCHANGED <<status, hasBuyer, origin>>
           /\ Save(w, "false", <<>>) \/ Save(w, "false", started)
        \/ /\ InsertOrder(o, job[w].about, FALSE) \/ InsertOrder(o, job[w].about, TRUE)
           /\ Save(w, "false", started)
    BY <1>3 DEF CreationStops
  <2> HIDE DEF started
  <2>5. CASE /\ UNCHANGED <<status, hasBuyer, origin>>
             /\ Save(w, "false", <<>>) \/ Save(w, "false", started)
    BY <1>0, <1>1, <2>1, <2>3, <2>5, TypeCommit DEF Answers
  <2>6. CASE /\ InsertOrder(o, job[w].about, FALSE) \/ InsertOrder(o, job[w].about, TRUE)
             /\ Save(w, "false", started)
    BY <1>1, <2>1, <2>3, <2>6, TypeInsertOrder, TypeCommit DEF Answers
  <2> QED BY <2>4, <2>5, <2>6
<1> QED BY <1>2, <1>3 DEF Stops

LEMMA TypeFaults ==
  ASSUME TypeInv, Crash \/ \E w \in Workers : Faulty(w)
  PROVE  TypeInv'
<1>1. ASSUME NEW kind, Fault(kind)
      PROVE  faults' \in 0 .. MaxFaults
  BY <1>1, OrderingAssumption DEF Fault, TypeInv, TypeOK
<1>2. ASSUME NEW w \in Workers, RunAgain(w), faults' \in 0 .. MaxFaults,
             pc[w] \notin {"idle", "done"}
      PROVE  TypeInv'
  <2> USE <1>2 DEF RunAgain
  <2>2. /\ job[w].req \in Requests \cup {NoRequest}
        /\ job[w].cmd \in StatusCommands \cup {"CreateOrder"}
        /\ job[w].cmd = "CreateOrder" => job[w].req \in Requests
    BY JobFields
  <2>3. /\ FirstStage(job[w]) = "check" => job[w].req \in Requests
        /\ FirstStage(job[w]) = "read" => job[w].cmd \in StatusCommands
        /\ FirstStage(job[w]) \in {"check", "read"}
    BY <2>2, OrderingAssumption DEF FirstStage
  <2>4. seen[w] # Absent /\ job[w].cmd \in StatusCommands => Outcome(w).status \in Statuses
    BY OutcomeType
  <2>5. TypeOK'
    <3>1. pc' \in [Workers -> Stages]
      BY <2>3 DEF TypeInv, TypeOK, Stages
    <3>2. seen' \in [Workers -> Statuses \cup {Absent}]
      <4>1. CASE seen[w] = Absent
        BY <4>1 DEF TypeInv, TypeOK
      <4>2. CASE seen[w] # Absent /\ job[w].cmd \in StatusCommands
        BY <4>2, <2>4 DEF TypeInv, TypeOK
      <4>3. CASE job[w].cmd = "CreateOrder"
        BY <4>1, <4>3 DEF TypeInv, JobsOK, StatusCommands
      <4> QED BY <2>2, <4>1, <4>2, <4>3
    <3> QED BY <3>1, <3>2 DEF TypeInv, TypeOK, database
  <2>6. JobsOK'
    BY <2>3 DEF TypeInv, JobsOK, TypeOK
  <2>7. PublishersOK'
    BY <2>3 DEF TypeInv, PublishersOK, TypeOK, database
  <2>8. QueueOK'
    BY <2>3 DEF TypeInv, QueueOK, TypeOK
  <2> QED BY <2>5, <2>6, <2>7, <2>8 DEF TypeInv
<1>3. ASSUME NEW w \in Workers, GiveUp(w), faults' \in 0 .. MaxFaults,
             pc[w] \notin {"idle", "done"}
      PROVE  TypeInv'
  <2> USE <1>3 DEF GiveUp, TypeInv
  <2>2. TypeOK'
    BY DEF TypeOK, database, context, Stages, Answers
  <2>3. JobsOK'
    BY DEF JobsOK, TypeOK, context
  <2>4. PublishersOK'
    BY DEF PublishersOK, TypeOK, database
  <2>5. QueueOK'
    BY DEF QueueOK, TypeOK
  <2> QED BY <2>2, <2>3, <2>4, <2>5
<1>4. CASE Crash
  <2> USE <1>4 DEF Crash, TypeInv
  <2>1. faults' \in 0 .. MaxFaults
    BY <1>1
  <2>2. TypeOK'
    <3>1. subscribed' \in 0 .. Len(OrderingSubscriptions)
      BY DEF OrderingSubscriptions
    <3> QED BY <2>1, <3>1 DEF TypeOK, database, Stages, Answers
  <2>3. JobsOK'
    BY DEF JobsOK, TypeOK, NoJob
  <2>4. PublishersOK'
    BY DEF PublishersOK, TypeOK, database
  <2>5. QueueOK'
    BY DEF QueueOK, TypeOK, Workers
  <2> QED BY <2>2, <2>3, <2>4, <2>5
<1>5. ASSUME NEW w \in Workers, Faulty(w), ~MarkEventAsFailed(w)
      PROVE  TypeInv'
  <2>1. faults' \in 0 .. MaxFaults
    BY <1>1, <1>5 DEF Faulty, RetryAfterTransientError, CommitFails, RetryAfterCommit,
                      AbandonPublishing
  <2>2. pc[w] \notin {"idle", "done"} /\ (RunAgain(w) \/ GiveUp(w))
    BY <1>5 DEF Faulty, RetryAfterTransientError, CommitFails, RetryAfterCommit,
                AbandonPublishing, AtEntry
  <2> QED BY <1>2, <1>3, <2>1, <2>2
<1> QED BY <1>4, <1>5, TypePublish

LEMMA TypeDeliver ==
  ASSUME TypeInv, NEW m \in Inbound, Deliver(m)
  PROVE  TypeInv'
<1> USE DEF TypeInv, Deliver, database, context
<1>1. TypeOK'
  BY DEF TypeOK
<1>2. JobsOK'
  BY DEF JobsOK
<1>3. PublishersOK'
  BY DEF PublishersOK
<1>4. QueueOK'
  <2>1. queue \in Seq(Inbound)
    BY DEF TypeOK
  <2>2. Len(Append(queue, m)) = Len(queue) + 1 /\ Len(queue) \in Nat
    BY <2>1
  <2>3. Append(queue, m) # <<>>
    BY <2>2
  <2> QED BY <2>3 DEF QueueOK
<1> QED BY <1>1, <1>2, <1>3, <1>4

\* ConfigureEventBus subscribes, and what came too early is dropped.
LEMMA TypeStartup ==
  ASSUME TypeInv, Subscribe \/ Discard
  PROVE  TypeInv'
<1> USE DEF TypeInv, Subscribe, Discard, database, context
<1>1. queue' \in Seq(Inbound) /\ subscribed' \in 0 .. Len(OrderingSubscriptions)
  <2>1. Len(OrderingSubscriptions) \in Nat
    BY DEF OrderingSubscriptions
  <2>2. queue \in Seq(Inbound) /\ subscribed \in 0 .. Len(OrderingSubscriptions)
    BY DEF TypeOK
  <2>3. CASE Subscribe
    BY <2>1, <2>2, <2>3
  <2>4. CASE Discard
    BY <2>2, <2>4
  <2> QED BY <2>3, <2>4
<1>2. TypeOK'
  BY <1>1 DEF TypeOK
<1>3. JobsOK'
  BY DEF JobsOK
<1>4. PublishersOK'
  BY DEF PublishersOK
<1>5. QueueOK'
  BY DEF QueueOK
<1> QED BY <1>2, <1>3, <1>4, <1>5

LEMMA TypeNext == TypeInv /\ [Next]_vars => TypeInv'
<1> SUFFICES ASSUME TypeInv, [Next]_vars PROVE TypeInv'
  OBVIOUS
<1>1. CASE Receive
  <2>1. WellFormed(CommandFor(Head(queue)))
    BY <1>1, CommandForType DEF Receive, TypeInv, TypeOK
  <2> QED BY <1>1, <2>1, TypeStart DEF Receive, Workers
<1>2. ASSUME NEW c \in Calls, NEW r \in ApiRequests, CallApi(c, r)
      PROVE  TypeInv'
  BY <1>2, ApiRequestsType, TypeStart, OrderingAssumption DEF CallApi, Workers
<1>3. ASSUME NEW w \in Workers, Work(w)
      PROVE  TypeInv'
  BY <1>3, TypeWork
<1>4. CASE Acknowledge
  <2> USE DEF TypeInv, TypeOK
  <2>1. queue # <<>>
    BY <1>4 DEF Acknowledge, Finished, QueueOK
  <2>2. queue' \in Seq(Inbound)
    BY <1>4, <2>1 DEF Acknowledge
  <2>3. Consumer \in Workers
    BY DEF Workers
  <2>4. /\ job' \in [Workers -> Jobs \cup {NoJob}]
        /\ answer' \in [Workers -> Answers]
        /\ \A v \in Workers : job'[v] = job[v] \/ job'[v] = NoJob
        /\ \A v \in Workers \ {Consumer} : job'[v] = job[v]
    BY <1>4, <2>3 DEF Acknowledge, Answers
  <2> QED BY <1>4, <2>2, <2>3, <2>4, TypeEndScope DEF Acknowledge
<1>5. ASSUME NEW c \in Calls, Respond(c)
      PROVE  TypeInv'
  <2>1. c \in Workers /\ c # Consumer
    BY OrderingAssumption DEF Workers
  <2>2. /\ queue \in Seq(Inbound)
        /\ job \in [Workers -> Jobs \cup {NoJob}]
        /\ answer \in [Workers -> Answers]
    BY DEF TypeInv, TypeOK
  <2> QED BY <1>5, <2>1, <2>2, TypeEndScope DEF Respond
<1>6. CASE (\E w \in Workers : Stops(w) \/ Faulty(w)) \/ Crash
  BY <1>6, TypeStops, TypeFaults
<1>7. ASSUME NEW m \in Inbound, Deliver(m)
      PROVE  TypeInv'
  BY <1>7, TypeDeliver
<1>8. CASE UNCHANGED vars
  BY <1>8 DEF vars, TypeInv, TypeOK, JobsOK, PublishersOK, QueueOK
<1> QED BY <1>1, <1>2, <1>3, <1>4, <1>5, <1>6, <1>7, <1>8, TypeStartup DEF Next, OrderingNext

\* Every variable keeps its type, for every number of orders, requests and calls.
THEOREM TypeCorrect == Spec => []TypeOK
<1>1. TypeInv => TypeOK
  BY DEF TypeInv
<1> QED BY TypeInit, TypeNext, <1>1, PTL DEF Spec

---------------------------------------------------------------------------
(***************************************************************************)
(* One order per checkout.  The invariant OneOrderPerCheckout is not       *)
(* inductive: that a transaction about to insert an order still finds its  *)
(* request id unrecorded follows from the key it holds since its insert,   *)
(* which excludes every other transaction with the same id.                *)
(***************************************************************************)

Holds(w) == pc[w] \in {"read", "commit"} /\ job[w].req \in Requests

KeyInv ==
    /\ \A w \in Workers : Holds(w) => job[w].req \notin requests
    /\ \A v, w \in Workers : Holds(v) /\ Holds(w) /\ job[v].req = job[w].req => v = w

\* A step after which every key was already held before keeps the keys apart.
LEMMA KeysKept ==
  ASSUME KeyInv, requests' = requests,
         \A w \in Workers : Holds(w)' => Holds(w) /\ job'[w].req = job[w].req
  PROVE  KeyInv'
BY DEF KeyInv

LEMMA KeyInit == Init => KeyInv /\ OneOrderPerCheckout
BY DEF Init, KeyInv, Holds, OneOrderPerCheckout

LEMMA OrdersKept ==
  ASSUME OneOrderPerCheckout, TypeInv, requests \subseteq requests', origin' = origin,
         \A o \in Orders : status[o] = Absent => status'[o] = Absent
  PROVE  OneOrderPerCheckout'
BY DEF OneOrderPerCheckout

\* At its COMMIT a transaction with a request id is the only one that holds it,
\* and no order was made for that id.
LEMMA KeyCommit ==
  ASSUME TypeInv, KeyInv, NEW w \in Workers, NEW value, NEW events,
         pc[w] = "commit", Save(w, value, events)
  PROVE  KeyInv'
<1>1. \A v \in Workers : Holds(v)' => v # w /\ Holds(v) /\ job'[v] = job[v]
  BY DEF Save, context, Holds, TypeInv, TypeOK
<1>2. requests' = requests \cup ({job[w].req} \ {NoRequest})
  BY DEF Save
<1>3. \A v \in Workers \ {w} : Holds(v) => job[v].req # job[w].req
  BY DEF KeyInv, Holds
<1>4. ASSUME NEW v \in Workers, Holds(v)'
      PROVE  job'[v].req \notin requests'
  BY <1>1, <1>2, <1>3, <1>4 DEF KeyInv
<1>5. ASSUME NEW u \in Workers, NEW v \in Workers, Holds(u)', Holds(v)',
             job'[u].req = job'[v].req
      PROVE  u = v
  BY <1>1, <1>5 DEF KeyInv
<1> QED BY <1>4, <1>5 DEF KeyInv

LEMMA OneOrderInsert ==
  ASSUME TypeInv, KeyInv, OneOrderPerCheckout,
         NEW w \in Workers, NEW o \in Orders, NEW buyer, NEW value, NEW events,
         AtCommit(w, {"CreateOrder"}),
         InsertOrder(o, job[w].about, buyer), Save(w, value, events)
  PROVE  OneOrderPerCheckout'
<1> DEFINE r == job[w].about
<1>1. r \in Requests /\ job[w].req = r
  BY JobFields DEF AtCommit
<1>2. r \notin requests
  BY <1>1 DEF KeyInv, Holds, AtCommit
<1>3. requests' = requests \cup {r}
  BY <1>1, OrderingAssumption DEF Save
<1>4. status' = [status EXCEPT ![o] = "Submitted"] /\ origin' = [origin EXCEPT ![o] = r]
  BY DEF InsertOrder
<1>5. \A p \in Orders \ {o} : status'[p] = status[p] /\ origin'[p] = origin[p]
  BY <1>4 DEF TypeInv, TypeOK
<1>6. origin'[o] = r
  BY <1>4 DEF TypeInv, TypeOK
<1> QED BY <1>2, <1>3, <1>5, <1>6 DEF OneOrderPerCheckout

\* A DbContext only tracks orders whose row exists.
SeenOK ==
    \A w \in Workers :
        seen[w] # Absent => job[w].about \in Orders /\ status[job[w].about] # Absent

\* No step removes a row, and a context is only filled from an existing one.
LEMMA SeenKept ==
  ASSUME SeenOK,
         \A o \in Orders : status[o] # Absent => status'[o] # Absent,
         \A w \in Workers : seen'[w] # Absent => seen[w] # Absent /\ job'[w] = job[w]
  PROVE  SeenOK'
BY DEF SeenOK

\* Saving a changed order gives an existing row another status.
LEMMA WriteStatusKeepsRows ==
  ASSUME TypeInv, SeenOK, NEW w \in Workers,
         AtCommit(w, StatusCommands), seen[w] # Absent, WriteStatus(w)
  PROVE  /\ origin' = origin
         /\ \A o \in Orders : status[o] # Absent => status'[o] # Absent
         /\ \A o \in Orders : status[o] = Absent => status'[o] = Absent
<1>1. Outcome(w).status # Absent
  BY OutcomeType, AbsentIsNoStatus DEF AtCommit
<1>2. status[job[w].about] # Absent
  BY DEF SeenOK
<1>3. job[w].about \in Orders
  BY OutcomeType DEF AtCommit
<1> QED BY <1>1, <1>2, <1>3 DEF WriteStatus, TypeInv, TypeOK

\* Inserting an order and ending a scope keep the contexts honest.
LEMMA SeenWork ==
  ASSUME TypeInv, SeenOK, NEW w \in Workers, Work(w)
  PROVE  SeenOK'
<1>1. CASE \/ DuplicateRequest(w) \/ NewRequest(w) \/ CreateRequest(w) \/ RejectRequest(w)
           \/ RethrowException(w) \/ OrderNotFound(w) \/ CreateNoOrder(w)
           \/ MarkEventAsInProgress(w) \/ Publish(w) \/ MarkEventAsPublished(w)
  <2>1. status' = status /\ seen' = seen /\ job' = job
    BY <1>1 DEF DuplicateRequest, NewRequest, CreateRequest, RejectRequest, RethrowException,
                OrderNotFound, CreateNoOrder, MarkEventAsInProgress, Publish,
                MarkEventAsPublished, GoTo, Commit, Save, Settle, database, context
  <2> QED BY <2>1, SeenKept
<1>2. CASE LoadOrder(w)
  <2>1. status' = status /\ job' = job /\ job[w].about \in Orders
    BY <1>2, JobFields DEF LoadOrder, GoTo, database, TypeInv, JobsOK
  <2>2. /\ \A v \in Workers \ {w} : seen'[v] = seen[v]
        /\ seen'[w] = IF seen[w] = Absent THEN status[job[w].about] ELSE seen[w]
    BY <1>2 DEF LoadOrder, TypeInv, TypeOK
  <2> QED BY <2>1, <2>2 DEF SeenOK
<1>3. CASE ChangeStatus(w) \/ SwallowException(w)
  <2>1. /\ AtCommit(w, StatusCommands) /\ seen[w] # Absent /\ WriteStatus(w)
        /\ seen' = seen /\ job' = job
    BY <1>3 DEF ChangeStatus, SwallowException, Commit, Save, context
  <2> QED BY <2>1, WriteStatusKeepsRows, SeenKept
<1>4. ASSUME NEW o \in Orders, CreateOrder(w, o) \/ CreateOrderWithoutBuyer(w, o)
      PROVE  SeenOK'
  <2>1. status' = [status EXCEPT ![o] = "Submitted"] /\ seen' = seen /\ job' = job
    BY <1>4 DEF CreateOrder, CreateOrderWithoutBuyer, InsertOrder, Commit, Save, context
  <2>2. \A p \in Orders : status[p] # Absent => status'[p] # Absent
    BY <2>1 DEF TypeInv, TypeOK, Absent
  <2> QED BY <2>1, <2>2, SeenKept
<1> QED BY <1>1, <1>2, <1>3, <1>4 DEF Work

LEMMA KeyWork ==
  ASSUME TypeInv, KeyInv, SeenOK, OneOrderPerCheckout, NEW w \in Workers, Work(w)
  PROVE  KeyInv' /\ OneOrderPerCheckout'
<1>1. CASE DuplicateRequest(w) \/ NewRequest(w) \/ RejectRequest(w) \/ RethrowException(w)
  <2>1. /\ requests' = requests /\ origin' = origin /\ status' = status /\ job' = job
        /\ \A v \in Workers : pc'[v] = pc[v] \/ pc'[v] \notin {"read", "commit"}
    BY <1>1 DEF DuplicateRequest, NewRequest, RejectRequest, RethrowException, GoTo,
                database, TypeInv, TypeOK
  <2> QED BY <2>1, KeysKept, OrdersKept DEF Holds
<1>2. CASE CreateRequest(w)
  <2>1. /\ requests' = requests /\ origin' = origin /\ status' = status /\ job' = job
        /\ \A v \in Workers \ {w} : pc'[v] = pc[v]
    BY <1>2 DEF CreateRequest, GoTo, database, TypeInv, TypeOK
  <2>2. job[w].req \notin requests
    BY <1>2 DEF CreateRequest
  <2>3. \A v \in Workers \ {w} : Holds(v)' => job'[v].req # job'[w].req
    BY <1>2, <2>1 DEF CreateRequest, KeyIsFree, HoldsKey, Holds
  <2>4. KeyInv'
    BY <2>1, <2>2, <2>3 DEF KeyInv, Holds
  <2> QED BY <2>1, <2>4, OrdersKept
<1>3. CASE LoadOrder(w)
  <2>1. /\ requests' = requests /\ origin' = origin /\ status' = status /\ job' = job
        /\ \A v \in Workers : pc'[v] = pc[v] \/ (pc[v] = "read" /\ pc'[v] = "commit")
    BY <1>3 DEF LoadOrder, GoTo, database, TypeInv, TypeOK
  <2> QED BY <2>1, KeysKept, OrdersKept DEF Holds
<1>4. CASE ChangeStatus(w) \/ SwallowException(w)
  <2>1. AtCommit(w, StatusCommands) /\ seen[w] # Absent /\ WriteStatus(w)
    BY <1>4 DEF ChangeStatus, SwallowException
  <2>2. requests \subseteq requests'
    BY <1>4 DEF ChangeStatus, SwallowException, Commit, Save
  <2>3. KeyInv'
    BY <1>4, KeyCommit DEF ChangeStatus, SwallowException, AtCommit, Commit
  <2> QED BY <2>1, <2>2, <2>3, WriteStatusKeepsRows, OrdersKept
<1>5. CASE OrderNotFound(w)
  <2>1. KeyInv'
    BY <1>5, KeyCommit DEF OrderNotFound, AtCommit, Commit
  <2>2. OneOrderPerCheckout'
    BY <1>5, OrdersKept DEF OrderNotFound, Commit, Save
  <2> QED BY <2>1, <2>2
<1>6. ASSUME NEW o \in Orders, CreateOrder(w, o) \/ CreateOrderWithoutBuyer(w, o)
      PROVE  KeyInv' /\ OneOrderPerCheckout'
  BY <1>6, KeyCommit, OneOrderInsert
     DEF CreateOrder, CreateOrderWithoutBuyer, AtCommit, Commit
<1>7. CASE CreateNoOrder(w)
  <2>1. KeyInv'
    BY <1>7, KeyCommit DEF CreateNoOrder, AtCommit, Commit
  <2>2. OneOrderPerCheckout'
    BY <1>7, OrdersKept DEF CreateNoOrder, Commit, Save
  <2> QED BY <2>1, <2>2
<1>8. CASE MarkEventAsInProgress(w) \/ Publish(w) \/ MarkEventAsPublished(w)
  <2>1. /\ requests' = requests /\ origin' = origin /\ status' = status /\ job' = job
        /\ \A v \in Workers : pc'[v] = pc[v] \/ pc'[v] \notin {"read", "commit"}
    BY <1>8 DEF MarkEventAsInProgress, Publish, MarkEventAsPublished, Settle, context,
                database, TypeInv, TypeOK
  <2> QED BY <2>1, KeysKept, OrdersKept DEF Holds
<1> QED BY <1>1, <1>2, <1>3, <1>4, <1>5, <1>6, <1>7, <1>8 DEF Work

\* What a command that stopped halfway commits is no more than a part of what it would have.
LEMMA KeyStops ==
  ASSUME TypeInv, KeyInv, SeenOK, OneOrderPerCheckout, NEW w \in Workers, Stops(w)
  PROVE  KeyInv' /\ SeenOK' /\ OneOrderPerCheckout'
<1>1. ASSUME NEW value, NEW events, Save(w, value, events)
      PROVE  requests \subseteq requests' /\ seen' = seen /\ job' = job
  BY <1>1 DEF Save, context
<1>2. ASSUME NEW value, NEW events, Save(w, value, events), pc[w] = "commit",
             UNCHANGED <<status, hasBuyer, origin>>
      PROVE  KeyInv' /\ SeenOK' /\ OneOrderPerCheckout'
  BY <1>1, <1>2, KeyCommit, SeenKept, OrdersKept
<1>3. ASSUME NEW value, NEW events, Save(w, value, events), WriteStatus(w),
             AtCommit(w, StatusCommands), seen[w] # Absent
      PROVE  KeyInv' /\ SeenOK' /\ OneOrderPerCheckout'
  BY <1>1, <1>3, KeyCommit, WriteStatusKeepsRows, SeenKept, OrdersKept DEF AtCommit
<1>4. ASSUME NEW value, NEW events, NEW o \in Orders, NEW buyer, Save(w, value, events),
             AtCommit(w, {"CreateOrder"}), InsertOrder(o, job[w].about, buyer)
      PROVE  KeyInv' /\ SeenOK' /\ OneOrderPerCheckout'
  <2>1. \A p \in Orders : status[p] # Absent => status'[p] # Absent
    BY <1>4 DEF InsertOrder, TypeInv, TypeOK, Absent
  <2> QED BY <1>1, <1>4, <2>1, KeyCommit, OneOrderInsert, SeenKept DEF AtCommit
<1>5. CASE ChangeStops(w)
  BY <1>2, <1>3, <1>5 DEF ChangeStops, AtCommit
<1>6. ASSUME NEW o \in Orders, CreationStops(w, o)
      PROVE  KeyInv' /\ SeenOK' /\ OneOrderPerCheckout'
  BY <1>2, <1>4, <1>6 DEF CreationStops, AtCommit
<1> QED BY <1>5, <1>6 DEF Stops

UniqueInv == TypeInv /\ KeyInv /\ SeenOK /\ OneOrderPerCheckout

\* Every step but those of Work and Stops leaves the orders and request ids as they are.
LEMMA RestLeavesDatabase ==
  ASSUME Subscribe \/ Receive \/ Discard \/ (\E c \in Calls, r \in ApiRequests : CallApi(c, r)) \/ Acknowledge
           \/ (\E c \in Calls : Respond(c)) \/ (\E w \in Workers : Faulty(w)) \/ Crash
           \/ (\E m \in Inbound : Deliver(m)) \/ UNCHANGED vars
  PROVE  UNCHANGED <<status, hasBuyer, origin, requests>>
BY DEF Subscribe, Receive, Discard, CallApi, Acknowledge, Respond, Faulty,
       RetryAfterTransientError, CommitFails, RetryAfterCommit, AbandonPublishing, RunAgain, GiveUp, MarkEventAsFailed, Settle,
       Crash, Deliver, database, vars

LEMMA StartKeys ==
  ASSUME TypeInv, KeyInv, SeenOK, NEW w \in Workers, NEW j, WellFormed(j), Start(w, j),
         UNCHANGED <<status, requests, seen>>
  PROVE  KeyInv' /\ SeenOK'
<1>1. pc'[w] = FirstStage(j) /\ job'[w] = j
  BY DEF Start, TypeInv, TypeOK
<1>2. \A v \in Workers \ {w} : pc'[v] = pc[v] /\ job'[v] = job[v]
  BY DEF Start, TypeInv, TypeOK
<1>3. ~Holds(w)'
  BY <1>1, OrderingAssumption DEF FirstStage, Holds
<1>4. KeyInv'
  BY <1>2, <1>3, KeysKept DEF Holds
<1>5. seen[w] = Absent
  BY DEF Start, TypeInv, JobsOK
<1> QED BY <1>2, <1>4, <1>5, SeenKept

LEMMA UniqueNext == UniqueInv /\ [Next]_vars => UniqueInv'
<1> SUFFICES ASSUME UniqueInv, [Next]_vars PROVE UniqueInv'
  OBVIOUS
<1> USE DEF UniqueInv
<1>0. TypeInv'
  BY TypeNext
<1>1. SUFFICES KeyInv' /\ SeenOK' /\ OneOrderPerCheckout'
  BY <1>0
<1>2. ASSUME UNCHANGED <<status, origin, requests>>
      PROVE  OneOrderPerCheckout'
  BY <1>2, OrdersKept
<1>3. CASE Receive
  <2>1. WellFormed(CommandFor(Head(queue)))
    BY <1>3, CommandForType DEF Receive, TypeInv, TypeOK
  <2> QED BY <1>2, <1>3, <2>1, StartKeys, RestLeavesDatabase DEF Receive, Workers
<1>4. ASSUME NEW c \in Calls, NEW r \in ApiRequests, CallApi(c, r)
      PROVE  KeyInv' /\ SeenOK' /\ OneOrderPerCheckout'
  BY <1>2, <1>4, ApiRequestsType, StartKeys DEF CallApi, Workers, database
<1>5. ASSUME NEW w \in Workers, Work(w)
      PROVE  KeyInv' /\ SeenOK' /\ OneOrderPerCheckout'
  BY <1>5, KeyWork, SeenWork
\* The end of a scope releases its key and forgets its instances.
<1>6. ASSUME NEW w \in Workers, NEW stage \in {"idle", "done"}, EndScope(w, stage),
             UNCHANGED <<status, origin, requests>>,
             \A v \in Workers \ {w} : job'[v] = job[v]
      PROVE  KeyInv' /\ SeenOK' /\ OneOrderPerCheckout'
  <2>1. /\ \A v \in Workers : Holds(v)' => Holds(v) /\ job'[v].req = job[v].req
        /\ \A v \in Workers : seen'[v] # Absent => seen[v] # Absent /\ job'[v] = job[v]
    BY <1>6 DEF EndScope, Holds, TypeInv, TypeOK
  <2> QED BY <1>2, <1>6, <2>1, KeysKept, SeenKept
<1>7. CASE Acknowledge
  BY <1>6, <1>7 DEF Acknowledge, Workers, database, TypeInv, TypeOK
<1>8. ASSUME NEW c \in Calls, Respond(c)
      PROVE  KeyInv' /\ SeenOK' /\ OneOrderPerCheckout'
  BY <1>6, <1>8 DEF Respond, Workers, database
<1>9. ASSUME NEW w \in Workers, Faulty(w)
      PROVE  KeyInv' /\ SeenOK' /\ OneOrderPerCheckout'
  <2>1. RunAgain(w) \/ GiveUp(w) \/ MarkEventAsFailed(w)
    BY <1>9 DEF Faulty, RetryAfterTransientError, CommitFails, RetryAfterCommit,
                AbandonPublishing
  <2>2. UNCHANGED <<status, origin, requests, job>>
    BY <2>1 DEF RunAgain, GiveUp, MarkEventAsFailed, Settle, database, context
  <2>3. CASE RunAgain(w)
    <3>1. \A v \in Workers : Holds(v)' => Holds(v)
      BY <2>2, <2>3, OrderingAssumption DEF RunAgain, FirstStage, Holds, TypeInv, TypeOK
    <3>2. \A v \in Workers : seen'[v] # Absent => seen[v] # Absent
      BY <2>3 DEF RunAgain, TypeInv, TypeOK
    <3> QED BY <1>2, <2>2, <3>1, <3>2, KeysKept, SeenKept
  <2>4. CASE GiveUp(w) \/ MarkEventAsFailed(w)
    <3>1. /\ \A v \in Workers : pc'[v] = pc[v] \/ pc'[v] \notin {"read", "commit"}
          /\ seen' = seen
      BY <2>4 DEF GiveUp, MarkEventAsFailed, Settle, context, TypeInv, TypeOK
    <3> QED BY <1>2, <2>2, <3>1, KeysKept, SeenKept DEF Holds
  <2> QED BY <2>1, <2>3, <2>4
<1>10. CASE Crash
  <2>1. \A v \in Workers : ~Holds(v)' /\ seen'[v] = Absent
    BY <1>10 DEF Crash, Holds
  <2>2. UNCHANGED <<status, origin, requests>>
    BY <1>10 DEF Crash, database
  <2> QED BY <1>2, <2>1, <2>2, KeysKept, SeenKept
<1>11. CASE Subscribe \/ Discard \/ (\E m \in Inbound : Deliver(m)) \/ UNCHANGED vars
  <2>1. UNCHANGED <<status, origin, requests, pc, job, seen>>
    BY <1>11 DEF Subscribe, Discard, Deliver, database, context, vars
  <2> QED BY <1>2, <2>1, KeysKept, SeenKept DEF Holds
<1>12. ASSUME NEW w \in Workers, Stops(w)
      PROVE  KeyInv' /\ SeenOK' /\ OneOrderPerCheckout'
  BY <1>12, KeyStops
<1> QED BY <1>3, <1>4, <1>5, <1>7, <1>8, <1>9, <1>10, <1>11, <1>12 DEF Next, OrderingNext

\* A checkout creates at most one order, whatever is redelivered or retried.
THEOREM OneOrderPerCheckoutCorrect == Spec => []OneOrderPerCheckout
<1>1. Init => UniqueInv
  <2>1. Init => SeenOK
    BY DEF Init, SeenOK
  <2> QED BY <2>1, TypeInit, KeyInit DEF UniqueInv
<1>2. UniqueInv => OneOrderPerCheckout
  BY DEF UniqueInv
<1> QED BY <1>1, <1>2, UniqueNext, PTL DEF Spec
=============================================================================
