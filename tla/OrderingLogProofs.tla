------------------------- MODULE OrderingLogProofs -------------------------
(***************************************************************************)
(* Theorems about Ordering's event log, for every set of orders, requests  *)
(* and calls and every number of faults: the log agrees with the bus, no   *)
(* stage of an order is announced twice or skipped, and no status is       *)
(* committed without its event.                                            *)
(***************************************************************************)
EXTENDS OrderingProofs

---------------------------------------------------------------------------
(***************************************************************************)
(* What a step can do to the log: COMMIT adds entries, a publisher changes *)
(* the state of the one it works on, and every other step leaves the log   *)
(* alone and makes nobody a publisher.                                     *)
(***************************************************************************)
Started(w) == Entry("OrderStarted", job[w].about)

\* A status command saves the order it loaded.
OrderChanges(w, events) ==
    /\ AtCommit(w, StatusCommands) /\ seen[w] # Absent
    /\ WriteStatus(w)
    /\ \/ ~Throws(w) /\ events = EventsOf(w)
       \/ (Throws(w) \/ "statement" \in FaultKinds) /\ events = <<>>

\* No order is saved.
OrderStays(w, events) ==
    /\ seen[w] = Absent \/ "statement" \in FaultKinds
    /\ UNCHANGED <<status, hasBuyer, origin>>
    /\ events = <<>> \/ (AtCommit(w, {"CreateOrder"}) /\ events = <<Started(w)>>)

\* A checkout's order is saved, with its Submitted event if it has a buyer.
OrderComes(w, o, events) ==
    /\ AtCommit(w, {"CreateOrder"})
    /\ \E buyer \in BOOLEAN :
          /\ InsertOrder(o, job[w].about, buyer)
          /\ buyer \/ CheckoutKind[job[w].about] = "cardExpires" \/ "statement" \in FaultKinds
          /\ \/ buyer /\ events = <<Started(w), Entry("Submitted", o)>>
             \/ (~buyer \/ "statement" \in FaultKinds) /\ events = <<Started(w)>>

Saves(w, value, events) ==
    /\ pc[w] = "commit"
    /\ Save(w, value, events)
    /\ \/ OrderChanges(w, events) \/ OrderStays(w, events)
       \/ \E o \in Orders : OrderComes(w, o, events)

SettlesEntry(w, s) ==
    /\ pc[w] \in {"send", "mark"} \/ (pc[w] = "publish" /\ next[w] <= last[w])
    /\ s = "Published" => pc[w] = "mark"
    /\ Settle(w, s)

Publishing(w) == pc[w] \in {"publish", "send", "mark"}

LeavesLog ==
    /\ UNCHANGED <<status, hasBuyer, origin, outbox, out>>
    /\ \A w \in Workers : Publishing(w)' =>
          Publishing(w) /\ pc'[w] = pc[w] /\ next'[w] = next[w] /\ last'[w] = last[w]

LEMMA WorkOnLog ==
  ASSUME TypeInv, NEW w \in Workers, Work(w)
  PROVE  \/ \E value, events : Saves(w, value, events)
         \/ MarkEventAsInProgress(w) \/ Publish(w) \/ SettlesEntry(w, "Published")
         \/ LeavesLog
<1>1. CASE \/ DuplicateRequest(w) \/ NewRequest(w) \/ CreateRequest(w) \/ RejectRequest(w)
           \/ LoadOrder(w) \/ RethrowException(w)
  <2>1. \E stage : GoTo(w, stage) /\ stage \notin {"publish", "send", "mark"}
    BY <1>1 DEF DuplicateRequest, NewRequest, CreateRequest, RejectRequest, LoadOrder,
                RethrowException
  <2> QED BY <2>1 DEF LeavesLog, GoTo, database, Publishing, TypeInv, TypeOK
<1>2. CASE ChangeStatus(w)
  <2>1. Saves(w, "true", EventsOf(w))
    BY <1>2 DEF ChangeStatus, Commit, Saves, OrderChanges, AtCommit
  <2> QED BY <2>1
<1>3. CASE OrderNotFound(w)
  <2>1. Saves(w, "false", <<>>)
    BY <1>3 DEF OrderNotFound, Commit, Saves, OrderStays, AtCommit
  <2> QED BY <2>1
<1>4. CASE SwallowException(w)
  <2>1. Saves(w, "false", <<>>)
    BY <1>4 DEF SwallowException, Commit, Saves, OrderChanges, AtCommit
  <2> QED BY <2>1
<1>5. ASSUME NEW o \in Orders, CreateOrder(w, o)
      PROVE  \E value, events : Saves(w, value, events)
  <2>1. Saves(w, "true", <<Started(w), Entry("Submitted", o)>>)
    BY <1>5 DEF CreateOrder, Commit, Saves, OrderComes, AtCommit, Started
  <2> QED BY <2>1
<1>6. ASSUME NEW o \in Orders, CreateOrderWithoutBuyer(w, o)
      PROVE  \E value, events : Saves(w, value, events)
  <2>1. Saves(w, "false", <<Started(w)>>)
    BY <1>6 DEF CreateOrderWithoutBuyer, Commit, Saves, OrderComes, AtCommit, Started
  <2> QED BY <2>1
<1>7. CASE CreateNoOrder(w)
  <2>1. seen[w] = Absent
    BY <1>7 DEF CreateNoOrder, AtCommit, TypeInv, JobsOK, StatusCommands
  <2>2. Saves(w, "false", <<>>) \/ Saves(w, "false", <<Started(w)>>)
    BY <1>7, <2>1 DEF CreateNoOrder, Commit, Saves, OrderStays, AtCommit, Started
  <2> QED BY <2>2
<1>8. CASE MarkEventAsPublished(w)
  BY <1>8 DEF MarkEventAsPublished, SettlesEntry
<1> QED BY <1>1, <1>2, <1>3, <1>4, <1>5, <1>6, <1>7, <1>8 DEF Work

LEMMA StopsOnLog ==
  ASSUME NEW w \in Workers, Stops(w)
  PROVE  \E value, events : Saves(w, value, events)
<1>1. CASE ChangeStops(w)
  <2>1. Saves(w, "false", <<>>) \/ Saves(w, "false", EventsOf(w))
    BY <1>1 DEF ChangeStops, Fault, Saves, OrderChanges, OrderStays, AtCommit
  <2> QED BY <2>1
<1>2. ASSUME NEW o \in Orders, CreationStops(w, o)
      PROVE  Saves(w, "false", <<>>) \/ Saves(w, "false", <<Started(w)>>)
  BY <1>2 DEF CreationStops, Fault, Saves, OrderStays, OrderComes, AtCommit, Started
<1> QED BY <1>1, <1>2 DEF Stops

LEMMA RestOnLog ==
  ASSUME TypeInv,
         \/ Subscribe \/ Receive \/ Discard \/ (\E c \in Calls, r \in ApiRequests : CallApi(c, r))
         \/ Acknowledge \/ (\E c \in Calls : Respond(c)) \/ Crash
         \/ (\E m \in Inbound : Deliver(m)) \/ UNCHANGED vars
  PROVE  LeavesLog
<1> USE DEF LeavesLog, database, Publishing, TypeInv, TypeOK
<1>1. CASE Subscribe \/ Discard \/ (\E m \in Inbound : Deliver(m)) \/ UNCHANGED vars
  BY <1>1 DEF Subscribe, Discard, Deliver, vars
<1>2. CASE Receive \/ (\E c \in Calls, r \in ApiRequests : CallApi(c, r))
  BY <1>2 DEF Receive, CallApi, Start, FirstStage
<1>3. CASE Acknowledge \/ (\E c \in Calls : Respond(c))
  BY <1>3 DEF Acknowledge, Respond, EndScope
<1>4. CASE Crash
  BY <1>4 DEF Crash
<1> QED BY <1>1, <1>2, <1>3, <1>4

LEMMA FaultsOnLog ==
  ASSUME TypeInv, NEW w \in Workers, Faulty(w)
  PROVE  SettlesEntry(w, "PublishedFailed") \/ LeavesLog
<1>1. CASE MarkEventAsFailed(w)
  BY <1>1 DEF MarkEventAsFailed, AtEntry, SettlesEntry
<1>2. CASE RunAgain(w) \/ GiveUp(w)
  BY <1>2 DEF RunAgain, GiveUp, FirstStage, LeavesLog, database, Publishing, TypeInv, TypeOK
<1> QED BY <1>1, <1>2 DEF Faulty, RetryAfterTransientError, CommitFails, RetryAfterCommit,
                          AbandonPublishing

LEMMA StepOnLog ==
  ASSUME TypeInv, [Next]_vars
  PROVE  \/ \E w \in Workers : \E value, events : Saves(w, value, events)
         \/ \E w \in Workers : MarkEventAsInProgress(w) \/ Publish(w)
         \/ \E w \in Workers, s \in {"Published", "PublishedFailed"} : SettlesEntry(w, s)
         \/ LeavesLog
BY WorkOnLog, StopsOnLog, RestOnLog, FaultsOnLog DEF Next, OrderingNext

---------------------------------------------------------------------------
(***************************************************************************)
(* Log and bus.  The entries a publisher still has to deal with are its    *)
(* own, were not published, and are not marked, but for the one it is      *)
(* working on: that one is on the bus exactly when the publisher is about  *)
(* to mark it.                                                             *)
(***************************************************************************)

\* Entry i is left to worker w.
Left(w, i) == Publishing(w) /\ next[w] <= i /\ i <= last[w]

OnBus(i) == \E m \in DOMAIN out : out[m].id = i

LeftOnce == \A v, w \in Workers, i \in DOMAIN outbox : Left(v, i) /\ Left(w, i) => v = w

LeftIsUntouched ==
    \A w \in Workers, i \in DOMAIN outbox :
        Left(w, i) /\ (i # next[w] \/ pc[w] = "publish") => outbox[i].state = "NotPublished"

CurrentEntry ==
    \A w \in Workers :
        /\ pc[w] = "send" => outbox[next[w]].state = "InProgress" /\ ~OnBus(next[w])
        /\ pc[w] = "mark" => OnBus(next[w])

BusHasEntries == \A m \in DOMAIN out : out[m].id \in DOMAIN outbox

LogParts == LeftOnce /\ LeftIsUntouched /\ CurrentEntry /\ BusHasEntries /\ OutboxMatchesBus

LogInv == TypeInv /\ LogParts

LEMMA LogInit == Init => LogInv
<1> SUFFICES ASSUME Init PROVE LogInv
  OBVIOUS
<1>1. out = <<>> /\ outbox = <<>> /\ \A w \in Workers : pc[w] = "idle"
  BY DEF Init
<1> QED BY <1>1, TypeInit DEF LogInv, LogParts, LeftOnce, LeftIsUntouched, CurrentEntry, BusHasEntries,
           OutboxMatchesBus, Left, Publishing

\* The numbers a publisher keeps.
LEMMA PublisherNumbers ==
  ASSUME TypeInv, NEW w \in Workers
  PROVE  /\ next[w] \in Nat /\ last[w] \in Nat /\ next[w] >= 1 /\ last[w] <= Len(outbox)
         /\ outbox \in Seq(Entries) /\ Len(outbox) \in Nat /\ DOMAIN outbox = 1 .. Len(outbox)
         /\ (pc[w] \in {"send", "mark"} \/ (pc[w] = "publish" /\ next[w] <= last[w])) =>
                next[w] \in DOMAIN outbox /\ Left(w, next[w])
<1>1. next[w] \in Nat /\ last[w] \in Nat /\ outbox \in Seq(Entries)
  BY DEF TypeInv, TypeOK
<1>2. Len(outbox) \in Nat /\ DOMAIN outbox = 1 .. Len(outbox)
  BY <1>1
<1> QED BY <1>1, <1>2 DEF TypeInv, PublishersOK, Left, Publishing

\* The entries of COMMIT are new.
LEMMA SaveAppends ==
  ASSUME TypeInv, NEW w \in Workers, NEW value, NEW events \in Seq(Entries), Save(w, value, events)
  PROVE  /\ DOMAIN outbox' = 1 .. Len(outbox) + Len(events)
         /\ \A i \in DOMAIN outbox : i \in DOMAIN outbox' /\ outbox'[i] = outbox[i]
         /\ \A i \in DOMAIN outbox' : i \notin DOMAIN outbox =>
                i - Len(outbox) \in DOMAIN events /\ outbox'[i] = events[i - Len(outbox)]
<1>1. outbox \in Seq(Entries) /\ outbox' = outbox \o events
  BY DEF TypeInv, TypeOK, Save
<1> QED BY <1>1

\* What is saved is a sequence of fresh entries.
LEMMA SavesFreshEntries ==
  ASSUME TypeInv, NEW w \in Workers, NEW value, NEW events, Saves(w, value, events)
  PROVE  /\ events \in Seq(Entries)
         /\ \A k \in DOMAIN events : events[k].state = "NotPublished"
<1>1. CASE events = <<>>
  BY <1>1
<1>2. CASE AtCommit(w, {"CreateOrder"}) /\ events = <<Started(w)>>
  <2>1. job[w].about \in Requests
    BY <1>2, JobFields DEF AtCommit
  <2>2. Started(w) \in Entries /\ Started(w).state = "NotPublished"
    BY <2>1, EntryType DEF Started, EventTypes, Entry
  <2> QED BY <1>2, <2>2
<1>3. ASSUME NEW o \in Orders, AtCommit(w, {"CreateOrder"}),
             events = <<Started(w), Entry("Submitted", o)>>
      PROVE  /\ events \in Seq(Entries)
             /\ \A k \in DOMAIN events : events[k].state = "NotPublished"
  <2>1. job[w].about \in Requests
    BY <1>3, JobFields DEF AtCommit
  <2>2. Started(w) \in Entries /\ Started(w).state = "NotPublished"
    BY <2>1, EntryType DEF Started, EventTypes, Entry
  <2>3. Entry("Submitted", o) \in Entries /\ Entry("Submitted", o).state = "NotPublished"
    BY EntryType DEF EventTypes, Statuses, Entry
  <2> QED BY <1>3, <2>2, <2>3
<1>4. CASE AtCommit(w, StatusCommands) /\ seen[w] # Absent /\ events = EventsOf(w)
  BY <1>4, EventsOfType DEF EventsOf, Entry
<1> QED BY <1>1, <1>2, <1>3, <1>4 DEF Saves, OrderChanges, OrderStays, OrderComes

LEMMA LogSaves ==
  ASSUME LogInv, NEW w \in Workers, NEW value, NEW events, Saves(w, value, events)
  PROVE  LogParts'
<1> USE DEF LogInv, LogParts
<1>1. /\ events \in Seq(Entries)
      /\ \A k \in DOMAIN events : events[k].state = "NotPublished"
  BY SavesFreshEntries
<1>2. /\ out' = out
      /\ pc' = [pc EXCEPT ![w] = "publish"]
      /\ next' = [next EXCEPT ![w] = Len(outbox) + 1]
      /\ last' = [last EXCEPT ![w] = Len(outbox) + Len(events)]
      /\ ~Publishing(w)
  BY DEF Saves, Save, Publishing
<1>3. /\ DOMAIN outbox' = 1 .. Len(outbox) + Len(events)
      /\ \A i \in DOMAIN outbox : i \in DOMAIN outbox' /\ outbox'[i] = outbox[i]
      /\ \A i \in DOMAIN outbox' : i \notin DOMAIN outbox => outbox'[i].state = "NotPublished"
  BY <1>1, SaveAppends DEF Saves
<1>4. DOMAIN outbox = 1 .. Len(outbox) /\ Len(outbox) \in Nat /\ Len(events) \in Nat
  BY <1>1, PublisherNumbers
<1>5. /\ \A v \in Workers : v # w => pc'[v] = pc[v] /\ next'[v] = next[v] /\ last'[v] = last[v]
      /\ pc'[w] = "publish" /\ next'[w] = Len(outbox) + 1
  BY <1>2 DEF TypeInv, TypeOK
<1>6. \A v \in Workers, i \in DOMAIN outbox' :
          Left(v, i)' => IF v = w THEN i \notin DOMAIN outbox
                         ELSE Left(v, i) /\ i \in DOMAIN outbox
  <2> SUFFICES ASSUME NEW v \in Workers, NEW i \in DOMAIN outbox', Left(v, i)'
               PROVE  IF v = w THEN i \notin DOMAIN outbox ELSE Left(v, i) /\ i \in DOMAIN outbox
    OBVIOUS
  <2>1. CASE v = w
    BY <1>3, <1>4, <1>5, <2>1 DEF Left
  <2>2. CASE v # w
    <3>1. Left(v, i)
      BY <1>5, <2>2 DEF Left, Publishing
    <3>2. i <= last[v] /\ last[v] <= Len(outbox) /\ last[v] \in Nat /\ i \in Nat /\ i >= 1
      BY <1>3, <1>4, <3>1, PublisherNumbers DEF Left
    <3> QED BY <1>4, <2>2, <3>1, <3>2
  <2> QED BY <2>1, <2>2
<1>7. LeftOnce'
  BY <1>6 DEF LeftOnce
<1>8. LeftIsUntouched'
  BY <1>3, <1>5, <1>6 DEF LeftIsUntouched
<1>9. CurrentEntry'
  <2> SUFFICES ASSUME NEW v \in Workers, pc'[v] \in {"send", "mark"}
               PROVE  /\ pc'[v] = "send" => outbox'[next'[v]].state = "InProgress" /\ ~OnBus(next'[v])
                      /\ pc'[v] = "mark" => OnBus(next'[v])
    BY <1>2 DEF CurrentEntry, OnBus
  <2>1. v # w /\ pc'[v] = pc[v] /\ next'[v] = next[v]
    BY <1>5
  <2>2. next[v] \in DOMAIN outbox /\ outbox'[next[v]] = outbox[next[v]]
    BY <1>3, <2>1, PublisherNumbers
  <2> QED BY <2>1, <2>2 DEF CurrentEntry
<1>10. BusHasEntries'
  BY <1>2, <1>3 DEF BusHasEntries
<1>11. OutboxMatchesBus'
  BY <1>2, <1>3 DEF BusHasEntries, OutboxMatchesBus
<1> QED BY <1>7, <1>8, <1>9, <1>10, <1>11 DEF LogParts

\* Only the state of one entry changes.
LEMMA StateSet ==
  ASSUME TypeInv, NEW n \in DOMAIN outbox, NEW s, SetState(n, s)
  PROVE  /\ DOMAIN outbox' = DOMAIN outbox
         /\ outbox'[n].state = s
         /\ \A i \in DOMAIN outbox : i # n => outbox'[i] = outbox[i]
         /\ \A i \in DOMAIN outbox :
                outbox'[i].type = outbox[i].type /\ outbox'[i].about = outbox[i].about
<1>1. outbox' = [outbox EXCEPT ![n] = [outbox[n] EXCEPT !.state = s]]
  BY DEF SetState
<1>2. outbox[n] \in Entries
  BY DEF TypeInv, TypeOK
<1> QED BY <1>1, <1>2 DEF Entries

LEMMA LogMarksInProgress ==
  ASSUME LogInv, NEW w \in Workers, MarkEventAsInProgress(w)
  PROVE  LogParts'
<1> DEFINE n == next[w]
<1> USE DEF LogInv, LogParts
<1>1. /\ pc[w] = "publish" /\ SetState(n, "InProgress") /\ pc' = [pc EXCEPT ![w] = "send"]
      /\ UNCHANGED <<next, last, out>>
  BY DEF MarkEventAsInProgress
<1>2. n \in DOMAIN outbox /\ Left(w, n)
  BY PublisherNumbers DEF MarkEventAsInProgress
<1>3. /\ DOMAIN outbox' = DOMAIN outbox /\ outbox'[n].state = "InProgress"
      /\ \A i \in DOMAIN outbox : i # n => outbox'[i] = outbox[i]
  BY <1>1, <1>2, StateSet
<1>4. pc'[w] = "send" /\ \A v \in Workers : v # w => pc'[v] = pc[v]
  BY <1>1 DEF TypeInv, TypeOK
<1>5. \A v \in Workers, i \in DOMAIN outbox : Left(v, i)' <=> Left(v, i)
  BY <1>1, <1>4 DEF Left, Publishing
<1>6. ~OnBus(n)
  BY <1>1, <1>2 DEF LeftIsUntouched, OutboxMatchesBus, OnBus
<1>7. LeftOnce'
  BY <1>3, <1>5 DEF LeftOnce
<1>8. LeftIsUntouched'
  BY <1>1, <1>2, <1>3, <1>4, <1>5 DEF LeftOnce, LeftIsUntouched
<1>9. CurrentEntry'
  <2> SUFFICES ASSUME NEW v \in Workers, pc'[v] \in {"send", "mark"}
               PROVE  /\ pc'[v] = "send" => outbox'[next[v]].state = "InProgress" /\ ~OnBus(next[v])
                      /\ pc'[v] = "mark" => OnBus(next[v])
    BY <1>1 DEF CurrentEntry, OnBus
  <2>1. CASE v = w
    BY <1>3, <1>4, <1>6, <2>1
  <2>2. CASE v # w
    <3>1. next[v] \in DOMAIN outbox /\ Left(v, next[v])
      BY <1>4, <2>2, PublisherNumbers
    <3>2. next[v] # n
      BY <1>2, <2>2, <3>1 DEF LeftOnce
    <3> QED BY <1>3, <1>4, <2>2, <3>1, <3>2 DEF CurrentEntry
  <2> QED BY <2>1, <2>2
<1>10. BusHasEntries' /\ OutboxMatchesBus'
  BY <1>1, <1>3 DEF BusHasEntries, OutboxMatchesBus
<1> QED BY <1>7, <1>8, <1>9, <1>10 DEF LogParts

LEMMA LogPublishes ==
  ASSUME LogInv, NEW w \in Workers, Publish(w)
  PROVE  LogParts'
<1> DEFINE n == next[w]
           m == [id |-> next[w], type |-> outbox[next[w]].type, about |-> outbox[next[w]].about]
<1> USE DEF LogInv, LogParts
<1>1. /\ pc[w] = "send" /\ out' = Append(out, m) /\ pc' = [pc EXCEPT ![w] = "mark"]
      /\ UNCHANGED <<next, last, outbox>> /\ m.id = n
  BY DEF Publish, database
<1>2. n \in DOMAIN outbox /\ Left(w, n) /\ outbox[n].state = "InProgress" /\ ~OnBus(n)
  BY <1>1, PublisherNumbers DEF CurrentEntry
<1> HIDE DEF m
<1>3. out \in Seq(Published)
  BY DEF TypeInv, TypeOK
<1>4. /\ DOMAIN out' = DOMAIN out \cup {Len(out) + 1} /\ Len(out) + 1 \notin DOMAIN out
      /\ \A k \in DOMAIN out : out'[k] = out[k]
      /\ out'[Len(out) + 1] = m
  BY <1>1, <1>3
<1>5. pc'[w] = "mark" /\ \A v \in Workers : v # w => pc'[v] = pc[v]
  BY <1>1 DEF TypeInv, TypeOK
<1>6. \A v \in Workers, i \in DOMAIN outbox : Left(v, i)' <=> Left(v, i)
  BY <1>1, <1>5 DEF Left, Publishing
<1>7. LeftOnce' /\ LeftIsUntouched'
  BY <1>1, <1>5, <1>6 DEF LeftOnce, LeftIsUntouched
<1>8. (OnBus(n) <=> FALSE) /\ \A i : OnBus(i)' <=> OnBus(i) \/ i = n
  BY <1>1, <1>2, <1>4 DEF OnBus
<1>9. CurrentEntry'
  <2> SUFFICES ASSUME NEW v \in Workers, pc'[v] \in {"send", "mark"}
               PROVE  /\ pc'[v] = "send" => outbox[next[v]].state = "InProgress"
                                             /\ ~(OnBus(next[v]) \/ next[v] = n)
                      /\ pc'[v] = "mark" => OnBus(next[v]) \/ next[v] = n
    BY <1>1, <1>8 DEF CurrentEntry, OnBus
  <2>1. CASE v = w
    BY <1>5, <2>1
  <2>2. CASE v # w
    <3>1. next[v] \in DOMAIN outbox /\ Left(v, next[v])
      BY <1>5, <2>2, PublisherNumbers
    <3>2. next[v] # n
      BY <1>2, <2>2, <3>1 DEF LeftOnce
    <3> QED BY <1>5, <2>2, <3>2 DEF CurrentEntry
  <2> QED BY <2>1, <2>2
<1>10. BusHasEntries'
  BY <1>1, <1>2, <1>4 DEF BusHasEntries
<1>11. OutboxMatchesBus'
  BY <1>1, <1>2, <1>4 DEF OutboxMatchesBus, OnBus
<1> QED BY <1>7, <1>9, <1>10, <1>11 DEF LogParts

LEMMA LogSettles ==
  ASSUME LogInv, NEW w \in Workers, NEW s \in {"Published", "PublishedFailed"}, SettlesEntry(w, s)
  PROVE  LogParts'
<1> DEFINE n == next[w]
<1> USE DEF LogInv, LogParts
<1>1. /\ SetState(n, s) /\ pc' = [pc EXCEPT ![w] = "publish"]
      /\ next' = [next EXCEPT ![w] = next[w] + 1]
      /\ UNCHANGED <<last, out>> /\ Publishing(w)
  BY DEF SettlesEntry, Settle, Publishing
<1>2. n \in DOMAIN outbox /\ Left(w, n) /\ n \in Nat
  BY PublisherNumbers DEF SettlesEntry
<1>3. /\ DOMAIN outbox' = DOMAIN outbox /\ outbox'[n].state = s
      /\ \A i \in DOMAIN outbox : i # n => outbox'[i] = outbox[i]
  BY <1>1, <1>2, StateSet
<1>4. /\ pc'[w] = "publish" /\ next'[w] = n + 1
      /\ \A v \in Workers : v # w => pc'[v] = pc[v] /\ next'[v] = next[v]
  BY <1>1 DEF TypeInv, TypeOK
<1>5. \A v \in Workers, i \in DOMAIN outbox : Left(v, i)' => Left(v, i) /\ i # n
  <2> SUFFICES ASSUME NEW v \in Workers, NEW i \in DOMAIN outbox, Left(v, i)'
               PROVE  Left(v, i) /\ i # n
    OBVIOUS
  <2>1. i \in Nat
    BY PublisherNumbers
  <2>2. CASE v = w
    BY <1>1, <1>2, <1>4, <2>1, <2>2 DEF Left
  <2>3. CASE v # w
    <3>1. Left(v, i)
      BY <1>1, <1>4, <2>3 DEF Left, Publishing
    <3> QED BY <1>2, <2>3, <3>1 DEF LeftOnce
  <2> QED BY <2>2, <2>3
<1>6. LeftOnce'
  BY <1>3, <1>5 DEF LeftOnce
<1>7. LeftIsUntouched'
  BY <1>3, <1>4, <1>5 DEF LeftIsUntouched
<1>8. CurrentEntry'
  <2> SUFFICES ASSUME NEW v \in Workers, pc'[v] \in {"send", "mark"}
               PROVE  /\ pc'[v] = "send" => outbox'[next'[v]].state = "InProgress" /\ ~OnBus(next'[v])
                      /\ pc'[v] = "mark" => OnBus(next'[v])
    BY <1>1 DEF CurrentEntry, OnBus
  <2>1. v # w /\ pc'[v] = pc[v] /\ next'[v] = next[v]
    BY <1>4
  <2>2. next[v] \in DOMAIN outbox /\ Left(v, next[v])
    BY <2>1, PublisherNumbers
  <2>3. next[v] # n
    BY <1>2, <2>1, <2>2 DEF LeftOnce
  <2> QED BY <1>3, <2>1, <2>2, <2>3 DEF CurrentEntry
<1>9. BusHasEntries'
  BY <1>1, <1>3 DEF BusHasEntries
<1>10. OutboxMatchesBus'
  <2>1. s = "Published" => OnBus(n)
    BY DEF SettlesEntry, CurrentEntry
  <2> QED BY <1>1, <1>2, <1>3, <2>1 DEF OutboxMatchesBus, OnBus
<1> QED BY <1>6, <1>7, <1>8, <1>9, <1>10 DEF LogParts

LEMMA LogLeft ==
  ASSUME LogInv, LeavesLog
  PROVE  LogParts'
<1> USE DEF LogInv, LogParts
<1>1. outbox' = outbox /\ out' = out
  BY DEF LeavesLog
<1>2. \A v \in Workers :
          Publishing(v)' => pc'[v] = pc[v] /\ next'[v] = next[v] /\ last'[v] = last[v]
  BY DEF LeavesLog
<1>3. \A v \in Workers, i \in DOMAIN outbox : Left(v, i)' => Left(v, i) /\ pc'[v] = pc[v] /\ next'[v] = next[v]
  BY <1>2 DEF Left, Publishing
<1>4. LeftOnce' /\ LeftIsUntouched'
  BY <1>1, <1>3 DEF LeftOnce, LeftIsUntouched
<1>5. CurrentEntry'
  BY <1>1, <1>2 DEF CurrentEntry, Publishing, OnBus
<1>6. BusHasEntries' /\ OutboxMatchesBus'
  BY <1>1 DEF BusHasEntries, OutboxMatchesBus
<1> QED BY <1>4, <1>5, <1>6 DEF LogParts

LEMMA LogNext == LogInv /\ [Next]_vars => LogInv'
<1> SUFFICES ASSUME LogInv, [Next]_vars PROVE LogInv'
  OBVIOUS
<1>1. TypeInv'
  BY TypeNext DEF LogInv
<1>2. LogParts'
  BY StepOnLog, LogSaves, LogMarksInProgress, LogPublishes, LogSettles, LogLeft DEF LogInv
<1> QED BY <1>1, <1>2 DEF LogInv

\* What is marked Published was published, what was never tried was not, and no entry goes
\* out twice, whichever transactions, calls and failures of the log interleave.
THEOREM OutboxMatchesBusCorrect == Spec => []OutboxMatchesBus
<1>1. LogInv => OutboxMatchesBus
  BY DEF LogInv, LogParts
<1> QED BY <1>1, LogInit, LogNext, PTL DEF Spec

---------------------------------------------------------------------------
(***************************************************************************)
(* Stages.  What the aggregate's methods do to them: a status the order is *)
(* past stays passed, and a method that announces one of the stages only   *)
(* the consumer assigns was called in the stage before it.                 *)
(***************************************************************************)

\* The statuses an order has before it enters one of the consumer's stages.
Behind == [AwaitingValidation |-> {Absent, "Submitted"},
           StockConfirmed     |-> {Absent, "Submitted", "AwaitingValidation"},
           Paid               |-> {Absent, "Submitted", "AwaitingValidation", "StockConfirmed"}]

\* The status a command gives an order, if it gives it one.
Target == [SetAwaitingValidation |-> "AwaitingValidation",
           SetStockConfirmed     |-> "StockConfirmed",
           SetStockRejected      |-> "Cancelled",
           SetPaid               |-> "Paid",
           ShipOrder             |-> "Shipped",
           CancelOrder           |-> "Cancelled"]

LEMMA ApplyFacts ==
  ASSUME NEW cmd \in StatusCommands, NEW s \in Statuses
  PROVE  LET r == Apply(cmd, s)
         IN  /\ r.status \in {s, Target[cmd]}
             /\ r.event \in {NoEvent, Target[cmd]}
             /\ r.event # NoEvent => r.status = r.event
             /\ r.event \in DOMAIN Before => s = Before[r.event]
             /\ r.throws => r.status = s
             /\ r.status # s /\ r.event = NoEvent => s = "AwaitingValidation" /\ r.status = "Cancelled"
             /\ \A t \in ConsumerStages : s \notin Behind[t] => r.status \notin Behind[t]
<1> USE DEF Keeps, Moves, StatusChangeException, Statuses, NoEvent, Absent, Target, Behind, Before,
            ConsumerStages
<1>1. CASE cmd = "SetAwaitingValidation"
  BY <1>1 DEF Apply, SetAwaitingValidationStatus
<1>2. CASE cmd = "SetStockConfirmed"
  BY <1>2 DEF Apply, SetStockConfirmedStatus
<1>3. CASE cmd = "SetStockRejected"
  BY <1>3 DEF Apply, SetCancelledStatusWhenStockIsRejected
<1>4. CASE cmd = "SetPaid"
  BY <1>4 DEF Apply, SetPaidStatus
<1>5. CASE cmd = "ShipOrder"
  BY <1>5 DEF Apply, SetShippedStatus
<1>6. CASE cmd = "CancelOrder"
  BY <1>6 DEF Apply, SetCancelledStatus
<1> QED BY <1>1, <1>2, <1>3, <1>4, <1>5, <1>6 DEF StatusCommands

LEMMA TargetFacts ==
  /\ Target \in [StatusCommands -> Statuses \ {"Submitted"}]
  /\ \A cmd \in HttpCommands : cmd \in StatusCommands /\ Target[cmd] \in {"Shipped", "Cancelled"}
  /\ \A t \in ConsumerStages : t \notin Behind[t] /\ Before[t] \in Behind[t]
  /\ ConsumerStages \subseteq DOMAIN Before
  /\ \A t \in DOMAIN Before : t # Before[t] /\ t \notin {"OrderStarted", "Submitted"}
BY DEF Target, StatusCommands, Statuses, HttpCommands, ConsumerStages, Behind, Before, Absent

---------------------------------------------------------------------------
(***************************************************************************)
(* What a step other than COMMIT can do to the instance a worker tracks.   *)
(***************************************************************************)
ContextKept(v) ==
    /\ seen'[v] = seen[v] /\ job'[v] = job[v]
    /\ \/ pc'[v] = "reply"
       \/ /\ Publishing(v) <=> Publishing(v)'
          /\ \A stage \in {"commit", "reply"} : pc[v] = stage => pc'[v] = stage

ContextCleared(v) == seen'[v] = Absent

OrderLoaded(v) ==
    /\ pc[v] = "read" /\ pc'[v] = "commit"
    /\ job'[v] = job[v] /\ job[v].about \in Orders
    /\ seen[v] = Absent /\ seen'[v] = status[job[v].about]

RunsAgain(v) ==
    /\ (pc[v] = "commit" /\ "commit" \in FaultKinds) \/ Publishing(v)
    /\ pc'[v] \in {"check", "read"}
    /\ job'[v] = job[v]
    /\ seen[v] # Absent /\ seen'[v] = Outcome(v).status

ContextStep(v) == ContextKept(v) \/ ContextCleared(v) \/ OrderLoaded(v) \/ RunsAgain(v)

SameRows == UNCHANGED <<status, hasBuyer, origin, requests>>

LEMMA WorkOnContext ==
  ASSUME TypeInv, NEW w \in Workers, Work(w), ~\E value, events : Saves(w, value, events)
  PROVE  SameRows /\ \A v \in Workers : ContextStep(v)
<1> USE DEF TypeInv, TypeOK, SameRows, database, context
<1>1. CASE \/ DuplicateRequest(w) \/ NewRequest(w) \/ CreateRequest(w) \/ RejectRequest(w)
           \/ RethrowException(w)
  BY <1>1 DEF DuplicateRequest, NewRequest, CreateRequest, RejectRequest, RethrowException, AtCommit,
              GoTo, ContextStep, ContextKept, Publishing
<1>2. CASE LoadOrder(w)
  <2>1. job[w].about \in Orders
    BY <1>2, JobFields DEF LoadOrder, JobsOK
  <2>2. \A v \in Workers : v # w => seen'[v] = seen[v] /\ job'[v] = job[v] /\ pc'[v] = pc[v]
    BY <1>2 DEF LoadOrder, GoTo
  <2>3. ContextKept(w) \/ OrderLoaded(w)
    BY <1>2, <2>1 DEF LoadOrder, GoTo, ContextKept, OrderLoaded, Publishing
  <2>4. SameRows
    BY <1>2 DEF LoadOrder, GoTo
  <2> QED BY <2>2, <2>3, <2>4 DEF ContextStep, ContextKept, Publishing
<1>3. CASE MarkEventAsInProgress(w) \/ Publish(w) \/ MarkEventAsPublished(w)
  BY <1>3 DEF MarkEventAsInProgress, Publish, MarkEventAsPublished, Settle, ContextStep, ContextKept,
              Publishing
<1>4. CASE LeavesLog /\ ~Publishing(w) /\ pc'[w] = "publish"
  BY <1>4 DEF LeavesLog, Publishing
<1>5. CASE \/ ChangeStatus(w) \/ OrderNotFound(w) \/ SwallowException(w)
           \/ \E o \in Orders : CreateOrder(w, o) \/ CreateOrderWithoutBuyer(w, o)
           \/ CreateNoOrder(w)
  <2>1. pc[w] = "commit" /\ pc'[w] = "publish"
    BY <1>5 DEF ChangeStatus, OrderNotFound, SwallowException, CreateOrder, CreateOrderWithoutBuyer,
                CreateNoOrder, AtCommit, Commit, Save
  <2>2. LeavesLog \/ MarkEventAsInProgress(w) \/ Publish(w) \/ SettlesEntry(w, "Published")
    BY WorkOnLog
  <2> QED BY <1>4, <2>1, <2>2
          DEF MarkEventAsInProgress, Publish, SettlesEntry, Publishing
<1> QED BY <1>1, <1>2, <1>3, <1>5 DEF Work

LEMMA RestOnContext ==
  ASSUME TypeInv,
         \/ Subscribe \/ Receive \/ Discard \/ (\E c \in Calls, r \in ApiRequests : CallApi(c, r))
         \/ Acknowledge \/ (\E c \in Calls : Respond(c)) \/ Crash
         \/ (\E m \in Inbound : Deliver(m)) \/ UNCHANGED vars
  PROVE  SameRows /\ \A v \in Workers : ContextStep(v)
<1>0. SameRows
  BY RestLeavesDatabase DEF SameRows
<1> USE DEF TypeInv, TypeOK, ContextStep
<1>1. CASE Subscribe \/ Discard \/ (\E m \in Inbound : Deliver(m)) \/ UNCHANGED vars
  BY <1>0, <1>1 DEF Subscribe, Discard, Deliver, vars, context, ContextKept, Publishing
<1>2. ASSUME NEW w \in Workers, NEW j, Start(w, j), seen' = seen
      PROVE  \A v \in Workers : ContextStep(v)
  <2>1. seen'[w] = Absent
    BY <1>2 DEF Start, JobsOK
  <2>2. \A v \in Workers : v # w => job'[v] = job[v] /\ pc'[v] = pc[v]
    BY <1>2 DEF Start
  <2> QED BY <1>2, <2>1, <2>2 DEF ContextKept, ContextCleared, Publishing
<1>3. CASE Receive \/ (\E c \in Calls, r \in ApiRequests : CallApi(c, r))
  BY <1>0, <1>2, <1>3 DEF Receive, CallApi, Workers
<1>4. ASSUME NEW w \in Workers, NEW stage, EndScope(w, stage), \A v \in Workers : v # w => job'[v] = job[v]
      PROVE  \A v \in Workers : ContextStep(v)
  BY <1>4 DEF EndScope, ContextKept, ContextCleared, Publishing
<1>5. CASE Acknowledge \/ (\E c \in Calls : Respond(c))
  BY <1>0, <1>4, <1>5 DEF Acknowledge, Respond, Workers
<1>6. CASE Crash
  BY <1>0, <1>6 DEF Crash, ContextCleared
<1> QED BY <1>1, <1>3, <1>5, <1>6

LEMMA FaultsOnContext ==
  ASSUME TypeInv, NEW w \in Workers, Faulty(w)
  PROVE  SameRows /\ \A v \in Workers : ContextStep(v)
<1>0. SameRows
  BY RestLeavesDatabase DEF SameRows
<1> USE DEF TypeInv, TypeOK, ContextStep
<1>1. CASE MarkEventAsFailed(w)
  BY <1>0, <1>1 DEF MarkEventAsFailed, AtEntry, Settle, context, ContextKept, Publishing
<1>2. CASE GiveUp(w)
  BY <1>0, <1>2 DEF GiveUp, context, ContextKept, Publishing
<1>3. CASE RunAgain(w) /\ ((pc[w] = "commit" /\ "commit" \in FaultKinds) \/ Publishing(w))
  <2>1. /\ job' = job /\ pc'[w] \in {"check", "read"}
        /\ seen'[w] = IF seen[w] = Absent THEN seen[w] ELSE Outcome(w).status
        /\ \A v \in Workers : v # w => seen'[v] = seen[v] /\ pc'[v] = pc[v]
    BY <1>3 DEF RunAgain, FirstStage
  <2> QED BY <1>0, <1>3, <2>1 DEF ContextKept, ContextCleared, RunsAgain, Publishing
<1> QED BY <1>1, <1>2, <1>3 DEF Faulty, RetryAfterTransientError, CommitFails, RetryAfterCommit,
                                AbandonPublishing, AtEntry, Publishing, Fault

SameEvents ==
    /\ DOMAIN outbox' = DOMAIN outbox
    /\ \A i \in DOMAIN outbox :
           outbox'[i].type = outbox[i].type /\ outbox'[i].about = outbox[i].about

LEMMA StepKinds ==
  ASSUME TypeInv, [Next]_vars, ~\E w \in Workers : \E value, events : Saves(w, value, events)
  PROVE  SameEvents /\ SameRows /\ \A v \in Workers : ContextStep(v)
<1>1. SameRows /\ \A v \in Workers : ContextStep(v)
  BY WorkOnContext, RestOnContext, FaultsOnContext, StopsOnLog DEF Next, OrderingNext
<1>2. SameEvents
  <2>1. ASSUME NEW w \in Workers, NEW s, SetState(next[w], s), next[w] \in DOMAIN outbox
        PROVE  SameEvents
    BY <2>1, StateSet DEF SameEvents
  <2>2. ASSUME NEW w \in Workers, MarkEventAsInProgress(w) \/ Publish(w)
        PROVE  SameEvents
    BY <2>1, <2>2, PublisherNumbers DEF MarkEventAsInProgress, Publish, database, SameEvents
  <2>3. ASSUME NEW w \in Workers, NEW s, SettlesEntry(w, s)
        PROVE  SameEvents
    BY <2>1, <2>3, PublisherNumbers DEF SettlesEntry, Settle
  <2> QED BY <2>2, <2>3, StepOnLog DEF LeavesLog, SameEvents
<1> QED BY <1>1, <1>2

LEMMA LoggedKept ==
  ASSUME SameEvents, NEW t, NEW a
  PROVE  Logged(t, a)' <=> Logged(t, a)
BY DEF SameEvents, Logged

LEMMA LoggedBySave ==
  ASSUME TypeInv, NEW w \in Workers, NEW value, NEW events, Saves(w, value, events), NEW t, NEW a
  PROVE  Logged(t, a)' <=>
             Logged(t, a) \/ \E k \in DOMAIN events : events[k].type = t /\ events[k].about = a
<1>1. events \in Seq(Entries) /\ outbox \in Seq(Entries) /\ outbox' = outbox \o events
  BY SavesFreshEntries DEF Saves, Save, TypeInv, TypeOK
<1>2. /\ \A i \in DOMAIN outbox : i \in DOMAIN outbox' /\ outbox'[i] = outbox[i]
      /\ \A i \in DOMAIN outbox' : i \notin DOMAIN outbox =>
                i - Len(outbox) \in DOMAIN events /\ outbox'[i] = events[i - Len(outbox)]
  BY <1>1, SaveAppends DEF Saves
<1>3. \A k \in DOMAIN events :
          k + Len(outbox) \in DOMAIN outbox' /\ outbox'[k + Len(outbox)] = events[k]
  BY <1>1
<1> QED BY <1>2, <1>3 DEF Logged

---------------------------------------------------------------------------
(***************************************************************************)
(* What a step can do to the queue and to the command of a worker.         *)
(***************************************************************************)
QueueStep == queue' = queue \/ (queue # <<>> /\ queue' = Tail(queue))

JobStep(w) ==
    \/ job'[w] \in {job[w], NoJob}
    \/ w \in Calls /\ job'[w] \in ApiRequests
    \/ w = Consumer /\ queue # <<>> /\ job'[w] = CommandFor(Head(queue))

LEMMA OrderingTakes ==
  ASSUME TypeInv, OrderingNext
  PROVE  QueueStep /\ \A w \in Workers : JobStep(w)
<1>0. job \in [Workers -> Jobs \cup {NoJob}] /\ queue \in Seq(Inbound) /\ Calls \subseteq Workers
      /\ Consumer \in Workers
  BY DEF TypeInv, TypeOK, Workers
<1> USE DEF QueueStep, JobStep
<1>1. ASSUME NEW c \in Calls, NEW r \in ApiRequests, CallApi(c, r)
      PROVE  QueueStep /\ \A w \in Workers : JobStep(w)
  BY <1>0, <1>1 DEF CallApi, Start
<1>2. CASE Receive
  BY <1>0, <1>2 DEF Receive, Start
<1>3. CASE Acknowledge
  <2>1. queue # <<>>
    BY <1>3 DEF Acknowledge, Finished, TypeInv, QueueOK
  <2> QED BY <1>0, <1>3, <2>1 DEF Acknowledge
<1>4. CASE Crash \/ Discard \/ Subscribe
  BY <1>0, <1>4 DEF Crash, Discard, Subscribe, context
<1>5. ASSUME NEW w \in Workers, Work(w) \/ Stops(w) \/ Faulty(w)
      PROVE  job' = job /\ queue' = queue
  <2>1. ASSUME NEW value, NEW events, Save(w, value, events) PROVE job' = job /\ queue' = queue
    BY <2>1 DEF Save, context
  <2>2. CASE Stops(w)
    BY <2>1, <2>2, StopsOnLog DEF Saves
  <2>3. CASE Faulty(w)
    BY <2>3 DEF Faulty, RetryAfterTransientError, CommitFails, MarkEventAsFailed, RetryAfterCommit,
                AbandonPublishing, RunAgain, GiveUp, Settle, context
  <2>4. CASE Work(w)
    BY <2>1, <2>4 DEF Work, DuplicateRequest, NewRequest, CreateRequest, RejectRequest, LoadOrder,
       ChangeStatus, OrderNotFound, SwallowException, RethrowException, CreateOrder,
       CreateOrderWithoutBuyer, CreateNoOrder, Commit, MarkEventAsInProgress, Publish,
       MarkEventAsPublished, Settle, GoTo, context
  <2> QED BY <1>5, <2>2, <2>3, <2>4
<1>6. CASE \E c \in Calls : Respond(c)
  BY <1>6 DEF Respond
<1> QED BY <1>1, <1>2, <1>3, <1>4, <1>5, <1>6 DEF OrderingNext

LEMMA JobsTaken ==
  ASSUME TypeInv, [Next]_vars
  PROVE  \A w \in Workers : JobStep(w)
BY OrderingTakes DEF Next, Deliver, context, vars, JobStep

---------------------------------------------------------------------------
(***************************************************************************)
(* Each stage once.  An order whose stage was announced is past the        *)
(* statuses before it, and so is the instance the consumer holds or saves: *)
(* the calls only ship and cancel, which leads back to no stage.  An order *)
(* and its start are announced in the transaction that records the request *)
(* id, and a row is inserted once.                                         *)
(***************************************************************************)
CallsAreHttp == \A c \in Calls : job[c].cmd \in HttpCommands \cup {"none"}

StartsAreRecorded ==
    \A i \in DOMAIN outbox :
        /\ outbox[i].type = "OrderStarted" => outbox[i].about \in requests
        /\ outbox[i].type = "Submitted" =>
               outbox[i].about \in Orders /\ status[outbox[i].about] # Absent

AnnouncedIsPassed ==
    \A o \in Orders, t \in ConsumerStages : Logged(t, o) => status[o] \notin Behind[t]

\* What the worker takes the order for: what it loaded or, once it has saved it, what it saved.
View(w) == IF Publishing(w) THEN Outcome(w).status ELSE seen[w]

ConsumerIsCurrent ==
    seen[Consumer] # Absent /\ pc[Consumer] # "reply" =>
        \A t \in ConsumerStages : Logged(t, job[Consumer].about) => View(Consumer) \notin Behind[t]

StageParts ==
    CallsAreHttp /\ StartsAreRecorded /\ AnnouncedIsPassed /\ ConsumerIsCurrent /\ EachStageOnce

StageInv == UniqueInv /\ StageParts

LEMMA CallsStayHttp ==
  ASSUME TypeInv, CallsAreHttp, [Next]_vars
  PROVE  CallsAreHttp'
<1>1. \A c \in Calls : c \in Workers /\ c # Consumer
  BY OrderingAssumption DEF Workers
<1>2. \A r \in ApiRequests : r.cmd \in HttpCommands
  BY OrderingAssumption
<1> QED BY <1>1, <1>2, JobsTaken DEF JobStep, CallsAreHttp, NoJob

\* What is known of an order that is being saved.
LEMMA ChangeFacts ==
  ASSUME UniqueInv, NEW w \in Workers, NEW events, OrderChanges(w, events)
  PROVE  /\ job[w].cmd \in StatusCommands /\ job[w].about \in Orders
         /\ seen[w] \in Statuses /\ status[job[w].about] # Absent
         /\ Outcome(w) = Apply(job[w].cmd, seen[w]) /\ Outcome(w).status \in Statuses
         /\ \A o \in Orders : o # job[w].about => status'[o] = status[o]
         /\ status'[job[w].about] =
                IF Outcome(w).status = seen[w] THEN status[job[w].about] ELSE Outcome(w).status
         /\ hasBuyer' = hasBuyer
         /\ \A k \in DOMAIN events :
                /\ k = 1 /\ ~Throws(w) /\ Outcome(w).event # NoEvent
                /\ events[k].type = Outcome(w).event /\ events[k].about = job[w].about
         /\ ~Throws(w) /\ Outcome(w).event # NoEvent /\ "statement" \notin FaultKinds => 1 \in DOMAIN events
<1>1. pc[w] = "commit" /\ job[w].cmd \in StatusCommands /\ seen[w] # Absent /\ WriteStatus(w)
  BY DEF OrderChanges, AtCommit
<1>2. job[w].about \in Orders /\ Outcome(w).status \in Statuses
  BY <1>1, OutcomeType DEF UniqueInv
<1>3. status \in [Orders -> Statuses \cup {Absent}] /\ seen[w] \in Statuses
  BY <1>1 DEF UniqueInv, TypeInv, TypeOK
<1>4. status[job[w].about] # Absent
  BY <1>1 DEF UniqueInv, SeenOK
<1>5. /\ events = <<>> \/ (events = EventsOf(w) /\ ~Throws(w))
      /\ "statement" \notin FaultKinds /\ ~Throws(w) => events = EventsOf(w)
  BY DEF OrderChanges
<1>6. \A k \in DOMAIN events :
          /\ k = 1 /\ ~Throws(w) /\ Outcome(w).event # NoEvent
          /\ events[k].type = Outcome(w).event /\ events[k].about = job[w].about
  BY <1>5 DEF EventsOf, Entry
<1>7. ~Throws(w) /\ Outcome(w).event # NoEvent /\ "statement" \notin FaultKinds => 1 \in DOMAIN events
  BY <1>5 DEF EventsOf
<1> QED BY <1>1, <1>2, <1>3, <1>4, <1>6, <1>7 DEF WriteStatus, Outcome

\* What COMMIT may add to the log.
LEMMA SavedKinds ==
  ASSUME UniqueInv, NEW w \in Workers, NEW value, NEW events, Saves(w, value, events)
  PROVE  /\ \A k \in DOMAIN events :
                \/ events[k].type \in Statuses \ {"Submitted"} /\ OrderChanges(w, events)
                \/ events[k].type = "OrderStarted" /\ events[k].about = job[w].about
                        /\ AtCommit(w, {"CreateOrder"})
                \/ events[k].type = "Submitted"
                        /\ \E o \in Orders : events[k].about = o /\ OrderComes(w, o, events)
         /\ \A k, l \in DOMAIN events : events[k].type = events[l].type => k = l
<1>1. CASE OrderChanges(w, events)
  <2>1. \A k \in DOMAIN events : k = 1 /\ events[k].type = Outcome(w).event /\ Outcome(w).event # NoEvent
    BY <1>1, ChangeFacts
  <2>2. Outcome(w).event \in {NoEvent, Target[job[w].cmd]} /\ job[w].cmd \in StatusCommands
    BY <1>1, ChangeFacts, ApplyFacts
  <2>3. Target[job[w].cmd] \in Statuses \ {"Submitted"}
    BY <2>2, TargetFacts
  <2> QED BY <1>1, <2>1, <2>2, <2>3
<1>2. CASE OrderStays(w, events)
  BY <1>2 DEF OrderStays, Started, Entry
<1>3. ASSUME NEW o \in Orders, OrderComes(w, o, events),
             events = <<Started(w), Entry("Submitted", o)>> \/ events = <<Started(w)>>
      PROVE  /\ \A k \in DOMAIN events :
                \/ events[k].type = "OrderStarted" /\ events[k].about = job[w].about
                \/ events[k].type = "Submitted" /\ events[k].about = o
             /\ \A k, l \in DOMAIN events : events[k].type = events[l].type => k = l
  BY <1>3 DEF Started, Entry
<1>4. ASSUME NEW o \in Orders, OrderComes(w, o, events)
      PROVE  AtCommit(w, {"CreateOrder"}) /\ (events = <<Started(w), Entry("Submitted", o)>> \/ events = <<Started(w)>>)
  BY <1>4 DEF OrderComes
<1> QED BY <1>1, <1>2, <1>3, <1>4 DEF Saves

\* Only the consumer announces its stages, and from the stage before.
LEMMA NewStage ==
  ASSUME StageInv, NEW w \in Workers, NEW value, NEW events, Saves(w, value, events),
         NEW k \in DOMAIN events, events[k].type \in ConsumerStages
  PROVE  /\ w = Consumer /\ OrderChanges(w, events)
         /\ Outcome(w).status = events[k].type
         /\ seen[w] = Before[events[k].type]
         /\ events[k].about = job[w].about
<1>1. events[k].type \in DOMAIN Before /\ events[k].type \notin {"OrderStarted", "Submitted"}
  BY TargetFacts
<1>2. OrderChanges(w, events)
  BY <1>1, SavedKinds DEF StageInv
<1>3. events[k].type = Outcome(w).event /\ events[k].about = job[w].about /\ Outcome(w).event # NoEvent
  BY <1>2, ChangeFacts DEF StageInv
<1>4. /\ job[w].cmd \in StatusCommands /\ Outcome(w).event \in {NoEvent, Target[job[w].cmd]}
      /\ Outcome(w).status = Outcome(w).event /\ seen[w] = Before[Outcome(w).event]
  BY <1>1, <1>2, <1>3, ChangeFacts, ApplyFacts DEF StageInv
<1>5. w \notin Calls
  <2>1. w \in Calls => job[w].cmd \in HttpCommands
    BY <1>4 DEF StageInv, StageParts, CallsAreHttp, StatusCommands
  <2>2. events[k].type \notin {"Shipped", "Cancelled"}
    BY DEF ConsumerStages
  <2> QED BY <1>3, <1>4, <2>1, <2>2, TargetFacts
<1> QED BY <1>2, <1>3, <1>4, <1>5 DEF Workers

\* What the consumer saves is not behind what was announced.
LEMMA ConsumerSavesForward ==
  ASSUME StageInv, seen[Consumer] # Absent, pc[Consumer] = "commit",
         NEW t \in ConsumerStages, Logged(t, job[Consumer].about)
  PROVE  seen[Consumer] \notin Behind[t] /\ Outcome(Consumer).status \notin Behind[t]
<1>1. seen[Consumer] \notin Behind[t]
  BY DEF StageInv, StageParts, ConsumerIsCurrent, View, Publishing
<1>2. Consumer \in Workers
  BY DEF Workers
<1>3. seen[Consumer] \in Statuses /\ job[Consumer].cmd \in StatusCommands
  BY <1>2 DEF StageInv, UniqueInv, TypeInv, TypeOK, JobsOK
<1>4. Outcome(Consumer).status \notin Behind[t]
  BY <1>1, <1>3, ApplyFacts DEF Outcome
<1> QED BY <1>1, <1>4

LEMMA CurrentSaves ==
  ASSUME StageInv, NEW w \in Workers, NEW value, NEW events, Saves(w, value, events)
  PROVE  ConsumerIsCurrent'
<1>0. TypeInv /\ Consumer \in Workers
  BY DEF StageInv, UniqueInv, Workers
<1>1. /\ job' = job /\ seen' = seen /\ pc[w] = "commit"
      /\ pc'[w] = "publish" /\ \A v \in Workers : v # w => pc'[v] = pc[v]
  BY <1>0 DEF Saves, Save, context, TypeInv, TypeOK
<1> SUFFICES ASSUME seen[Consumer] # Absent, pc'[Consumer] # "reply", NEW t \in ConsumerStages,
                    Logged(t, job[Consumer].about)'
             PROVE  View(Consumer)' \notin Behind[t]
  BY <1>1 DEF ConsumerIsCurrent
<1>2. View(Consumer)' = IF w = Consumer THEN Outcome(Consumer).status ELSE View(Consumer)
  BY <1>0, <1>1 DEF View, Outcome, Publishing
<1>3. CASE Logged(t, job[Consumer].about)
  <2>1. CASE w = Consumer
    BY <1>1, <1>2, <1>3, <2>1, ConsumerSavesForward
  <2>2. CASE w # Consumer
    BY <1>0, <1>1, <1>2, <1>3, <2>2 DEF StageInv, StageParts, ConsumerIsCurrent
  <2> QED BY <2>1, <2>2
<1>4. ASSUME NEW k \in DOMAIN events, events[k].type = t
      PROVE  View(Consumer)' \notin Behind[t]
  <2>1. w = Consumer /\ Outcome(w).status = t
    BY <1>4, NewStage
  <2> QED BY <1>2, <2>1, TargetFacts
<1>5. \/ Logged(t, job[Consumer].about)
      \/ \E k \in DOMAIN events : events[k].type = t /\ events[k].about = job[Consumer].about
  <2>1. PICK a : a = job[Consumer].about
    OBVIOUS
  <2>2. Logged(t, a)'
    BY <1>1, <2>1 DEF Logged
  <2> QED BY <1>0, <2>1, <2>2, LoggedBySave
<1> QED BY <1>3, <1>4, <1>5

LEMMA PassedSaves ==
  ASSUME StageInv, NEW w \in Workers, NEW value, NEW events, Saves(w, value, events)
  PROVE  AnnouncedIsPassed'
<1>0. UniqueInv /\ TypeInv
  BY DEF StageInv, UniqueInv
<1> SUFFICES ASSUME NEW o \in Orders, NEW t \in ConsumerStages, Logged(t, o)'
             PROVE  status'[o] \notin Behind[t]
  BY DEF AnnouncedIsPassed
<1>1. Logged(t, o) \/ \E k \in DOMAIN events : events[k].type = t /\ events[k].about = o
  BY <1>0, LoggedBySave
<1>2. Logged(t, o) => status[o] \notin Behind[t]
  BY DEF StageInv, StageParts, AnnouncedIsPassed
<1>3. CASE OrderChanges(w, events)
  <2>1. CASE \E k \in DOMAIN events : events[k].type = t /\ events[k].about = o
    <3>1. Outcome(w).status = t /\ seen[w] = Before[t] /\ o = job[w].about
      BY <2>1, NewStage
    <3>2. status'[o] = t
      BY <1>0, <1>3, <3>1, ChangeFacts, TargetFacts
    <3> QED BY <3>2, TargetFacts
  <2>2. CASE Logged(t, o)
    <3>1. CASE status'[o] = status[o]
      BY <1>2, <2>2, <3>1
    <3>2. CASE status'[o] # status[o]
      <4>1. /\ o = job[w].about /\ status'[o] = Outcome(w).status /\ Outcome(w).status # seen[w]
            /\ seen[w] \in Statuses /\ job[w].cmd \in StatusCommands
            /\ Outcome(w) = Apply(job[w].cmd, seen[w])
        BY <1>0, <1>3, <3>2, ChangeFacts
      <4>2. CASE w = Consumer
        <5>1. seen[w] # Absent /\ pc[w] = "commit"
          BY <1>3 DEF OrderChanges, AtCommit
        <5> QED BY <2>2, <4>1, <4>2, <5>1, ConsumerSavesForward
      <4>3. CASE w \in Calls
        <5>1. job[w].cmd \in HttpCommands
          BY <4>1, <4>3 DEF StageInv, StageParts, CallsAreHttp, StatusCommands
        <5>2. Outcome(w).status \in {"Shipped", "Cancelled"}
          BY <4>1, <5>1, ApplyFacts, TargetFacts
        <5> QED BY <4>1, <5>2 DEF Behind, ConsumerStages, Absent
      <4> QED BY <4>2, <4>3 DEF Workers
    <3> QED BY <3>1, <3>2
  <2> QED BY <1>1, <2>1, <2>2
<1>4. CASE ~OrderChanges(w, events)
  <2>1. Logged(t, o)
    BY <1>1, <1>4, NewStage
  <2>2. status'[o] = status[o] \/ status[o] = Absent
    BY <1>0, <1>4 DEF Saves, OrderStays, OrderComes, InsertOrder, TypeInv, TypeOK
  <2>3. status[o] # Absent
    BY <1>2, <2>1 DEF Behind, ConsumerStages
  <2> QED BY <1>2, <2>1, <2>2, <2>3
<1> QED BY <1>3, <1>4

LEMMA SavesKeepRows ==
  ASSUME UniqueInv, NEW w \in Workers, NEW value, NEW events, Saves(w, value, events)
  PROVE  \A o \in Orders : status[o] # Absent => status'[o] # Absent
<1>1. CASE OrderChanges(w, events)
  BY <1>1, ChangeFacts, AbsentIsNoStatus
<1>2. CASE OrderStays(w, events)
  BY <1>2 DEF OrderStays
<1>3. ASSUME NEW o \in Orders, OrderComes(w, o, events)
      PROVE  \A p \in Orders : status[p] # Absent => status'[p] # Absent
  BY <1>3 DEF OrderComes, InsertOrder, UniqueInv, TypeInv, TypeOK, Absent
<1> QED BY <1>1, <1>2, <1>3 DEF Saves

LEMMA RecordedSaves ==
  ASSUME StageInv, NEW w \in Workers, NEW value, NEW events, Saves(w, value, events)
  PROVE  StartsAreRecorded'
<1>0. UniqueInv /\ TypeInv /\ StartsAreRecorded
  BY DEF StageInv, StageParts, UniqueInv
<1>1. requests \subseteq requests' /\ \A o \in Orders : status[o] # Absent => status'[o] # Absent
  BY <1>0, SavesKeepRows DEF Saves, Save
<1>2. /\ \A i \in DOMAIN outbox : outbox'[i] = outbox[i]
      /\ \A i \in DOMAIN outbox' : i \notin DOMAIN outbox =>
             i - Len(outbox) \in DOMAIN events /\ outbox'[i] = events[i - Len(outbox)]
  BY <1>0, SavesFreshEntries, SaveAppends DEF Saves
<1>3. ASSUME NEW k \in DOMAIN events
      PROVE  /\ events[k].type = "OrderStarted" => events[k].about \in requests'
             /\ events[k].type = "Submitted" =>
                    events[k].about \in Orders /\ status'[events[k].about] # Absent
  <2>1. CASE events[k].type = "OrderStarted" /\ events[k].about = job[w].about /\ AtCommit(w, {"CreateOrder"})
    <3>1. job[w].req = events[k].about /\ events[k].about \in Requests
      BY <1>0, <2>1, JobFields DEF AtCommit
    <3> QED BY <2>1, <3>1, OrderingAssumption DEF Saves, Save
  <2>2. ASSUME NEW o \in Orders, events[k].type = "Submitted", events[k].about = o, OrderComes(w, o, events)
        PROVE  events[k].about \in Orders /\ status'[events[k].about] # Absent
    BY <1>0, <2>2 DEF OrderComes, InsertOrder, TypeInv, TypeOK, Absent
  <2>3. CASE events[k].type \in Statuses \ {"Submitted"}
    BY <2>3 DEF Statuses
  <2> QED BY <1>0, <2>1, <2>2, <2>3, SavedKinds
<1> QED BY <1>0, <1>1, <1>2, <1>3 DEF StartsAreRecorded

LEMMA OnceSaves ==
  ASSUME StageInv, NEW w \in Workers, NEW value, NEW events, Saves(w, value, events)
  PROVE  EachStageOnce'
<1> DEFINE Once == ConsumerStages \cup {"OrderStarted", "Submitted"}
<1>0. UniqueInv /\ TypeInv /\ StartsAreRecorded /\ EachStageOnce
  BY DEF StageInv, StageParts, UniqueInv
<1>1. /\ \A i \in DOMAIN outbox : i \in DOMAIN outbox' /\ outbox'[i] = outbox[i]
      /\ \A i \in DOMAIN outbox' : i \notin DOMAIN outbox =>
             i - Len(outbox) \in DOMAIN events /\ outbox'[i] = events[i - Len(outbox)]
  BY <1>0, SavesFreshEntries, SaveAppends DEF Saves
<1>2. ASSUME NEW k \in DOMAIN events, events[k].type \in Once
      PROVE  ~Logged(events[k].type, events[k].about)
  <2>1. CASE events[k].type \in ConsumerStages
    <3>1. /\ w = Consumer /\ seen[w] = Before[events[k].type] /\ events[k].about = job[w].about
          /\ OrderChanges(w, events)
      BY <2>1, NewStage
    <3>2. seen[w] # Absent /\ pc[w] = "commit"
      BY <3>1 DEF OrderChanges, AtCommit
    <3> QED BY <2>1, <3>1, <3>2, ConsumerSavesForward, TargetFacts
  <2>2. CASE events[k].type = "OrderStarted"
    <3>1. events[k].about = job[w].about /\ AtCommit(w, {"CreateOrder"})
      BY <1>0, <2>2, SavedKinds DEF Statuses
    <3>2. job[w].req = events[k].about /\ job[w].req \in Requests /\ pc[w] = "commit"
      BY <1>0, <3>1, JobFields DEF AtCommit
    <3>3. job[w].req \notin requests
      BY <3>2 DEF StageInv, UniqueInv, KeyInv, Holds
    <3> QED BY <1>0, <2>2, <3>2, <3>3 DEF StartsAreRecorded, Logged
  <2>3. CASE events[k].type = "Submitted"
    <3>1. PICK o \in Orders : events[k].about = o /\ OrderComes(w, o, events)
      BY <1>0, <2>3, SavedKinds
    <3>2. status[o] = Absent
      BY <3>1 DEF OrderComes, InsertOrder
    <3> QED BY <1>0, <2>3, <3>1, <3>2 DEF StartsAreRecorded, Logged
  <2> QED BY <1>2, <2>1, <2>2, <2>3
<1> SUFFICES ASSUME NEW i \in DOMAIN outbox', NEW j \in DOMAIN outbox',
                    outbox'[i].type = outbox'[j].type, outbox'[i].about = outbox'[j].about,
                    outbox'[i].type \in Once
             PROVE  i = j
  BY DEF EachStageOnce
<1>3. CASE i \in DOMAIN outbox /\ j \in DOMAIN outbox
  BY <1>0, <1>1, <1>3 DEF EachStageOnce
<1>4. CASE i \notin DOMAIN outbox /\ j \notin DOMAIN outbox
  <2>1. i - Len(outbox) = j - Len(outbox)
    BY <1>0, <1>1, <1>4, SavedKinds
  <2>2. i \in Nat /\ j \in Nat /\ Len(outbox) \in Nat
    <3>1. outbox \in Seq(Entries) /\ events \in Seq(Entries)
      BY <1>0, SavesFreshEntries DEF TypeInv, TypeOK
    <3>2. DOMAIN outbox' = 1 .. Len(outbox) + Len(events)
      BY <1>0, <3>1, SaveAppends DEF Saves
    <3> QED BY <3>1, <3>2
  <2> QED BY <2>1, <2>2
<1>5. CASE i \in DOMAIN outbox /\ j \notin DOMAIN outbox
  BY <1>1, <1>2, <1>5 DEF Logged
<1>6. CASE i \notin DOMAIN outbox /\ j \in DOMAIN outbox
  BY <1>1, <1>2, <1>6 DEF Logged
<1> QED BY <1>3, <1>4, <1>5, <1>6

LEMMA StageLeft ==
  ASSUME StageInv, SameEvents, SameRows, \A v \in Workers : ContextStep(v)
  PROVE  StartsAreRecorded' /\ AnnouncedIsPassed' /\ ConsumerIsCurrent' /\ EachStageOnce'
<1> USE DEF StageInv, StageParts
<1>1. StartsAreRecorded' /\ EachStageOnce'
  BY DEF SameEvents, SameRows, StartsAreRecorded, EachStageOnce
<1>2. AnnouncedIsPassed'
  BY LoggedKept DEF SameRows, AnnouncedIsPassed
<1>3. ConsumerIsCurrent'
  <2> SUFFICES ASSUME seen'[Consumer] # Absent, pc'[Consumer] # "reply", NEW t \in ConsumerStages,
                      NEW a, a = job'[Consumer].about, Logged(t, a)'
               PROVE  View(Consumer)' \notin Behind[t]
    BY DEF ConsumerIsCurrent, Logged
  <2>0. Consumer \in Workers /\ ~ContextCleared(Consumer)
    BY DEF Workers, ContextCleared
  <2>1. job'[Consumer] = job[Consumer]
    BY <2>0 DEF ContextStep, ContextKept, OrderLoaded, RunsAgain
  <2>2. Logged(t, job[Consumer].about)
    BY <2>1, LoggedKept
  <2>3. CASE ContextKept(Consumer)
    <3>1. View(Consumer)' = View(Consumer) /\ seen[Consumer] # Absent /\ pc[Consumer] # "reply"
      BY <2>3 DEF ContextKept, View, Outcome
    <3> QED BY <2>2, <3>1 DEF ConsumerIsCurrent
  <2>4. CASE OrderLoaded(Consumer)
    <3>1. View(Consumer)' = status[job[Consumer].about] /\ job[Consumer].about \in Orders
      BY <2>4 DEF OrderLoaded, View, Publishing
    <3> QED BY <2>2, <3>1 DEF AnnouncedIsPassed
  <2>5. CASE RunsAgain(Consumer)
    <3>1. View(Consumer)' = Outcome(Consumer).status /\ seen[Consumer] # Absent
      BY <2>5 DEF RunsAgain, View, Publishing
    <3>2. CASE Publishing(Consumer)
      BY <2>2, <3>1, <3>2 DEF ConsumerIsCurrent, View, Publishing
    <3>3. CASE pc[Consumer] = "commit"
      BY <2>2, <3>1, <3>3, ConsumerSavesForward
    <3> QED BY <2>5, <3>2, <3>3 DEF RunsAgain
  <2> QED BY <2>0, <2>3, <2>4, <2>5 DEF ContextStep
<1> QED BY <1>1, <1>2, <1>3

LEMMA StageInit == Init => StageInv
<1> SUFFICES ASSUME Init PROVE StageInv
  OBVIOUS
<1>1. UniqueInv
  BY TypeInit, KeyInit DEF UniqueInv, Init, SeenOK
<1>2. /\ outbox = <<>> /\ \A w \in Workers : seen[w] = Absent /\ job[w].cmd = "none"
      /\ Calls \subseteq Workers /\ Consumer \in Workers
  BY DEF Init, NoJob, Workers
<1>3. StageParts
  BY <1>2 DEF StageParts, CallsAreHttp, StartsAreRecorded, AnnouncedIsPassed, ConsumerIsCurrent,
              EachStageOnce, Logged
<1> QED BY <1>1, <1>3 DEF StageInv

LEMMA StageNext == StageInv /\ [Next]_vars => StageInv'
<1> SUFFICES ASSUME StageInv, [Next]_vars PROVE StageInv'
  OBVIOUS
<1>1. UniqueInv' /\ TypeInv
  BY UniqueNext DEF StageInv, UniqueInv
<1>2. CallsAreHttp'
  BY <1>1, CallsStayHttp DEF StageInv, StageParts
<1>3. StartsAreRecorded' /\ AnnouncedIsPassed' /\ ConsumerIsCurrent' /\ EachStageOnce'
  BY <1>1, RecordedSaves, PassedSaves, CurrentSaves, OnceSaves, StageLeft, StepKinds
<1> QED BY <1>1, <1>2, <1>3 DEF StageInv, StageParts

\* The events that make another service act are logged at most once per order, whatever is
\* delivered twice, read late or retried, a statement of the transaction that fails included.
THEOREM EachStageOnceCorrect == Spec => []EachStageOnce
<1>1. StageInv => EachStageOnce
  BY DEF StageInv, StageParts
<1> QED BY <1>1, StageInit, StageNext, PTL DEF Spec

---------------------------------------------------------------------------
(***************************************************************************)
(* No stage skipped, no status without its event, as long as no statement  *)
(* fails inside an identified command.  Both follow from what a worker     *)
(* knows: the status of the instance it tracks was announced, or is the    *)
(* one its own command has just given the instance, from which that        *)
(* command announces no further stage.                                     *)
(***************************************************************************)

\* The statuses from which there is a next stage.
Chain == {"Submitted", "AwaitingValidation", "StockConfirmed", "Paid"}

SeenIsAnnounced ==
    \A w \in Workers :
        seen[w] \in Chain /\ hasBuyer[job[w].about] =>
            Logged(seen[w], job[w].about) \/ seen[w] = Target[job[w].cmd]

EventParts == SeenIsAnnounced /\ StatusHasItsEvent /\ NoStageSkipped

EventInv == UniqueInv /\ EventParts

LEMMA ChainFacts ==
  /\ \A t \in DOMAIN Before : Before[t] \in Chain
  /\ Chain \subseteq Statuses \ {"Cancelled"} /\ Absent \notin Chain
BY DEF Before, Chain, Statuses, Absent

LEMMA SeenSaves ==
  ASSUME EventInv, NEW w \in Workers, NEW value, NEW events, Saves(w, value, events)
  PROVE  SeenIsAnnounced'
<1>0. UniqueInv /\ TypeInv
  BY DEF EventInv, UniqueInv
<1>1. job' = job /\ seen' = seen
  BY DEF Saves, Save, context
<1> SUFFICES ASSUME NEW v \in Workers, seen[v] \in Chain, hasBuyer'[job[v].about],
                    seen[v] # Target[job[v].cmd], NEW s, NEW a, s = seen[v], a = job[v].about
             PROVE  Logged(s, a)'
  BY <1>1 DEF SeenIsAnnounced, Logged
<1>2. a \in Orders /\ status[a] # Absent
  BY <1>0, ChainFacts DEF UniqueInv, SeenOK
<1>3. hasBuyer[a]
  BY <1>0, <1>2 DEF Saves, OrderChanges, WriteStatus, OrderStays, OrderComes, InsertOrder, TypeInv, TypeOK
<1>4. Logged(s, a)
  BY <1>3 DEF EventInv, EventParts, SeenIsAnnounced
<1> QED BY <1>0, <1>4, LoggedBySave

\* Whoever announces a next stage loaded an order of which the stage before was announced.
LEMMA AnnouncesNext ==
  ASSUME EventInv, NEW w \in Workers, NEW events, OrderChanges(w, events), ~Throws(w),
         Outcome(w).event \in DOMAIN Before
  PROVE  Logged(Before[Outcome(w).event], job[w].about)
<1>1. /\ job[w].cmd \in StatusCommands /\ seen[w] \in Statuses
      /\ Outcome(w) = Apply(job[w].cmd, seen[w])
  BY ChangeFacts DEF EventInv
<1>2. Outcome(w).event # NoEvent
  BY DEF Before, NoEvent
<1>3. seen[w] = Before[Outcome(w).event] /\ Outcome(w).event = Target[job[w].cmd]
  BY <1>1, <1>2, ApplyFacts
<1>4. seen[w] \in Chain /\ seen[w] # Target[job[w].cmd]
  BY <1>3, ChainFacts, TargetFacts
<1>5. hasBuyer[job[w].about]
  BY <1>2 DEF Throws
<1> QED BY <1>3, <1>4, <1>5 DEF EventInv, EventParts, SeenIsAnnounced

LEMMA SkipSaves ==
  ASSUME EventInv, NEW w \in Workers, NEW value, NEW events, Saves(w, value, events)
  PROVE  NoStageSkipped'
<1>0. UniqueInv /\ TypeInv /\ NoStageSkipped
  BY DEF EventInv, EventParts, UniqueInv
<1>1. /\ DOMAIN outbox' = 1 .. Len(outbox) + Len(events)
      /\ \A i \in DOMAIN outbox : i \in DOMAIN outbox' /\ outbox'[i] = outbox[i]
      /\ \A i \in DOMAIN outbox' : i \notin DOMAIN outbox =>
             i - Len(outbox) \in DOMAIN events /\ outbox'[i] = events[i - Len(outbox)]
  BY <1>0, SavesFreshEntries, SaveAppends DEF Saves
<1>2. /\ DOMAIN outbox = 1 .. Len(outbox) /\ Len(outbox) \in Nat /\ Len(events) \in Nat
  BY <1>0, PublisherNumbers, SavesFreshEntries
<1> SUFFICES ASSUME NEW j \in DOMAIN outbox', outbox'[j].type \in DOMAIN Before
             PROVE  \E i \in 1 .. j - 1 : /\ outbox'[i].type = Before[outbox'[j].type]
                                           /\ outbox'[i].about = outbox'[j].about
  BY DEF NoStageSkipped
<1>3. CASE j \in DOMAIN outbox
  <2>1. PICK i \in 1 .. j - 1 : /\ outbox[i].type = Before[outbox[j].type]
                                /\ outbox[i].about = outbox[j].about
    BY <1>0, <1>1, <1>3 DEF NoStageSkipped
  <2>2. i \in DOMAIN outbox
    BY <1>2, <1>3
  <2> QED BY <1>1, <1>3, <2>1, <2>2
<1>4. CASE j \notin DOMAIN outbox
  <2>1. PICK k \in DOMAIN events : outbox'[j] = events[k]
    BY <1>1, <1>4
  <2>2. OrderChanges(w, events)
    BY <1>0, <2>1, SavedKinds, TargetFacts
  <2>3. /\ events[k].type = Outcome(w).event /\ events[k].about = job[w].about /\ ~Throws(w)
    BY <1>0, <2>1, <2>2, ChangeFacts
  <2>4. Logged(Before[events[k].type], events[k].about)
    BY <2>1, <2>2, <2>3, AnnouncesNext
  <2>5. PICK i \in DOMAIN outbox : outbox[i].type = Before[events[k].type] /\ outbox[i].about = events[k].about
    BY <2>4 DEF Logged
  <2>6. i \in 1 .. j - 1
    BY <1>1, <1>2, <1>4, <2>5
  <2> QED BY <1>1, <2>1, <2>5, <2>6
<1> QED BY <1>3, <1>4

LEMMA StatusSaves ==
  ASSUME EventInv, "statement" \notin FaultKinds,
         NEW w \in Workers, NEW value, NEW events, Saves(w, value, events)
  PROVE  StatusHasItsEvent'
<1>0. UniqueInv /\ TypeInv /\ StatusHasItsEvent
  BY DEF EventInv, EventParts, UniqueInv
<1>1. \A t, a : Logged(t, a) => Logged(t, a)'
  BY <1>0, LoggedBySave
<1> SUFFICES ASSUME NEW o \in Orders, status'[o] # Absent, hasBuyer'[o], NEW s, s = status'[o]
             PROVE  Logged(s, o)' \/ (s = "Cancelled" /\ Logged("AwaitingValidation", o)')
  BY DEF StatusHasItsEvent, Logged
<1>2. CASE status'[o] = status[o] /\ hasBuyer[o]
  BY <1>0, <1>1, <1>2 DEF StatusHasItsEvent
<1>3. CASE OrderChanges(w, events) /\ ~(status'[o] = status[o])
  <2>1. /\ o = job[w].about /\ s = Outcome(w).status /\ s # seen[w] /\ hasBuyer[o]
        /\ job[w].cmd \in StatusCommands /\ seen[w] \in Statuses
        /\ Outcome(w) = Apply(job[w].cmd, seen[w])
    BY <1>0, <1>3, ChangeFacts
  <2>2. ~Throws(w)
    BY <2>1, ApplyFacts DEF Throws
  <2>3. CASE Outcome(w).event = NoEvent
    <3>1. seen[w] = "AwaitingValidation" /\ s = "Cancelled" /\ Target[job[w].cmd] = s
      BY <2>1, <2>3, ApplyFacts
    <3>2. Logged("AwaitingValidation", o)
      BY <2>1, <3>1 DEF EventInv, EventParts, SeenIsAnnounced, Chain
    <3> QED BY <1>1, <3>1, <3>2
  <2>4. CASE Outcome(w).event # NoEvent
    <3>1. s = Outcome(w).event
      BY <2>1, <2>4, ApplyFacts
    <3>2. 1 \in DOMAIN events /\ events[1].type = s /\ events[1].about = o
      BY <1>0, <1>3, <2>1, <2>2, <2>4, <3>1, ChangeFacts
    <3> QED BY <1>0, <3>2, LoggedBySave
  <2> QED BY <2>3, <2>4
<1>4. ASSUME NEW p \in Orders, OrderComes(w, p, events), ~(status'[o] = status[o] /\ hasBuyer[o])
      PROVE  Logged(s, o)'
  <2>1. o = p /\ s = "Submitted"
    BY <1>0, <1>4 DEF OrderComes, InsertOrder, TypeInv, TypeOK
  <2>2. events = <<Started(w), Entry("Submitted", o)>>
    BY <1>0, <1>4, <2>1 DEF OrderComes, InsertOrder, TypeInv, TypeOK
  <2>3. 2 \in DOMAIN events /\ events[2].type = s /\ events[2].about = o
    BY <2>1, <2>2 DEF Entry
  <2> QED BY <1>0, <2>3, LoggedBySave
<1>5. OrderChanges(w, events) \/ OrderStays(w, events) => hasBuyer' = hasBuyer
  BY DEF OrderChanges, WriteStatus, OrderStays
<1>6. OrderStays(w, events) => status' = status
  BY DEF OrderStays
<1> QED BY <1>2, <1>3, <1>4, <1>5, <1>6 DEF Saves

LEMMA EventLeft ==
  ASSUME EventInv, SameEvents, SameRows, \A v \in Workers : ContextStep(v)
  PROVE  EventParts'
<1> USE DEF EventInv, EventParts
<1>1. StatusHasItsEvent'
  BY LoggedKept DEF SameRows, StatusHasItsEvent
<1>2. NoStageSkipped'
  <2>1. \A j \in DOMAIN outbox : 1 .. j - 1 \subseteq DOMAIN outbox
    BY DEF UniqueInv, TypeInv, TypeOK
  <2> QED BY <2>1 DEF SameEvents, NoStageSkipped
<1>3. SeenIsAnnounced'
  <2> SUFFICES ASSUME NEW w \in Workers, seen'[w] \in Chain, hasBuyer[job'[w].about],
                      seen'[w] # Target[job'[w].cmd], NEW s, NEW a, s = seen'[w], a = job'[w].about
               PROVE  Logged(s, a)
    BY LoggedKept DEF SameRows, SeenIsAnnounced
  <2>1. ~ContextCleared(w)
    BY ChainFacts DEF ContextCleared
  <2>2. CASE ContextKept(w)
    BY <2>2 DEF ContextKept, SeenIsAnnounced
  <2>3. CASE OrderLoaded(w)
    <3>1. s = status[a] /\ a \in Orders /\ s \in Chain /\ hasBuyer[a]
      BY <2>3 DEF OrderLoaded
    <3> QED BY <3>1, ChainFacts DEF StatusHasItsEvent
  <2>4. CASE RunsAgain(w)
    <3>1. /\ a = job[w].about /\ s = Outcome(w).status /\ seen[w] # Absent /\ job'[w] = job[w]
      BY <2>4 DEF RunsAgain
    <3>2. seen[w] \in Statuses /\ job[w].cmd \in StatusCommands
      BY <3>1 DEF UniqueInv, TypeInv, TypeOK, JobsOK
    <3>3. s = seen[w] \/ s = Target[job[w].cmd]
      BY <3>1, <3>2, ApplyFacts DEF Outcome
    <3> QED BY <3>1, <3>3 DEF SeenIsAnnounced
  <2> QED BY <2>1, <2>2, <2>3, <2>4 DEF ContextStep
<1> QED BY <1>1, <1>2, <1>3

LEMMA EventInit == Init => EventInv
<1> SUFFICES ASSUME Init PROVE EventInv
  OBVIOUS
<1>1. UniqueInv
  BY TypeInit, KeyInit DEF UniqueInv, Init, SeenOK
<1>2. /\ outbox = <<>> /\ \A w \in Workers : seen[w] = Absent
      /\ \A o \in Orders : status[o] = Absent
  BY DEF Init
<1> QED BY <1>1, <1>2, ChainFacts DEF EventInv, EventParts, SeenIsAnnounced, StatusHasItsEvent, NoStageSkipped

LEMMA EventNext ==
  ASSUME "statement" \notin FaultKinds
  PROVE  EventInv /\ [Next]_vars => EventInv'
<1> SUFFICES ASSUME EventInv, [Next]_vars PROVE EventInv'
  OBVIOUS
<1>1. UniqueInv' /\ TypeInv
  BY UniqueNext DEF EventInv, UniqueInv
<1>2. EventParts'
  BY <1>1, SeenSaves, SkipSaves, StatusSaves, EventLeft, StepKinds DEF EventParts
<1> QED BY <1>1, <1>2 DEF EventInv

LEMMA EventsCorrect ==
  ASSUME "statement" \notin FaultKinds
  PROVE  Spec => []EventInv
BY EventInit, EventNext, PTL DEF Spec

\* No stage is skipped: an order is not paid before its stock was confirmed, nor shipped before
\* it was paid, whatever another transaction wrote meanwhile.
THEOREM NoStageSkippedCorrect ==
  ASSUME "statement" \notin FaultKinds
  PROVE  Spec => []NoStageSkipped
<1>1. EventInv => NoStageSkipped
  BY DEF EventInv, EventParts
<1> QED BY <1>1, EventsCorrect, PTL

\* A status is never committed without the event that tells of it, but for a silent cancellation
\* and an order without buyer.
THEOREM StatusHasItsEventCorrect ==
  ASSUME "statement" \notin FaultKinds
  PROVE  Spec => []StatusHasItsEvent
<1>1. EventInv => StatusHasItsEvent
  BY DEF EventInv, EventParts
<1> QED BY <1>1, EventsCorrect, PTL
=============================================================================
