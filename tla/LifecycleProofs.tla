-------------------------- MODULE LifecycleProofs --------------------------
(***************************************************************************)
(* Ordering implements OrderLifecycle: for every set of orders, requests   *)
(* and calls, every number of crashes and every order of deliveries, each  *)
(* change of an order is one stage of its life, logged with the change.    *)
(***************************************************************************)
EXTENDS OrderingLogProofs, InductionLemmas, SequenceTheorems

---------------------------------------------------------------------------
(***************************************************************************)
(* The history a log tells of an order.                                    *)
(***************************************************************************)
IsHistory(f, log, o) ==
    /\ f \in [0 .. Len(log) -> Seq(EventTypes)]
    /\ f[0] = <<>>
    /\ \A n \in 1 .. Len(log) :
          f[n] = IF log[n].about = o THEN Append(f[n - 1], log[n].type) ELSE f[n - 1]

LEMMA HistoryExists ==
  ASSUME NEW log \in Seq(Entries), NEW o
  PROVE  \E f : IsHistory(f, log, o) /\ History(log, o) = f[Len(log)]
<1> DEFINE S         == Seq(EventTypes)
           Add(n, h) == IF n \in 1 .. Len(log) /\ log[n].about = o THEN Append(h, log[n].type) ELSE h
           step      == [x \in Nat \X S |-> Add(x[1], x[2])]
           Told(u)   == [n \in 0 .. Len(log) |->
                             IF n = 0 THEN <<>>
                             ELSE IF log[n].about = o THEN Append(u[n - 1], log[n].type)
                             ELSE u[n - 1]]
           upTo      == CHOOSE u : u = Told(u)
<1>1. Len(log) \in Nat /\ \A n \in 1 .. Len(log) : log[n].type \in EventTypes
  <2>1. Len(log) \in Nat /\ \A n \in 1 .. Len(log) : log[n] \in Entries
    OBVIOUS
  <2> QED BY <2>1 DEF Entries
<1>2. ASSUME NEW n \in Nat, NEW h \in S PROVE Add(n, h) \in S
  <2>1. \A t \in EventTypes : Append(h, t) \in S
    OBVIOUS
  <2> HIDE DEF S
  <2>2. CASE n \in 1 .. Len(log) /\ log[n].about = o
    <3>1. log[n].type \in EventTypes
      BY <1>1, <2>2
    <3> QED BY <2>1, <2>2, <3>1
  <2>3. CASE ~(n \in 1 .. Len(log) /\ log[n].about = o)
    BY <2>3
  <2> QED BY <2>2, <2>3
<1>3. IsStep(step, S) /\ <<>> \in S
  BY <1>2 DEF IsStep
<1>4. PICK f : f \in Approximations(S, <<>>, step, Len(log))
  <2> HIDE DEF S, step
  <2> QED BY <1>1, <1>3, ApproximationsExist
<1>5. IsHistory(f, log, o)
  <2>1. f \in [0 .. Len(log) -> S] /\ f[0] = <<>>
    BY <1>4 DEF Approximations
  <2>2. ASSUME NEW n \in 1 .. Len(log) PROVE f[n] = Add(n, f[n - 1])
    <3>1. f[n - 1] \in S /\ n \in Nat
      BY <1>1, <2>1
    <3>2. f[n] = step[<<n, f[n - 1]>>]
      BY <1>4 DEF Approximations
    <3> QED BY <3>1, <3>2
  <2> QED BY <2>1, <2>2 DEF IsHistory
<1>6. f = Told(f)
  <2>1. ASSUME NEW n \in 0 .. Len(log) PROVE f[n] = Told(f)[n]
    <3>1. CASE n = 0
      BY <1>5, <3>1 DEF IsHistory
    <3>2. CASE n # 0
      <4>1. n \in 1 .. Len(log)
        BY <1>1, <3>2
      <4>2. f[n] = IF log[n].about = o THEN Append(f[n - 1], log[n].type) ELSE f[n - 1]
        BY <1>5, <4>1 DEF IsHistory
      <4> QED BY <3>2, <4>2
    <3> QED BY <3>1, <3>2
  <2>2. f = [n \in 0 .. Len(log) |-> f[n]]
    BY <1>5 DEF IsHistory
  <2>3. Told(f) = [n \in 0 .. Len(log) |-> Told(f)[n]]
    OBVIOUS
  <2> HIDE DEF Told
  <2> QED BY <2>1, <2>2, <2>3
<1>7. upTo = Told(upTo)
  BY <1>6
<1>8. History(log, o) = upTo[Len(log)]
  BY DEF History
<1> HIDE DEF upTo
<1> DEFINE P == {n \in Nat : n <= Len(log) => upTo[n] = f[n]}
<1>9. 0 \in P
  BY <1>1, <1>5, <1>7 DEF IsHistory
<1>10. ASSUME NEW n \in Nat, n \in P PROVE n + 1 \in P
  <2>1. SUFFICES ASSUME n + 1 <= Len(log) PROVE upTo[n + 1] = f[n + 1]
    OBVIOUS
  <2>2. upTo[n] = f[n] /\ n + 1 \in 1 .. Len(log) /\ (n + 1) - 1 = n
    BY <1>1, <1>10, <2>1
  <2>3. f[n + 1] = IF log[n + 1].about = o THEN Append(f[n], log[n + 1].type) ELSE f[n]
    BY <1>5, <2>2 DEF IsHistory
  <2>4. n + 1 \in 0 .. Len(log) /\ n + 1 # 0
    BY <1>1, <2>2
  <2>5. Told(upTo)[n + 1] = IF log[n + 1].about = o THEN Append(upTo[n], log[n + 1].type) ELSE upTo[n]
    BY <2>2, <2>4
  <2> QED BY <1>7, <2>2, <2>3, <2>5
<1> HIDE DEF P
<1>11. Nat \subseteq P
  BY <1>9, <1>10, NatSetInduction
<1>12. upTo[Len(log)] = f[Len(log)]
  BY <1>1, <1>11 DEF P
<1> QED BY <1>5, <1>8, <1>12

\* Logs that tell the same up to n have the same histories up to n.
LEMMA HistoriesAgree ==
  ASSUME NEW log \in Seq(Entries), NEW more \in Seq(Entries), NEW o,
         NEW f, IsHistory(f, log, o), NEW g, IsHistory(g, more, o),
         NEW k \in Nat, k <= Len(log), k <= Len(more),
         \A n \in 1 .. k : log[n].type = more[n].type /\ log[n].about = more[n].about
  PROVE  f[k] = g[k]
<1> DEFINE P == {n \in Nat : n <= k => f[n] = g[n]}
<1>1. 0 \in P
  BY DEF IsHistory
<1>2. ASSUME NEW n \in Nat, n \in P PROVE n + 1 \in P
  <2>1. SUFFICES ASSUME n + 1 <= k PROVE f[n + 1] = g[n + 1]
    OBVIOUS
  <2>2. /\ f[n] = g[n] /\ n + 1 \in 1 .. k /\ (n + 1) - 1 = n
        /\ n + 1 \in 1 .. Len(log) /\ n + 1 \in 1 .. Len(more)
    BY <1>2, <2>1
  <2>3. f[n + 1] = IF log[n + 1].about = o THEN Append(f[n], log[n + 1].type) ELSE f[n]
    BY <2>2 DEF IsHistory
  <2>4. g[n + 1] = IF more[n + 1].about = o THEN Append(g[n], more[n + 1].type) ELSE g[n]
    BY <2>2 DEF IsHistory
  <2> QED BY <2>2, <2>3, <2>4
<1> HIDE DEF P
<1>3. Nat \subseteq P
  BY <1>1, <1>2, NatSetInduction
<1> QED BY <1>3 DEF P

LEMMA HistoryStays ==
  ASSUME NEW log \in Seq(Entries), NEW same \in Seq(Entries), NEW o, Len(same) = Len(log),
         \A n \in 1 .. Len(log) : log[n].type = same[n].type /\ log[n].about = same[n].about
  PROVE  History(same, o) = History(log, o)
<1>1. Len(log) \in Nat
  OBVIOUS
<1>2. PICK f : IsHistory(f, log, o) /\ History(log, o) = f[Len(log)]
  BY HistoryExists
<1>3. PICK g : IsHistory(g, same, o) /\ History(same, o) = g[Len(log)]
  BY HistoryExists
<1> QED BY <1>1, <1>2, <1>3, HistoriesAgree

LEMMA HistoryEmpty == ASSUME NEW o PROVE History(<<>>, o) = <<>>
<1>1. <<>> \in Seq(Entries) /\ Len(<<>>) = 0
  OBVIOUS
<1>2. PICK f : IsHistory(f, <<>>, o) /\ History(<<>>, o) = f[Len(<<>>)]
  BY <1>1, HistoryExists
<1> QED BY <1>1, <1>2 DEF IsHistory

\* One more entry tells one status more of the order it is about, and nothing of another.
LEMMA HistoryGrows ==
  ASSUME NEW log \in Seq(Entries), NEW e \in Entries, NEW o
  PROVE  History(Append(log, e), o) =
             IF e.about = o THEN Append(History(log, o), e.type) ELSE History(log, o)
<1> DEFINE more == Append(log, e)
           k    == Len(log)
<1>1. /\ k \in Nat /\ more \in Seq(Entries) /\ Len(more) = k + 1 /\ more[k + 1] = e
      /\ \A n \in 1 .. k : more[n] = log[n]
  OBVIOUS
<1> HIDE DEF more, k
<1>2. PICK f : IsHistory(f, log, o) /\ History(log, o) = f[k]
  BY HistoryExists DEF k
<1>3. PICK g : IsHistory(g, more, o) /\ History(more, o) = g[k + 1]
  BY <1>1, HistoryExists
<1>4. g[k] = f[k]
  BY <1>1, <1>2, <1>3, HistoriesAgree DEF k
<1>5. k + 1 \in 1 .. Len(more) /\ (k + 1) - 1 = k
  BY <1>1
<1>6. g[k + 1] = IF e.about = o THEN Append(g[k], e.type) ELSE g[k]
  BY <1>1, <1>3, <1>5 DEF IsHistory
<1> QED BY <1>2, <1>3, <1>4, <1>6 DEF more

LEMMA HistoryOfOne ==
  ASSUME NEW log \in Seq(Entries), NEW e \in Entries, NEW o
  PROVE  History(log \o <<e>>, o) =
             IF e.about = o THEN Append(History(log, o), e.type) ELSE History(log, o)
<1> DEFINE more == Append(log, e)
<1>1. log \o <<e>> = more
  BY AppendIsConcat
<1>2. History(more, o) = IF e.about = o THEN Append(History(log, o), e.type) ELSE History(log, o)
  BY HistoryGrows
<1> HIDE DEF more
<1> QED BY <1>1, <1>2

LEMMA TwoInSequence ==
  ASSUME NEW E, NEW d \in E, NEW e \in E
  PROVE  <<d, e>> = <<d>> \o <<e>>
<1> DEFINE both == <<d, e>>
           one  == <<d>> \o <<e>>
<1>1. <<d>> \in Seq(E) /\ <<e>> \in Seq(E)
  OBVIOUS
<1>2. both \in Seq(E) /\ Len(both) = 2 /\ both[1] = d /\ both[2] = e
  OBVIOUS
<1>3. one \in Seq(E) /\ Len(one) = 2 /\ one[1] = d /\ one[2] = e
  BY <1>1, ConcatProperties
<1> HIDE DEF both, one
<1>4. both = one
  BY <1>2, <1>3, SeqEqual
<1> QED BY <1>4 DEF both, one

LEMMA HistoryOfTwo ==
  ASSUME NEW log \in Seq(Entries), NEW d \in Entries, NEW e \in Entries, NEW o, d.about # o
  PROVE  History(log \o <<d, e>>, o) = History(log \o <<e>>, o)
<1> DEFINE more == Append(log, d)
           both == log \o <<d, e>>
<1>1. more \in Seq(Entries) /\ <<d>> \in Seq(Entries) /\ <<e>> \in Seq(Entries)
  OBVIOUS
<1>2. both = more \o <<e>>
  <2>1. log \o (<<d>> \o <<e>>) = (log \o <<d>>) \o <<e>>
    BY <1>1, ConcatAssociative
  <2>2. <<d, e>> = <<d>> \o <<e>>
    BY TwoInSequence
  <2>3. more = log \o <<d>>
    BY AppendIsConcat
  <2> QED BY <2>1, <2>2, <2>3, Zenon
<1>3. History(more, o) = History(log, o)
  BY HistoryGrows
<1>4. History(log \o <<e>>, o) =
          IF e.about = o THEN Append(History(log, o), e.type) ELSE History(log, o)
  BY HistoryOfOne
<1> HIDE DEF more
<1>5. History(more \o <<e>>, o) =
          IF e.about = o THEN Append(History(more, o), e.type) ELSE History(more, o)
  BY <1>1, HistoryOfOne
<1> HIDE DEF both
<1>6. History(both, o) = History(log \o <<e>>, o)
  <2> DEFINE next1 == more \o <<e>>
  <2>1. History(next1, o) = History(log \o <<e>>, o)
    BY <1>3, <1>4, <1>5
  <2> HIDE DEF next1
  <2> QED BY <1>2, <2>1 DEF next1
<1> QED BY <1>6 DEF both

---------------------------------------------------------------------------
(***************************************************************************)
(* The conditions: no COMMIT is repeated and no statement fails inside an  *)
(* identified command, every order gets its buyer, and the calls only      *)
(* ship, each order under one request id.  Each is needed: the service     *)
(* breaks the lifecycle when a call cancels what it read earlier, when the *)
(* same order is shipped under two ids at once, when a transaction is      *)
(* repeated on the context of the failed one, when an exception is         *)
(* swallowed.                                                              *)
(***************************************************************************)
Undisturbed ==
    /\ FaultKinds \cap {"commit", "statement"} = {}
    /\ \A r \in Requests : CheckoutKind[r] # "cardExpires"
    /\ \A r \in ApiRequests : r.cmd = "ShipOrder"
    /\ \A q, r \in ApiRequests : q.about = r.about => q.req = r.req

(***************************************************************************)
(* What the consumer takes its order for is the truth, but that a call may *)
(* have shipped it; what a call is about to ship is paid.                  *)
(***************************************************************************)
JobsShip ==
    /\ job[Consumer].cmd # "ShipOrder"
    /\ \A c \in Calls : job[c] \in ApiRequests \cup {NoJob}

BuyersKnown == \A o \in Orders : status[o] # Absent => hasBuyer[o]

Agrees(view, s) == view = s \/ (view = "Paid" /\ s = "Shipped")

ConsumerAgrees ==
    seen[Consumer] # Absent /\ pc[Consumer] # "reply" =>
        Agrees(View(Consumer), status[job[Consumer].about])

\* A call that comes back after its COMMIT finds its request id.
CallsLoadOnce ==
    \A c \in Calls :
        seen[c] # Absent => pc[c] \in {"commit", "reply"} \/ job[c].req \in requests

ShipmentIsDue ==
    \A c \in Calls : pc[c] = "commit" /\ seen[c] = "Paid" => status[job[c].about] = "Paid"

LifeParts == JobsShip /\ BuyersKnown /\ ConsumerAgrees /\ CallsLoadOnce /\ ShipmentIsDue

LifeInv == UniqueInv /\ LifeParts

---------------------------------------------------------------------------
(***************************************************************************)
(* COMMIT is a step of the lifecycle.                                      *)
(***************************************************************************)

\* Nothing but shipping changes a paid order, and shipping changes nothing else.
LEMMA ApplyToPaid ==
  ASSUME NEW cmd \in StatusCommands, NEW s \in Statuses, (cmd = "ShipOrder") # (s = "Paid")
  PROVE  Apply(cmd, s).status = s /\ Apply(cmd, s).event = NoEvent
<1> USE DEF Keeps, Moves, StatusChangeException
<1>1. CASE cmd = "ShipOrder"
  BY <1>1 DEF Apply, SetShippedStatus
<1>2. CASE s = "Paid" /\ cmd # "ShipOrder"
  BY <1>2 DEF Apply, StatusCommands, SetAwaitingValidationStatus, SetStockConfirmedStatus,
     SetCancelledStatusWhenStockIsRejected, SetPaidStatus, SetCancelledStatus
<1> QED BY <1>1, <1>2

\* A command that does something does it to the status the order has.
LEMMA ActsOnTruth ==
  ASSUME LifeInv, Undisturbed, NEW w \in Workers, NEW events, OrderChanges(w, events),
         Outcome(w).status # seen[w] \/ Outcome(w).event # NoEvent
  PROVE  seen[w] = status[job[w].about]
<1>1. /\ job[w].cmd \in StatusCommands /\ seen[w] \in Statuses /\ pc[w] = "commit"
      /\ Outcome(w) = Apply(job[w].cmd, seen[w])
  BY ChangeFacts DEF LifeInv, OrderChanges, AtCommit
<1>2. job[w].cmd = "ShipOrder" <=> seen[w] = "Paid"
  BY <1>1, ApplyToPaid
<1>3. CASE w \in Calls
  <2>1. job[w] \in ApiRequests
    BY <1>1, <1>3 DEF LifeInv, LifeParts, JobsShip, NoJob, StatusCommands
  <2> QED BY <1>1, <1>2, <1>3, <2>1 DEF LifeInv, LifeParts, ShipmentIsDue, Undisturbed
<1>4. CASE w = Consumer
  <2>1. Agrees(seen[w], status[job[w].about])
    BY <1>1, <1>4, AbsentIsNoStatus DEF LifeInv, LifeParts, ConsumerAgrees, View, Publishing
  <2>2. seen[w] # "Paid"
    BY <1>2, <1>4 DEF LifeInv, LifeParts, JobsShip
  <2> QED BY <2>1, <2>2 DEF Agrees
<1> QED BY <1>3, <1>4 DEF Workers

LEMMA ThrowsNothing ==
  ASSUME NEW cmd \in StatusCommands, NEW s \in Statuses, Apply(cmd, s).throws
  PROVE  Apply(cmd, s).event = NoEvent
BY DEF Apply, StatusCommands, Keeps, Moves, StatusChangeException, SetAwaitingValidationStatus,
   SetStockConfirmedStatus, SetCancelledStatusWhenStockIsRejected, SetPaidStatus, SetCancelledStatus,
   SetShippedStatus

\* The events of a method, and from where each is raised.
LEMMA ApplyEvents ==
  ASSUME NEW cmd \in StatusCommands, NEW s \in Statuses, Apply(cmd, s).event # NoEvent
  PROVE  LET t == Apply(cmd, s).event
         IN  /\ Apply(cmd, s).status = t
             /\ \/ t \in DOMAIN Before /\ s = Before[t]
                \/ t = "Cancelled" /\ s \in {"Submitted", "AwaitingValidation", "StockConfirmed", "Cancelled"}
<1> USE DEF Keeps, Moves, StatusChangeException, Statuses, NoEvent, Before
<1>1. CASE cmd = "SetAwaitingValidation"
  BY <1>1 DEF Apply, SetAwaitingValidationStatus
<1>2. CASE cmd = "SetStockConfirmed"
  BY <1>2 DEF Apply, SetStockConfirmedStatus
<1>3. CASE cmd = "SetStockRejected"
  BY <1>3 DEF Apply, SetCancelledStatusWhenStockIsRejected
<1>4. CASE cmd = "SetPaid"
  BY <1>4 DEF Apply, SetPaidStatus
<1>5. CASE cmd = "ShipOrder"
  BY <1>5 DEF Apply, SetShippedStatus
<1>6. CASE cmd = "CancelOrder"
  BY <1>6 DEF Apply, SetCancelledStatus
<1> QED BY <1>1, <1>2, <1>3, <1>4, <1>5, <1>6 DEF StatusCommands

\* What one new entry about an order tells.
LEMMA Tells ==
  ASSUME TypeInv, NEW o \in Orders, NEW t \in EventTypes,
         status' = [status EXCEPT ![o] = t],
         \A p \in Orders : History(outbox', p) = History(outbox \o <<Entry(t, o)>>, p)
  PROVE  Lifecycle!Enter(o, t)
<1>1. outbox \in Seq(Entries) /\ Entry(t, o) \in Entries
  BY EntryType DEF TypeInv, TypeOK
<1>2. Entry(t, o).about = o /\ Entry(t, o).type = t
  BY DEF Entry
<1>3. ASSUME NEW p \in Orders
      PROVE  History(outbox', p) = IF p = o THEN Append(History(outbox, p), t) ELSE History(outbox, p)
  BY <1>1, <1>2, HistoryOfOne
<1> QED BY <1>3 DEF Lifecycle!Enter

LEMMA Silent ==
  ASSUME \A p \in Orders : History(outbox', p) = History(outbox, p)
  PROVE  [p \in Orders |-> History(outbox, p)]' = [p \in Orders |-> History(outbox, p)]
OBVIOUS

LEMMA ChangeIsStep ==
  ASSUME LifeInv, Undisturbed, NEW w \in Workers, NEW value, NEW events,
         Save(w, value, events), OrderChanges(w, events)
  PROVE  Lifecycle!Next \/ UNCHANGED Lifecycle!vars
<1> DEFINE o == job[w].about
           t == Outcome(w).event
<1>0. UniqueInv /\ TypeInv
  BY DEF LifeInv, UniqueInv
<1>1. /\ job[w].cmd \in StatusCommands /\ o \in Orders /\ seen[w] \in Statuses /\ status[o] # Absent
      /\ Outcome(w) = Apply(job[w].cmd, seen[w])
  BY <1>0, ChangeFacts
<1>2. hasBuyer[o]
  BY <1>1 DEF LifeInv, LifeParts, BuyersKnown
<1>3. WriteStatus(w) /\ outbox' = outbox \o events /\ outbox \in Seq(Entries)
      /\ status \in [Orders -> Statuses \cup {Absent}]
  BY <1>0 DEF OrderChanges, Save, TypeInv, TypeOK
<1>4. CASE t = NoEvent
  <2>1. events = <<>>
    BY <1>4 DEF OrderChanges, EventsOf
  <2>2. outbox' = outbox
    BY <1>3, <2>1
  <2>3. CASE Outcome(w).status = seen[w]
    BY <1>3, <2>2, <2>3 DEF WriteStatus, Lifecycle!vars
  <2>4. CASE Outcome(w).status # seen[w]
    <3>1. seen[w] = "AwaitingValidation" /\ Outcome(w).status = "Cancelled"
      BY <1>1, <1>4, <2>4, ApplyFacts
    <3>2. status[o] = "AwaitingValidation"
      BY <2>4, <3>1, ActsOnTruth
    <3>3. status' = [status EXCEPT ![o] = "Cancelled"]
      BY <1>3, <2>4, <3>1 DEF WriteStatus
    <3>4. Lifecycle!RejectStock(o)
      BY <2>2, <3>2, <3>3 DEF Lifecycle!RejectStock
    <3> QED BY <1>1, <3>4 DEF Lifecycle!Next
  <2> QED BY <2>3, <2>4
<1>5. CASE t # NoEvent
  <2>1. /\ Outcome(w).status = t /\ t \in Statuses
        /\ \/ t \in DOMAIN Before /\ seen[w] = Before[t]
           \/ t = "Cancelled" /\ seen[w] \in {"Submitted", "AwaitingValidation", "StockConfirmed", "Cancelled"}
    BY <1>1, <1>5, ApplyEvents, ApplyType DEF Outcomes
  <2>2. seen[w] = status[o]
    BY <1>5, ActsOnTruth
  <2>3. events = <<Entry(t, o)>>
    <3>1. ~Throws(w)
      <4>1. Outcome(w).throws => Outcome(w).event = NoEvent
        BY <1>1, ThrowsNothing
      <4> QED BY <1>2, <1>5, <4>1 DEF Throws
    <3> QED BY <1>5, <3>1 DEF OrderChanges, EventsOf, Undisturbed
  <2>4. status' = [status EXCEPT ![o] = t]
    <3>1. CASE t = seen[w]
      <4>1. status' = status /\ status[o] = t
        BY <1>3, <2>1, <2>2, <3>1 DEF WriteStatus
      <4> QED BY <1>1, <1>3, <4>1
    <3>2. CASE t # seen[w]
      BY <1>3, <2>1, <3>2 DEF WriteStatus
    <3> QED BY <3>1, <3>2
  <2>5. Lifecycle!Enter(o, t)
    <3>1. \A p \in Orders : History(outbox', p) = History(outbox \o <<Entry(t, o)>>, p)
      BY <1>3, <2>3
    <3> QED BY <1>0, <1>1, <2>1, <2>4, <3>1, Tells DEF EventTypes
  <2>6. CASE t \in DOMAIN Before /\ seen[w] = Before[t]
    <3>1. t \in DOMAIN Lifecycle!Predecessor /\ status[o] = Lifecycle!Predecessor[t]
      BY <2>2, <2>6 DEF Before, Lifecycle!Predecessor
    <3> QED BY <1>1, <2>5, <3>1 DEF Lifecycle!Next, Lifecycle!Advance
  <2>7. CASE t = "Cancelled" /\ seen[w] \in {"Submitted", "AwaitingValidation", "StockConfirmed", "Cancelled"}
    BY <1>1, <2>2, <2>5, <2>7 DEF Lifecycle!Next, Lifecycle!Cancel
  <2> QED BY <2>1, <2>6, <2>7
<1> QED BY <1>4, <1>5

LEMMA CreationIsStep ==
  ASSUME LifeInv, Undisturbed, NEW w \in Workers, NEW value, NEW events, NEW o \in Orders,
         Save(w, value, events), OrderComes(w, o, events)
  PROVE  Lifecycle!Next
<1>0. TypeInv
  BY DEF LifeInv, UniqueInv
<1>1. AtCommit(w, {"CreateOrder"})
  BY DEF OrderComes
<1>2. job[w].about \in Requests /\ \A p \in Orders : job[w].about # p
  BY <1>0, <1>1, JobFields, OrderingAssumption DEF AtCommit
<1>3. events = <<Started(w), Entry("Submitted", o)>>
  BY <1>2 DEF OrderComes, Undisturbed
<1>4. status[o] = Absent /\ status' = [status EXCEPT ![o] = "Submitted"]
  BY DEF OrderComes, InsertOrder
<1>5. outbox \in Seq(Entries) /\ outbox' = outbox \o <<Started(w), Entry("Submitted", o)>>
  BY <1>0, <1>3 DEF TypeInv, TypeOK, Save
<1>6. Started(w) \in Entries /\ Entry("Submitted", o) \in Entries /\ Started(w).about = job[w].about
  BY <1>2, EntryType DEF Started, Entry, EventTypes, Statuses
<1>7. ASSUME NEW p \in Orders
      PROVE  History(outbox', p) = History(outbox \o <<Entry("Submitted", o)>>, p)
  BY <1>2, <1>5, <1>6, HistoryOfTwo
<1>8. Lifecycle!Enter(o, "Submitted")
  BY <1>0, <1>4, <1>7, Tells DEF EventTypes, Statuses
<1>9. "Submitted" \in DOMAIN Lifecycle!Predecessor /\ Lifecycle!Predecessor["Submitted"] = Absent
  BY DEF Lifecycle!Predecessor, Absent
<1> QED BY <1>4, <1>8, <1>9 DEF Lifecycle!Next, Lifecycle!Advance

LEMMA StayIsStutter ==
  ASSUME LifeInv, NEW w \in Workers, NEW value, NEW events,
         Save(w, value, events), OrderStays(w, events)
  PROVE  UNCHANGED Lifecycle!vars
<1>0. TypeInv
  BY DEF LifeInv, UniqueInv
<1>1. outbox \in Seq(Entries) /\ outbox' = outbox \o events /\ status' = status
  BY <1>0 DEF TypeInv, TypeOK, Save, OrderStays
<1>2. CASE events = <<>>
  BY <1>1, <1>2 DEF Lifecycle!vars
<1>3. CASE AtCommit(w, {"CreateOrder"}) /\ events = <<Started(w)>>
  <2>1. job[w].about \in Requests /\ \A p \in Orders : job[w].about # p
    BY <1>0, <1>3, JobFields, OrderingAssumption DEF AtCommit
  <2>2. Started(w) \in Entries /\ Started(w).about = job[w].about
    BY <2>1, EntryType DEF Started, Entry, EventTypes
  <2>3. \A p \in Orders : History(outbox', p) = History(outbox, p)
    BY <1>1, <1>3, <2>1, <2>2, HistoryOfOne
  <2> QED BY <1>1, <2>3, Silent DEF Lifecycle!vars
<1> QED BY <1>2, <1>3 DEF OrderStays

LEMMA RestIsStutter ==
  ASSUME TypeInv, TypeInv', SameEvents, SameRows
  PROVE  UNCHANGED Lifecycle!vars
<1>1. outbox \in Seq(Entries) /\ outbox' \in Seq(Entries) /\ DOMAIN outbox' = DOMAIN outbox
  BY DEF TypeInv, TypeOK, SameEvents
<1>2. Len(outbox') = Len(outbox)
  <2>1. /\ Len(outbox) \in Nat /\ Len(outbox') \in Nat
        /\ DOMAIN outbox = 1 .. Len(outbox) /\ DOMAIN outbox' = 1 .. Len(outbox')
    BY <1>1
  <2>2. \A n \in Nat : n \in 1 .. Len(outbox') <=> n \in 1 .. Len(outbox)
    BY <1>1, <2>1
  <2>3. Len(outbox') <= Len(outbox)
    BY <2>1, <2>2
  <2>4. Len(outbox) <= Len(outbox')
    BY <2>1, <2>2
  <2>5. \A m, n \in Nat : m <= n /\ n <= m => m = n
    OBVIOUS
  <2> QED BY <2>1, <2>3, <2>4, <2>5, Zenon
<1>3. \A n \in 1 .. Len(outbox) : outbox'[n].type = outbox[n].type /\ outbox'[n].about = outbox[n].about
  BY <1>1 DEF SameEvents
<1>4. \A p \in Orders : History(outbox', p) = History(outbox, p)
  BY <1>1, <1>2, <1>3, HistoryStays
<1> QED BY <1>4, Silent DEF SameRows, Lifecycle!vars

LEMMA StepIsStep ==
  ASSUME LifeInv, LifeInv', Undisturbed, [Next]_vars
  PROVE  [Lifecycle!Next]_(Lifecycle!vars)
<1>0. TypeInv /\ TypeInv'
  BY DEF LifeInv, UniqueInv
<1>1. ASSUME NEW w \in Workers, NEW value, NEW events, Saves(w, value, events)
      PROVE  [Lifecycle!Next]_(Lifecycle!vars)
  BY <1>1, ChangeIsStep, CreationIsStep, StayIsStutter DEF Saves
<1>2. CASE ~\E w \in Workers : \E value, events : Saves(w, value, events)
  BY <1>0, <1>2, StepKinds, RestIsStutter
<1> QED BY <1>1, <1>2

LEMMA LifecycleInit == Init => Lifecycle!Init
<1> SUFFICES ASSUME Init PROVE Lifecycle!Init
  OBVIOUS
<1>1. \A p \in Orders : History(outbox, p) = <<>>
  BY HistoryEmpty DEF Init
<1> QED BY <1>1 DEF Init, Lifecycle!Init, Absent

---------------------------------------------------------------------------
(***************************************************************************)
(* The invariant is inductive.                                             *)
(***************************************************************************)
LEMMA LifeInit == Init => LifeInv
<1> SUFFICES ASSUME Init PROVE LifeInv
  OBVIOUS
<1>1. UniqueInv
  BY TypeInit, KeyInit DEF UniqueInv, Init, SeenOK
<1>2. /\ Calls \subseteq Workers /\ Consumer \in Workers
      /\ \A w \in Workers : seen[w] = Absent /\ job[w] = NoJob /\ pc[w] = "idle"
      /\ \A o \in Orders : status[o] = Absent
  BY DEF Init, Workers
<1>3. LifeParts
  BY <1>2 DEF LifeParts, JobsShip, BuyersKnown, ConsumerAgrees, CallsLoadOnce, ShipmentIsDue, NoJob
<1> QED BY <1>1, <1>3 DEF LifeInv

LEMMA JobsShipNext ==
  ASSUME LifeInv, Undisturbed, [Next]_vars
  PROVE  JobsShip'
<1>0. TypeInv /\ JobsShip
  BY DEF LifeInv, LifeParts, UniqueInv
<1>1. \A c \in Calls : c \in Workers /\ c # Consumer
  BY OrderingAssumption DEF Workers
<1>2. Consumer \in Workers /\ Consumer \notin Calls
  BY OrderingAssumption DEF Workers
<1>3. ASSUME queue # <<>> PROVE CommandFor(Head(queue)).cmd # "ShipOrder"
  <2>1. Head(queue) \in Inbound
    BY <1>0, <1>3 DEF TypeInv, TypeOK
  <2>2. Head(queue).type \in InboundTypes
    BY <2>1 DEF Inbound, InboundTypes
  <2> QED BY <2>2 DEF CommandFor, InboundTypes
<1> QED BY <1>0, <1>1, <1>2, <1>3, JobsTaken DEF JobStep, JobsShip, NoJob

\* What a COMMIT leaves in place.
LEMMA LifeSaves ==
  ASSUME LifeInv, UniqueInv', Undisturbed,
         NEW w \in Workers, NEW value, NEW events, Saves(w, value, events)
  PROVE  BuyersKnown' /\ ConsumerAgrees' /\ CallsLoadOnce' /\ ShipmentIsDue'
<1>0. TypeInv /\ UniqueInv
  BY DEF LifeInv, UniqueInv
<1> USE DEF LifeInv, LifeParts
<1>1. /\ job' = job /\ seen' = seen /\ pc[w] = "commit"
      /\ pc'[w] = "publish" /\ \A v \in Workers : v # w => pc'[v] = pc[v]
      /\ requests' = requests \cup ({job[w].req} \ {NoRequest})
  BY <1>0 DEF Saves, Save, context, TypeInv, TypeOK
<1>2. BuyersKnown'
  <2>1. CASE OrderChanges(w, events)
    BY <1>0, <2>1, ChangeFacts, AbsentIsNoStatus DEF BuyersKnown
  <2>2. CASE OrderStays(w, events)
    BY <2>2 DEF OrderStays, BuyersKnown
  <2>3. ASSUME NEW o \in Orders, OrderComes(w, o, events) PROVE BuyersKnown'
    <3>1. job[w].about \in Requests
      BY <1>0, <2>3, JobFields DEF OrderComes, AtCommit
    <3> QED BY <1>0, <2>3, <3>1
            DEF OrderComes, InsertOrder, Undisturbed, BuyersKnown, TypeInv, TypeOK
  <2> QED BY <2>1, <2>2, <2>3 DEF Saves
<1>3. CallsLoadOnce'
  <2> SUFFICES ASSUME NEW c \in Calls, seen[c] # Absent
               PROVE  pc'[c] \in {"commit", "reply"} \/ job[c].req \in requests'
    BY <1>1 DEF CallsLoadOnce
  <2>1. c \in Workers
    BY DEF Workers
  <2>2. CASE c = w
    <3>1. job[c] \in Jobs
      BY <1>0, <1>1, <2>1, <2>2 DEF TypeInv, JobsOK
    <3>2. job[c] \in ApiRequests
      BY <3>1 DEF JobsShip, NoJob, Jobs, StatusCommands
    <3>3. job[c].req # NoRequest
      BY <3>2, OrderingAssumption
    <3> QED BY <1>1, <2>2, <3>3
  <2>3. CASE c # w
    BY <1>1, <2>1, <2>3 DEF CallsLoadOnce
  <2> QED BY <2>2, <2>3
<1>4. ShipmentIsDue'
  <2> SUFFICES ASSUME NEW c \in Calls, pc'[c] = "commit", seen[c] = "Paid"
               PROVE  status'[job[c].about] = "Paid"
    BY <1>1 DEF ShipmentIsDue
  <2> DEFINE o == job[c].about
  <2>1. c \in Workers /\ c # w /\ pc[c] = "commit" /\ status[o] = "Paid"
    BY <1>1 DEF Workers, ShipmentIsDue
  <2>2. job[c] \in ApiRequests /\ o \in Orders
    <3>1. job[c] \in Jobs
      BY <1>0, <2>1 DEF TypeInv, JobsOK
    <3> QED BY <3>1, OrderingAssumption DEF JobsShip, NoJob, Jobs, StatusCommands
  <2>3. CASE OrderChanges(w, events)
    <3>1. SUFFICES ASSUME status'[o] # "Paid" PROVE FALSE
      OBVIOUS
    <3>2. /\ o = job[w].about /\ Outcome(w).status # seen[w] /\ seen[w] \in Statuses
          /\ job[w].cmd \in StatusCommands /\ Outcome(w) = Apply(job[w].cmd, seen[w])
      BY <1>0, <2>1, <2>2, <2>3, <3>1, ChangeFacts
    <3>3. seen[w] = "Paid"
      BY <2>1, <2>3, <3>2, ActsOnTruth
    <3>4. job[w].cmd = "ShipOrder"
      BY <3>2, <3>3, ApplyToPaid
    <3>5. w \in Calls /\ job[w] \in ApiRequests
      BY <3>4 DEF JobsShip, NoJob, Workers
    <3>6. job[w].req = job[c].req /\ job[w].req \in Requests
      BY <2>2, <3>2, <3>5, OrderingAssumption DEF Undisturbed
    <3> QED BY <1>0, <1>1, <2>1, <3>6 DEF UniqueInv, KeyInv, Holds
  <2>4. CASE OrderStays(w, events)
    BY <2>1, <2>4 DEF OrderStays
  <2>5. ASSUME NEW p \in Orders, OrderComes(w, p, events) PROVE status'[o] = "Paid"
    BY <1>0, <2>1, <2>2, <2>5 DEF OrderComes, InsertOrder, TypeInv, TypeOK, Absent
  <2> QED BY <2>3, <2>4, <2>5 DEF Saves
<1>5. ConsumerAgrees'
  <2> SUFFICES ASSUME seen[Consumer] # Absent, pc'[Consumer] # "reply"
               PROVE  Agrees(View(Consumer)', status'[job[Consumer].about])
    BY <1>1 DEF ConsumerAgrees
  <2> DEFINE o == job[Consumer].about
  <2>1. /\ Consumer \in Workers /\ pc[Consumer] # "reply" /\ Agrees(View(Consumer), status[o])
        /\ o \in Orders /\ status[o] # Absent
    BY <1>0, <1>1 DEF Workers, ConsumerAgrees, UniqueInv, SeenOK
  <2>2. View(Consumer)' = IF w = Consumer THEN Outcome(Consumer).status ELSE View(Consumer)
    BY <1>0, <1>1, <2>1 DEF View, Outcome, Publishing
  <2>3. CASE w = Consumer
    <3>1. OrderChanges(w, events)
      <4>1. job[w].cmd \in StatusCommands
        BY <1>0, <2>1, <2>3 DEF TypeInv, JobsOK
      <4> QED BY <2>3, <4>1 DEF Saves, OrderStays, OrderComes, AtCommit, StatusCommands, Undisturbed
    <3>2. View(Consumer) = seen[Consumer]
      BY <1>1, <2>3 DEF View, Publishing
    <3>3. status'[o] = IF Outcome(w).status = seen[w] THEN status[o] ELSE Outcome(w).status
      BY <1>0, <2>3, <3>1, ChangeFacts
    <3> QED BY <2>1, <2>2, <2>3, <3>2, <3>3 DEF Agrees
  <2>4. CASE w # Consumer
    <3>1. CASE status'[o] = status[o]
      BY <2>1, <2>2, <2>4, <3>1
    <3>2. CASE OrderChanges(w, events) /\ status'[o] # status[o]
      <4>1. /\ o = job[w].about /\ Outcome(w).status # seen[w] /\ seen[w] \in Statuses
            /\ status'[o] = Outcome(w).status /\ Outcome(w) = Apply(job[w].cmd, seen[w])
            /\ job[w].cmd \in StatusCommands
        BY <1>0, <2>1, <3>2, ChangeFacts
      <4>2. w \in Calls /\ job[w].cmd = "ShipOrder"
        BY <2>4, <4>1 DEF Workers, JobsShip, NoJob, StatusCommands, Undisturbed
      <4>3. seen[w] = "Paid" /\ seen[w] = status[o]
        BY <3>2, <4>1, <4>2, ApplyToPaid, ActsOnTruth
      <4>4. status'[o] = "Shipped"
        BY <4>1, <4>2, ApplyFacts DEF Target
      <4> QED BY <2>1, <2>2, <2>4, <4>3, <4>4 DEF Agrees
    <3>3. ASSUME NEW p \in Orders, OrderComes(w, p, events) PROVE status'[o] = status[o]
      BY <1>0, <2>1, <3>3 DEF OrderComes, InsertOrder, TypeInv, TypeOK
    <3> QED BY <3>1, <3>2, <3>3 DEF Saves, OrderStays
  <2> QED BY <2>3, <2>4
<1> QED BY <1>2, <1>3, <1>4, <1>5

\* What every other step leaves in place.
LEMMA LifeLeft ==
  ASSUME LifeInv, UniqueInv', JobsShip', Undisturbed,
         SameRows, \A v \in Workers : ContextStep(v)
  PROVE  BuyersKnown' /\ ConsumerAgrees' /\ CallsLoadOnce' /\ ShipmentIsDue'
<1> USE DEF LifeInv, LifeParts
<1>0. Consumer \in Workers /\ Calls \subseteq Workers
  BY DEF Workers
<1>1. BuyersKnown'
  BY DEF SameRows, BuyersKnown
<1>2. ConsumerAgrees'
  <2> SUFFICES ASSUME seen'[Consumer] # Absent, pc'[Consumer] # "reply", NEW o, o = job'[Consumer].about
               PROVE  Agrees(View(Consumer)', status[o])
    BY DEF ConsumerAgrees, SameRows
  <2>1. ~ContextCleared(Consumer)
    BY DEF ContextCleared
  <2>2. CASE ContextKept(Consumer)
    BY <2>2 DEF ContextKept, View, Outcome, ConsumerAgrees
  <2>3. CASE OrderLoaded(Consumer)
    BY <2>3 DEF OrderLoaded, View, Publishing, Agrees
  <2>4. CASE RunsAgain(Consumer)
    BY <2>4 DEF RunsAgain, View, Publishing, ConsumerAgrees, Undisturbed
  <2> QED BY <1>0, <2>1, <2>2, <2>3, <2>4 DEF ContextStep
<1>3. ASSUME NEW c \in Calls, seen'[c] # Absent, ~OrderLoaded(c)
      PROVE  /\ job'[c] = job[c]
             /\ \/ pc[c] = "commit" /\ pc'[c] \in {"commit", "reply"} /\ seen'[c] = seen[c]
                \/ pc[c] = "reply" /\ pc'[c] = "reply"
                \/ job[c].req \in requests
  <2>1. ~ContextCleared(c) /\ c \in Workers
    BY <1>0, <1>3 DEF ContextCleared
  <2>2. CASE ContextKept(c)
    BY <1>3, <2>2 DEF ContextKept, CallsLoadOnce
  <2>3. CASE RunsAgain(c)
    BY <2>3 DEF RunsAgain, CallsLoadOnce, Publishing, Undisturbed
  <2> QED BY <1>3, <2>1, <2>2, <2>3 DEF ContextStep
<1>4. CallsLoadOnce'
  BY <1>3 DEF SameRows, CallsLoadOnce, OrderLoaded
<1>5. ShipmentIsDue'
  <2> SUFFICES ASSUME NEW c \in Calls, pc'[c] = "commit", seen'[c] = "Paid", NEW o, o = job'[c].about
               PROVE  status[o] = "Paid"
    BY DEF ShipmentIsDue, SameRows
  <2>1. job'[c] \in Jobs
    BY <1>0 DEF UniqueInv, TypeInv, JobsOK
  <2>2. job'[c].req \in Requests
    BY <2>1, OrderingAssumption DEF JobsShip, NoJob, Jobs, StatusCommands
  <2>3. job'[c].req \notin requests'
    BY <1>0, <2>2 DEF UniqueInv, KeyInv, Holds
  <2>4. CASE OrderLoaded(c)
    BY <2>4 DEF OrderLoaded
  <2>5. CASE ~OrderLoaded(c)
    BY <1>3, <2>3, <2>5 DEF SameRows, ShipmentIsDue, Absent
  <2> QED BY <2>4, <2>5
<1> QED BY <1>1, <1>2, <1>4, <1>5

LEMMA LifeNext ==
  ASSUME Undisturbed
  PROVE  LifeInv /\ [Next]_vars => LifeInv'
<1> SUFFICES ASSUME LifeInv, [Next]_vars PROVE LifeInv'
  OBVIOUS
<1>1. UniqueInv' /\ TypeInv
  BY UniqueNext DEF LifeInv, UniqueInv
<1>2. JobsShip'
  BY JobsShipNext
<1>3. BuyersKnown' /\ ConsumerAgrees' /\ CallsLoadOnce' /\ ShipmentIsDue'
  BY <1>1, <1>2, LifeSaves, LifeLeft, StepKinds
<1> QED BY <1>1, <1>2, <1>3 DEF LifeInv, LifeParts

\* The service implements OrderLifecycle: duplicated, late and stale messages, repeated
\* publications, calls that ship meanwhile and crashes included, an order goes through its
\* stages one by one, and each change is logged in the transaction that makes it (Order.cs,
\* TransactionBehaviour, the domain event handlers).
THEOREM ImplementsLifecycleCorrect ==
  ASSUME Undisturbed
  PROVE  Spec => ImplementsLifecycle
<1>1. LifeInv /\ LifeInv' /\ [Next]_vars => [Lifecycle!Next]_(Lifecycle!vars)
  BY StepIsStep
<1>2. LifeInv /\ [Next]_vars => LifeInv'
  BY LifeNext
<1> QED BY <1>1, <1>2, LifeInit, LifecycleInit, PTL DEF Spec, ImplementsLifecycle, Lifecycle!Spec
=============================================================================
