--------------------------- MODULE OrderAggregate ---------------------------
(***************************************************************************)
(* The Order aggregate root of Ordering.Domain: the status an order can    *)
(* have and what every Set...Status method of Order.cs does to it.  A      *)
(* method is an operator from the status the in-memory instance has to an  *)
(* outcome: the status it has afterwards, the domain event the method adds *)
(* to the instance, and whether the method threw instead.                  *)
(***************************************************************************)

\* OrderStatus.cs; a row that does not exist has the status Absent.
Statuses == {"Submitted", "AwaitingValidation", "StockConfirmed",
             "Paid", "Shipped", "Cancelled"}

Absent == "Absent"

\* A status change that raises no domain event.
NoEvent == "NoEvent"

Outcomes == [status : Statuses, event : Statuses \cup {NoEvent}, throws : BOOLEAN]

\* The method's condition did not hold: no assignment, no event, no exception.
Keeps(s)  == [status |-> s, event |-> NoEvent, throws |-> FALSE]

\* The status is assigned and the domain event of the new status is added.
Moves(to) == [status |-> to, event |-> to, throws |-> FALSE]

\* StatusChangeException: the instance is untouched.
StatusChangeException(s) == [status |-> s, event |-> NoEvent, throws |-> TRUE]

---------------------------------------------------------------------------
(***************************************************************************)
(* Each operator named Careless... is the definition that follows it with a *)
(* slip a maintainer could make; the model never uses it.  PROJECT.json    *)
(* pairs it with the property that notices the slip.                       *)
(***************************************************************************)

SetAwaitingValidationStatus(s) ==
    IF s = "Submitted" THEN Moves("AwaitingValidation") ELSE Keeps(s)

SetStockConfirmedStatus(s) ==
    IF s = "AwaitingValidation" THEN Moves("StockConfirmed") ELSE Keeps(s)

\* Tests for the stage before the right one.
CarelessSetPaidStatusTooEarly(s) ==
    IF s = "AwaitingValidation" THEN Moves("Paid") ELSE Keeps(s)

\* Forgets that a second payment message may arrive.
CarelessSetPaidStatus(s) ==
    IF s \in {"StockConfirmed", "Paid"} THEN Moves("Paid") ELSE Keeps(s)

SetPaidStatus(s) ==
    IF s = "StockConfirmed" THEN Moves("Paid") ELSE Keeps(s)

\* Ships what is ready to be shipped, paid or not.
CarelessSetShippedStatus(s) ==
    IF s \in {"StockConfirmed", "Paid"} THEN Moves("Shipped") ELSE StatusChangeException(s)

SetShippedStatus(s) ==
    IF s = "Paid" THEN Moves("Shipped") ELSE StatusChangeException(s)

\* Forgets that a paid order cannot be cancelled any more.
CarelessSetCancelledStatus(s) ==
    IF s = "Shipped" THEN StatusChangeException(s) ELSE Moves("Cancelled")

SetCancelledStatus(s) ==
    IF s \in {"Paid", "Shipped"} THEN StatusChangeException(s) ELSE Moves("Cancelled")

\* Forgets that the order may have moved on since its stock was checked.
CarelessSetCancelledStatusWhenStockIsRejected(s) ==
    [Moves("Cancelled") EXCEPT !.event = NoEvent]

\* The one transition that adds no domain event.
SetCancelledStatusWhenStockIsRejected(s) ==
    IF s = "AwaitingValidation"
    THEN [Moves("Cancelled") EXCEPT !.event = NoEvent]
    ELSE Keeps(s)

---------------------------------------------------------------------------
\* The commands that change the status of an order, one per command handler.
StatusCommands == {"SetAwaitingValidation", "SetStockConfirmed", "SetStockRejected",
                   "SetPaid", "ShipOrder", "CancelOrder"}

\* The method the handler of command cmd calls on the order it loaded.
Apply(cmd, s) ==
    CASE cmd = "SetAwaitingValidation" -> SetAwaitingValidationStatus(s)
      [] cmd = "SetStockConfirmed"     -> SetStockConfirmedStatus(s)
      [] cmd = "SetStockRejected"      -> SetCancelledStatusWhenStockIsRejected(s)
      [] cmd = "SetPaid"               -> SetPaidStatus(s)
      [] cmd = "ShipOrder"             -> SetShippedStatus(s)
      [] cmd = "CancelOrder"           -> SetCancelledStatus(s)
=============================================================================
