--------------------------- MODULE OrderLifecycle ---------------------------
(***************************************************************************)
(* What the ordering process promises about an order, without database,    *)
(* messages or retries: it moves along the stages of OrderStatus one at a  *)
(* time, can be cancelled until it is paid, and every status it takes is   *)
(* announced in the same step, so that who reads the announcements of an   *)
(* order in their sequence reads its history.                              *)
(***************************************************************************)
EXTENDS Sequences

CONSTANT Orders

VARIABLES
    state,      \* where each order is
    announced   \* the statuses announced of each order, in order

vars == <<state, announced>>

Stages == {"Absent", "Submitted", "AwaitingValidation", "StockConfirmed", "Paid",
           "Shipped", "Cancelled"}

\* The stage from which each of the later stages is reached.
Predecessor == [Submitted          |-> "Absent",
                AwaitingValidation |-> "Submitted",
                StockConfirmed     |-> "AwaitingValidation",
                Paid               |-> "StockConfirmed",
                Shipped            |-> "Paid"]

Init ==
    /\ state = [o \in Orders |-> "Absent"]
    /\ announced = [o \in Orders |-> <<>>]

Enter(o, s) ==
    /\ state' = [state EXCEPT ![o] = s]
    /\ announced' = [announced EXCEPT ![o] = Append(@, s)]

Advance(o) ==
    \E s \in DOMAIN Predecessor : state[o] = Predecessor[s] /\ Enter(o, s)

\* Cancelling a cancelled order announces it again.
Cancel(o) ==
    /\ state[o] \in {"Submitted", "AwaitingValidation", "StockConfirmed", "Cancelled"}
    /\ Enter(o, "Cancelled")

\* The one change that is not announced.
RejectStock(o) ==
    /\ state[o] = "AwaitingValidation"
    /\ state' = [state EXCEPT ![o] = "Cancelled"]
    /\ UNCHANGED announced

Next == \E o \in Orders : Advance(o) \/ Cancel(o) \/ RejectStock(o)

Spec == Init /\ [][Next]_vars
=============================================================================
