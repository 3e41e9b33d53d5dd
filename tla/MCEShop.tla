------------------------------ MODULE MCEShop ------------------------------
(***************************************************************************)
(* Instances of EShop for TLC: one product, and one order or two; a        *)
(* checkout may be sent twice with the same request id.                    *)
(***************************************************************************)
EXTENDS EShop, TLC

OneValidCheckout == [r \in Requests |-> "valid"]

OneUnit == [r \in Checkouts |-> [p \in Products |-> 1]]

InStock == [p \in Products |-> 3]

LastUnit == [p \in Products |-> 1]

Cancel(o, r) == [cmd |-> "CancelOrder", about |-> o, req |-> r]

Ship(o, r) == [cmd |-> "ShipOrder", about |-> o, req |-> r]

\* The user cancels.
Cancellation == {Cancel("o1", "a1")}

\* The back office ships, and repeats the call with the same request id.
Shipment == {Ship("o1", "a1")}

\* One order is checked out, and at most one of these happens: it is checked out again, a
\* call cancels it, its product is deleted, or there is a second order.  Nobody is obliged
\* to any of them.  The first order is o1, of the checkout r1.
OneAtATime ==
    LET extras == <<checkouts["r1"] > 1, pc["c1"] # "idle", deleted # {}, checkouts["r2"] > 0>>
    IN  /\ Cardinality({i \in DOMAIN extras : extras[i]}) <= 1
        /\ checkouts["r2"] > 0 => checkouts["r1"] > 0 /\ checkouts["r2"] <= 1
        /\ status["o2"] # Absent => status["o1"] # Absent

LiveSpec ==
    /\ EShopInit
    /\ [][EShopNext /\ OneAtATime']_eshopVars
    /\ OrderingFairness /\ ServiceFairness

\* Which of two equal calls comes first does not matter.
CallSymmetry == Permutations(Calls)

\* Payment is accepted, or refused.
Either == BOOLEAN

Accepted == {TRUE}
=============================================================================
