----------------------------- MODULE MCShopping -----------------------------
(***************************************************************************)
(* Instances of Shopping for TLC.                                          *)
(***************************************************************************)
EXTENDS Shopping, FiniteSets

Aggregator == {"AddBasketItem", "UpdateAllBasket", "UpdateQuantities"}

AllOperations == Aggregator \cup {"DeleteBasket", "Checkout"}

\* Which call comes first does not matter.
InTurn == call["c2"].stage # "new" => call["c1"].stage # "new"

Begun == {c \in Calls : call[c].stage # "new"}

\* Of the calls, the failure, the deletion and the restarts at most three happen in one
\* behaviour.  The user u2 takes part, and there is a third change or a second restart,
\* only as long as nothing else happens.
SmallWhenDisturbed ==
    Disturbed =>
        /\ baskets["u2"] = NoBasket /\ copy.user # "u2"
        /\ \A c \in Calls : call[c].stage \notin {"new", "done"} => call[c].user = "u1"
        /\ Len(log) + Cardinality({e \in Editors : edit[e].stage = "save"}) <= 2
        /\ restarts <= 1
        /\ Cardinality(Begun) + failures + deletes + restarts <= 3

\* Nobody is obliged to the steps that this leaves out.
ShoppingSpecInTurn ==
    /\ ShoppingInit
    /\ [][ShoppingNext /\ (InTurn /\ SmallWhenDisturbed)']_shoppingVars
    /\ ShoppingFairness
=============================================================================
