----------------------------- MODULE MCOrdering -----------------------------
(***************************************************************************)
(* Instances of Ordering alone for TLC.  The bus delivers every message    *)
(* the service subscribes to, in every order and with every duplicate that *)
(* fits into a queue of MaxQueue messages, until the log holds MaxOutbox   *)
(* entries.                                                                *)
(***************************************************************************)
EXTENDS Ordering, TLC

CONSTANTS MaxQueue, MaxOutbox

AnyDelivery ==
    /\ Len(queue) < MaxQueue
    /\ Len(outbox) < MaxOutbox
    /\ \E m \in Inbound : Deliver(m)

BoundedNext == OrderingNext \/ AnyDelivery

BoundedSpec == Init /\ [][BoundedNext]_vars

\* Only the requests of HTTP calls are not checkouts; nobody delivers them.
Kinds(checkouts) == [r \in Requests |-> IF r \in DOMAIN checkouts THEN checkouts[r]
                                        ELSE "invalid"]

OneValid == Kinds("r1" :> "valid")

OneOfEach == "r1" :> "valid" @@ "r2" :> "invalid" @@ "r3" :> "badItem" @@ "r4" :> "cardExpires"

Call(cmd, o, r) == [cmd |-> cmd, about |-> o, req |-> r]

CancelOrShip == {Call("CancelOrder", "o1", "a1"), Call("ShipOrder", "o1", "a2")}

\* Two calls may carry the same request id, and it may be that of a checkout.
SharedIds == {Call("CancelOrder", "o1", "r4"), Call("CancelOrder", "o2", "r1")}
=============================================================================
