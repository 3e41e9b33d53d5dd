--------------------------- MODULE MCNotifications ---------------------------
(***************************************************************************)
(* An instance of Notifications for TLC.  The hub and Webhooks.API do not  *)
(* know of each other: a behaviour has either a page or receivers.         *)
(***************************************************************************)
EXTENDS Notifications

OnlyReceivers ==
    /\ subscribings = 0 /\ hookRestarts = 0
    /\ visits = MaxVisits /\ hubRestarts = MaxHubRestarts /\ connection = "down"

OnlyPage ==
    /\ visits = 0 /\ hubRestarts = 0 /\ connection = "starting"
    /\ subscriptions = [r \in Receivers |-> {}]
    /\ subscribings = MaxSubscribings /\ hookRestarts = MaxHookRestarts

MCInit == Init /\ (OnlyReceivers \/ OnlyPage)

MCSpec == MCInit /\ [][Next]_vars /\ Fairness
=============================================================================
