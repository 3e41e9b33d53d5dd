---------------------------- MODULE GracePeriod ----------------------------
(***************************************************************************)
(* Ordering.BackgroundTasks: a timer reads, with plain SQL and outside any *)
(* transaction of Ordering.API, the submitted orders whose grace period is *)
(* over, and publishes a GracePeriodConfirmed message for each.  It keeps  *)
(* no record of what it published: an order is read again at every check   *)
(* until Ordering.API has handled its message.                             *)
(***************************************************************************)
CONSTANT Orders

VARIABLES
    expired,  \* the orders whose OrderDate lies at least GracePeriodTime back
    due       \* the orders the running check has read and not yet published

gracePeriodVars == <<expired, due>>

GracePeriodInit == expired = {} /\ due = {}

GracePeriodTypeOK == expired \subseteq Orders /\ due \subseteq expired

GracePeriodPasses(o) ==
    /\ o \notin expired
    /\ expired' = expired \cup {o}
    /\ UNCHANGED due

\* Leaves the order date out of the query.
CarelessCheckConfirmedGracePeriodOrders(submitted) ==
    /\ due = {}
    /\ submitted # {}
    /\ due' = submitted
    /\ UNCHANGED expired

\* submitted: the orders whose row has the status Submitted at this moment.
CheckConfirmedGracePeriodOrders(submitted) ==
    /\ due = {}
    /\ submitted \cap expired # {}
    /\ due' = submitted \cap expired
    /\ UNCHANGED expired

\* One round of the loop over what was read; the row may have changed since.
PublishGracePeriodConfirmed(o) ==
    /\ o \in due
    /\ due' = due \ {o}
    /\ UNCHANGED expired

GracePeriodRestarts ==
    /\ due # {}
    /\ due' = {}
    /\ UNCHANGED expired
=============================================================================
