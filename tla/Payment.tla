------------------------------ MODULE Payment ------------------------------
(***************************************************************************)
(* Payment.API: for every order whose stock is confirmed it takes the      *)
(* (simulated) payment and publishes the result.  It has no database: a    *)
(* message that is delivered again is paid again.                          *)
(***************************************************************************)
EXTENDS Naturals

CONSTANTS
    Orders,
    PaymentSucceeded   \* the values the setting takes while the service runs

VARIABLES
    paymentPc,  \* "idle", or "ack": the head of its queue is handled
    charged     \* how often each order was charged, as the outside world sees it

paymentVars == <<paymentPc, charged>>

PaymentInit == paymentPc = "idle" /\ charged = [o \in Orders |-> 0]

PaymentTypeOK ==
    /\ paymentPc \in {"idle", "ack"}
    /\ charged \in [Orders -> Nat]

\* Reports success whatever the gateway said.
CarelessPaymentResult(succeeded) == "OrderPaymentSucceeded"

PaymentResult(succeeded) ==
    IF succeeded THEN "OrderPaymentSucceeded" ELSE "OrderPaymentFailed"

\* Handles OrderStatusChangedToStockConfirmed(o); the result goes out in the
\* same step.
TakePayment(o, succeeded) ==
    /\ paymentPc = "idle"
    /\ paymentPc' = "ack"
    /\ charged' = IF succeeded THEN [charged EXCEPT ![o] = @ + 1] ELSE charged

PaymentAcknowledges ==
    /\ paymentPc = "ack"
    /\ paymentPc' = "idle"
    /\ UNCHANGED charged

\* The process dies before the acknowledgement: the message comes again.
PaymentRestarts == PaymentAcknowledges
=============================================================================
