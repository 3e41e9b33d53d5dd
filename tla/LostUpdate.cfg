SPECIFICATION EShopSpec
CONSTANTS
    Orders = {"o1"}
    Checkouts = {"r1"}
    Requests = {"r1", "a1", "a2"}
    Calls = {"c1"}
    Consumer = "consumer"
    NoRequest = "noRequest"
    CheckoutKind <- OneValidCheckout
    ApiRequests <- Cancellation
    FaultKinds = {}
    MaxFaults = 0
    Products = {"p1"}
    InitialStock <- InStock
    Items <- OneUnit
    PaymentSucceeded <- Accepted
    MaxCheckouts = 1
    MaxQueue = 2
    Discontinued = {}
    MaxRestarts = 0
PROPERTIES PaidIsNotCancelled
CHECK_DEADLOCK FALSE
