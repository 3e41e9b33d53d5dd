SPECIFICATION LiveSpec
CONSTANTS
    Orders = {"o1", "o2"}
    Checkouts = {"r1", "r2"}
    Requests = {"r1", "r2", "a1"}
    Calls = {"c1"}
    Consumer = "consumer"
    NoRequest = "noRequest"
    CheckoutKind <- OneValidCheckout
    ApiRequests <- Cancellation
    FaultKinds = {}
    MaxFaults = 0
    Products = {"p1"}
    InitialStock <- LastUnit
    Items <- OneUnit
    PaymentSucceeded <- Either
    MaxCheckouts = 2
    MaxQueue = 2
    MaxRestarts = 0
    Discontinued = {"p1"}
INVARIANTS EShopTypeOK StockLeavesForPaidOrders
PROPERTIES EventsArePublished OrdersSettle ChargedOrdersArePaid
CHECK_DEADLOCK FALSE
