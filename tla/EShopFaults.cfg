SPECIFICATION EShopSpec
CONSTANTS
    Orders = {"o1"}
    Checkouts = {"r1"}
    Requests = {"r1", "a1", "a2"}
    Calls = {}
    Consumer = "consumer"
    NoRequest = "noRequest"
    CheckoutKind <- OneValidCheckout
    ApiRequests = {}
    FaultKinds = {"crash", "commit"}
    MaxFaults = 2
    Products = {"p1"}
    InitialStock <- InStock
    Items <- OneUnit
    PaymentSucceeded <- Either
    MaxCheckouts = 2
    MaxQueue = 2
    Discontinued = {}
    MaxRestarts = 1
INVARIANTS NothingBeforeItsCause ChargedOncePerRestart StockLeavesForPaidOrders
CHECK_DEADLOCK FALSE
