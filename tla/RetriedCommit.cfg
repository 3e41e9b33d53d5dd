SPECIFICATION EShopSpec
CONSTANTS
    Orders = {"o1"}
    Checkouts = {"r1"}
    Requests = {"r1", "a1", "a2"}
    Calls = {}
    Consumer = "consumer"
    NoRequest = "noRequest"
    CheckoutKind <- OneValidCheckout
    ApiRequests = {}
    FaultKinds = {"commit"}
    MaxFaults = 1
    Products = {"p1"}
    InitialStock <- InStock
    Items <- OneUnit
    PaymentSucceeded <- Either
    MaxCheckouts = 1
    MaxQueue = 2
    Discontinued = {}
    MaxRestarts = 0
PROPERTIES EventsCommitWithTheirStatus
CHECK_DEADLOCK FALSE
