SPECIFICATION EShopSpec
CONSTANTS
    Orders = {"o1"}
    Checkouts = {"r1"}
    Requests = {"r1", "a1", "a2"}
    Calls = {c1, c2}
    c1 = c1
    c2 = c2
    Consumer = "consumer"
    NoRequest = "noRequest"
    CheckoutKind <- OneValidCheckout
    ApiRequests <- Shipment
    FaultKinds = {"crash"}
    MaxFaults = 1
    Products = {"p1"}
    InitialStock <- InStock
    Items <- OneUnit
    PaymentSucceeded <- Either
    MaxCheckouts = 1
    MaxQueue = 2
    Discontinued = {}
    MaxRestarts = 0
PROPERTIES ImplementsLifecycle
CHECK_DEADLOCK FALSE
SYMMETRY CallSymmetry
