SPECIFICATION BoundedSpec
CONSTANTS
    Orders = {"o1", "o2"}
    Requests = {"r1", "r2", "r3", "r4"}
    Calls = {"c1", "c2"}
    Consumer = "consumer"
    NoRequest = "noRequest"
    CheckoutKind <- OneOfEach
    ApiRequests <- SharedIds
    FaultKinds = {"crash", "commit", "statement", "broker", "log"}
    MaxFaults = 1
    MaxQueue = 1
    MaxOutbox = 3
INVARIANTS OneOrderPerCheckout EachStageOnce
CHECK_DEADLOCK FALSE
