SPECIFICATION BoundedSpec
CONSTANTS
    Orders = {"o1", "o2"}
    Requests = {"r1", "r2", "r3", "r4"}
    Calls = {}
    Consumer = "consumer"
    NoRequest = "noRequest"
    CheckoutKind <- OneOfEach
    ApiRequests = {}
    FaultKinds = {}
    MaxFaults = 0
    MaxQueue = 1
    MaxOutbox = 3
INVARIANTS StartedOrdersExist
CHECK_DEADLOCK FALSE
