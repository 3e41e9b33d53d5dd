SPECIFICATION BoundedSpec
CONSTANTS
    Orders = {"o1"}
    Requests = {"r1", "a1", "a2"}
    Calls = {"c1"}
    Consumer = "consumer"
    NoRequest = "noRequest"
    CheckoutKind <- OneValid
    ApiRequests <- CancelOrShip
    FaultKinds = {"crash", "commit", "broker", "log"}
    MaxFaults = 1
    MaxQueue = 1
    MaxOutbox = 5
INVARIANTS TypeOK EachStageOnce NoStageSkipped StatusHasItsEvent OutboxMatchesBus
CHECK_DEADLOCK FALSE
