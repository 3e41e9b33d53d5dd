SPECIFICATION SpaSpec
CONSTANTS
    p1 = p1
    p2 = p2
    Products = {p1, p2}
    Objects = {1, 2, 3, 4}
    None = 0
    NoBasket = NoBasket
    MaxRequests = 3
    MaxAdded = 1
    MaxOrders = 2
    MaxReloads = 1
    MaxMishaps = 1
INVARIANTS SpaTypeOK OrdersAreAsListed NothingIsOrderedTwice TabAgreesWithServer
CHECK_DEADLOCK FALSE
SYMMETRY ProductSymmetry
