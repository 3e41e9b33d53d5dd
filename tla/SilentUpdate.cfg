SPECIFICATION ShoppingSpec
CONSTANTS
    Products = {"p1"}
    Prices = {"low", "high"}
    Deleted = "deleted"
    Editors = {"e1", "e2"}
    Users = {}
    NoPrice = "noPrice"
    NoBasket = NoBasket
    Calls = {}
    Operations = {}
    MaxChanges = 2
    MaxFailures = 0
    MaxDeletes = 0
    MaxRestarts = 0
PROPERTIES UnchangedPriceIsKept
CHECK_DEADLOCK FALSE
