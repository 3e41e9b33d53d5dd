SPECIFICATION ShoppingSpecInTurn
CONSTANTS
    Products = {"p1"}
    Prices = {"low", "high", "higher"}
    Deleted = "deleted"
    Editors = {"e1"}
    Users = {"u1", "u2"}
    NoPrice = "noPrice"
    NoBasket = NoBasket
    Calls = {"c1", "c2"}
    Operations <- AllOperations
    MaxChanges = 3
    MaxFailures = 1
    MaxDeletes = 1
    MaxRestarts = 2
INVARIANTS ShoppingTypeOK ShownChangesWereAnnounced PricesCatchUp
PROPERTIES PricesArrive
CHECK_DEADLOCK FALSE
