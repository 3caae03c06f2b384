SPECIFICATION Spec
CHECK_DEADLOCK FALSE
CONSTANTS
    Addresses = {"", "a"}
    Prices = {1, 2}
    Sizes = {1, 2}
    Times = {0, 1}
    QusdAmounts = {12000}
    BaseAmounts = {3988}
    OraclePrices = {0, 1, 2}
    MinOrder = 1
    Budget = 6
    OrderCost = 2
INVARIANTS TypeOK BookNotCrossed CopiesAgree FillsAreTrades Accounted
PROPERTY PriceTimePriority
