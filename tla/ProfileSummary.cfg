CONSTANTS
    Stores = {a, b}
    Service = a
    Limit = 2
    MaxRetries = 2
    MaxOrders = 3
    PastOrders = 1
    MaxOpen = 2
    MaxFaults = 1
SPECIFICATION FairSpec
INVARIANTS CurrentIsExact ClosedHoldsNothing
PROPERTIES CatchesUp
CHECK_DEADLOCK FALSE
