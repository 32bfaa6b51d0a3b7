SPECIFICATION FairSpec
CONSTANTS
    Directions = {"LONG", "SHORT"}
    MaxOrders = 3
    Lifetime = 2
    MaxTime = 4
    MaxOpen = 2
    MaxOpenLong = 1
    MaxOpenShort = 2
    MinGap = 1
    EnabledChoices = {TRUE}
    MaxActiveChoices = {1}
    WaveReadyChoices = {TRUE}
    Prices = {1}
    MaxFaults = 2
    MaxSwitches = 1
PROPERTIES
    OrdersSettle
    QueueDrains
CHECK_DEADLOCK FALSE
