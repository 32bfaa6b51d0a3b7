SPECIFICATION Spec
CONSTANTS
    Directions = {"SHORT"}
    MaxOrders = 3
    Lifetime = 1
    MaxTime = 4
    MaxOpen = 2
    MaxOpenLong = 1
    MaxOpenShort = 2
    MinGap = 1
    EnabledChoices = {TRUE}
    MaxActiveChoices = {1}
    WaveReadyChoices = {TRUE, FALSE}
    Prices = {1, 2}
    MaxFaults = 1
    MaxSwitches = 1
INVARIANTS
    WebhookOncePerDurableOrder
PROPERTIES
    RecordedBlockStands
    ImplementsDurableLedger
CHECK_DEADLOCK FALSE
