SPECIFICATION Spec
CONSTANTS
    Directions = {"SHORT"}
    MaxOrders = 3
    Lifetime = 2
    MaxTime = 5
    MaxOpen = 2
    MaxOpenLong = 1
    MaxOpenShort = 2
    MinGap = 1
    EnabledChoices = {TRUE}
    MaxActiveChoices = {1}
    WaveReadyChoices = {TRUE, FALSE}
    Prices = {1, 2}
    MaxFaults = 1
    MaxSwitches = 0
PROPERTIES
    OldCreditsCancelledFirst
