CONSTANTS
    Symbols = {btc, eth}
    FirstSymbol = btc
    StartTime = 2
    MaxTime = 4
    RestLimit = 2
    MaxSwitches = 1
    MaxQueue = 2
    MaxFaults = 1
SPECIFICATION FairSpec
INVARIANTS OneSymbol KnownIsProcessed
PROPERTIES OnceAndInOrder NoGapAhead CatchesUp
CHECK_DEADLOCK FALSE
