CONSTANTS
    NumArms = 3
    DayLength = 2
    EvaluateAt = 0
    ActivateAt = 1
    MinDays = 1
    Cooldown = 1
    Lasts = 1
    MaxMinute = 5
    MaxRestarts = 1
    MaxFaults = 1
SPECIFICATION Spec
INVARIANTS ArmIsItsBatches PromotionsApart
PROPERTIES LikeForLike RetiredStays RestartFreezesNone
CHECK_DEADLOCK FALSE
