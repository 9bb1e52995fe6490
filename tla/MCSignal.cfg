SPECIFICATION Spec
CONSTANTS
    Canale = 1
    AtrPeriod = 1
    MinHistory = 2
    MaxBarre = 3
    Prices <- MCPrices
    Slip = 1
    Atrs <- MCAtrs
    StopMult = 4
    TrailMult = 5
    Phase = 1
    FirstClock = 5
    LastClock = 7
    MaxBuys = 1
    MaxCrashes = 1
    MaxFaults = 1
INVARIANTS
    BarsInOrder
    StopSurvives
PROPERTIES
    ExpiredBuyCanceled
    StopCloses
