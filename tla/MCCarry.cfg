SPECIFICATION FairSpec
CONSTANTS
    Q = 4
    CtVal = 2
    MinSpot = 3
    MaxRuns = 3
    MaxFaults = 1
    MaxDeaths = 1
INVARIANTS
    NeverLong
    OneOpeningAtATime
    NakedSpotHasCause
PROPERTIES
    ShortIsReported
