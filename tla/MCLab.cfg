SPECIFICATION LabSpec
CONSTANTS
    c1 = c1
    c2 = c2
    None = None
    Candidates <- MCCandidates
    ValidateAge = 2
    Cooldown = 2
    Hour = 2
    MaxPerHour = 1
    MaxTime = 3
    MaxFails = 1
    MaxDeaths = 1
SYMMETRY Interchangeable
INVARIANTS
    LiveWasValidated
    LiveRanAsPaper
    RestartsSpaced
