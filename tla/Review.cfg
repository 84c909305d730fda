CONSTANTS
    Reviewers = {r1}
    Items = {i1, i2}
    Sizes = {0, 1}
    Lookback = 1
    Day = 1
    BaselineDays = 1
    MinRatio = 2
    MinDelta = 1
    Top = 1
    Retention = 1
    MaxStall = 1
    MaxClock = 5
    MaxScans = 3
    MaxReviews = 1

SPECIFICATION DigestSpec

SYMMETRY ReviewSymmetry

INVARIANTS
    DigestTypeOK
    GrowthIsExact
    FindingsWereMeasured
    AlertsAreRecorded
    DigestsNameGrowth

PROPERTY
    AlertsAreAttempted
