CONSTANTS
    Reviewers = {r1}
    Items = {i1}
    Sizes = {0, 1, 3}
    Lookback = 1
    Day = 1
    BaselineDays = 1
    MinRatio = 2
    MinDelta = 1
    Top = 1
    Retention = 2
    MaxStall = 1
    MaxClock = 3
    MaxScans = 3
    MaxReviews = 1

SPECIFICATION DigestSpec

INVARIANT
    AnomaliesAreExact
