CONSTANTS
    Requests = {r1, r2}
    MaxLogins = 2
    TTL = 2
    MaxSessions = 1
    Capacity = 2
    Refill = 2
    MaxClock = 5
    MaxRestarts = 1

SPECIFICATION Spec

SYMMETRY RequestSymmetry

INVARIANTS
    TypeOK
    LiveSessionsStay
    OverflowSpansOneTTL
    RateIsCapped

PROPERTIES
    OnlyLiveSessionsEnter
    ImplementsReception
