CONSTANTS
    Senders = {s1, s2}
    Keys <- AlertKeys
    Window = 3
    MaxEntries = 1
    MaxStall = 1
    MaxClock = 6
    FSCount = 2
    Capacities <- SmallCapacities
    WarnPct = 80
    CritPct = 90
    MaxRounds = 2

SPECIFICATION AlertSpec

SYMMETRY SenderSymmetry

INVARIANTS
    AlertTypeOK
    OverflowSpansOneWindow

PROPERTIES
    OncePerWindow
    SilenceIsBounded
    EveryLevelIsTold
