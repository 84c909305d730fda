CONSTANTS
    Jobs = {j1, j2}
    Retention = 1
    MaxScans = 3
    Faults = {"crash", "restore", "insert", "prune", "findings"}

SPECIFICATION Spec

SYMMETRY JobSymmetry

INVARIANTS
    TypeOK
    OneManualScan
    DashboardIsBacked
    FindingsHaveSamples
    SnapshotIsMostRecent
    RetentionHolds

PROPERTY
    YoungRowsStay
