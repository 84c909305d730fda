CONSTANTS
    Jobs = {j1, j2}
    Retention = 0
    MaxScans = 2
    Faults = {"signal"}

SPECIFICATION Spec

PROPERTY
    ChatScanSurvivesSigterm
