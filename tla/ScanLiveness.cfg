CONSTANTS
    Jobs = {j1, j2}
    Retention = 0
    MaxScans = 2
    Faults = {"crash", "signal", "host", "docker"}

SPECIFICATION FairSpec

PROPERTIES
    TriggerIsReleased
    StopCompletes
    CronScanCompletes
