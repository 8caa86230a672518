CONSTANTS
    Guardian = {g1, g2}
    Nobody = nobody
    Instance = {d1}
    MaxLost = 0
    MaxCrash = 1
SPECIFICATION FairGuardianSpec
PROPERTY
    AlwaysRunning
CHECK_DEADLOCK FALSE
