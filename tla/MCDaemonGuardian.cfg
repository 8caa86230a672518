CONSTANTS
    Guardian = {g1, g2}
    Nobody = nobody
    Instance = {d1, d2, d3}
    MaxLost = 1
    MaxCrash = 1
SPECIFICATION FairGuardianSpec
INVARIANTS
    GuardianTypeOK
    OnlyOneRuns
    SpawnerHoldsMutex

    
\* After a guardian crashed with the lock nothing may be left to happen.
CHECK_DEADLOCK FALSE
