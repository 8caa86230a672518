CONSTANTS
    NoWorker = none
    Worker = {w1, w2}
    Attr = {a1, a2}
    MaxChange = 2
    MaxLapse = 1
SPECIFICATION FairCacheSpec
INVARIANTS
    CacheTypeOK
    StaleOnlyByRace
    OneCreator
PROPERTIES
    GetReturns
