SPECIFICATION Spec
CONSTANTS
    t1 = t1
    t2 = t2
    t3 = t3
    NoId = NoId
    Ids = {t1, t2, t3}
    Values = {0, 1}
    SeedFiles <- Seeds
    MaxOps = 3
    MaxCrashes = 1
INVARIANT DirtyIsScheduled
INVARIANT FileIsOneInstant
PROPERTY StoreReachesFile
CHECK_DEADLOCK FALSE
