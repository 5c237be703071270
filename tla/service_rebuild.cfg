CONSTANTS
    a = a
    c1 = c1
    t1 = t1
    None = None
    Groups = {a}
    DefaultGroup = a
    Clients = {c1}
    Tasks = {t1}
    Enabled <- RebuildRequests
    MaxRows = 2
    MaxInst = 2
    MaxCrashes = 1
    MaxDrops = 0
SPECIFICATION FairSpec
INVARIANTS TypeOK LockHeld SeqsIncrease PositionHonest
PROPERTIES HandlersFinish SpawnedJobsFinish
