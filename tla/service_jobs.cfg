CONSTANTS
    a = a
    c1 = c1
    c2 = c2
    t1 = t1
    None = None
    Groups = {a}
    DefaultGroup = a
    Clients = {c1, c2}
    Tasks = {t1}
    Enabled <- JobRequests
    MaxRows = 1
    MaxInst = 2
    MaxCrashes = 0
    MaxDrops = 0
SPECIFICATION FairSpec
PROPERTY JobsFinish
