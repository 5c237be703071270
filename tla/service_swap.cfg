CONSTANTS
    a = a
    c1 = c1
    c2 = c2
    t1 = t1
    t2 = t2
    None = None
    Groups = {a}
    DefaultGroup = a
    Clients = {c1, c2}
    Tasks = {t1, t2}
    Enabled <- SwapRequests
    MaxRows = 1
    MaxInst = 2
    MaxCrashes = 0
    MaxDrops = 1
SYMMETRY Symmetry
SPECIFICATION Spec
INVARIANTS WriterAhead WipeHasNoWriter
