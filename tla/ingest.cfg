SPECIFICATION FairSpec
CONSTANTS
    e1 = e1
    e2 = e2
    Episodes = {e1, e2}
    Admin = Admin
    Rebuilder = Rebuilder
    Files <- MCFiles
    Fallback = None
    Extractions <- MCExtractions
    Norm <- MCNorm
    Budget <- BudgetAll
    None = None
    Absent = Absent
CHECK_DEADLOCK FALSE
INVARIANTS OrphansPurged DriftKept
PROPERTIES RefusalHolds CancelDrains
