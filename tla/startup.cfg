CONSTANTS
    f1 = f1
    f2 = f2
    WalFiles <- MCWalFiles
    LinesIn <- MCLinesIn
    Absent = Absent
    None = None
    Groups = {"liminis", "g2"}
    DefaultGroup = "liminis"
    EpisodeLines = {0, 2}
    KeylessLines = {0}
    MaxFaults = 1
    MaxWrites = 1
    MaxCrashes = 1
    MaxProbes = 1
SPECIFICATION FairSpec
INVARIANTS MigrationSafe StreamKeepsGeneration PositionHonest SelfHealComplete
PROPERTY BootSettles
CHECK_DEADLOCK FALSE
