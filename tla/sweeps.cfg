SPECIFICATION FairSpec
CONSTANTS
    p1 = p1
    p2 = p2
    Requests <- MCRequests
    e1 = e1
    e2 = e2
    works_for = works_for
    owns = owns
    freetext = freetext
    noisy = noisy
    Edges = {e1, e2}
    Entities = {1, 2}
    Sweeps = {p1, p2}
    Types = {works_for}
    AssertOnly = {owns}
    FreeText = {freetext, noisy}
    NameMeans <- MCNameMeans
    TextMeans <- MCTextMeans
    Derived <- MCDerived
    Before <- MCBefore
    Kind <- MCKind
    EntityTypes = {"Agent", "Person"}
    Ancestors <- MCAncestors
    Tombstone = 2
    Untyped = Untyped
    UNCLASSIFIED = UNCLASSIFIED
    Noise = Noise
    None = None
    MaxInst = 2
    MaxWrites = 1
    MaxPasses = 2
INVARIANTS TypesEarned FlagTruthful
PROPERTIES BackfillsKeepWrites PassesEnd
CHECK_DEADLOCK FALSE
