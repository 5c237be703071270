SPECIFICATION Spec
CONSTANTS
    base = base
    layer = layer
    n1 = n1
    n2 = n2
    n3 = n3
    kind = kind
    ch1 = ch1
    ch2 = ch2
    Groups = {base, layer}
    DefaultGroup = base
    Names = {n1, n2, n3}
    Kinds = {kind}
    Chunks = {ch1, ch2}
    EntityIds = {1, 2, 3, 4, 5}
    EdgeIds = {1, 2, 3, 4, 5, 6, 7, 8}
    EpisodeIds = {1, 2}
    None = None
    Err = Err
    Clients = {c1, c2}
    Seed <- MCSeed
    EdgeInputs <- MCEdgeInputs
    MaxCalls = 3
INVARIANTS OneActive NoEdgeOnTombstone PointersSound DirectAgrees ReplayReproduces
CHECK_DEADLOCK FALSE
