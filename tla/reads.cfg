SPECIFICATION Spec
CONSTANTS
    Ids = {1, 2, 3}
    Group <- MCGroup
    At <- MCAt
    Order <- MCOrder
    Near = {1, 3}
    Scopes = {{}, {"g"}}
    Limits = {1}
    Tops = {2}
    Floors = {TRUE}
    Overdraw = 3
    Walkers = {w1}
    Finders = {f1, f2}
    Admins = {a1, a2}
    Ops = {"insert", "delete", "clear", "build", "summaries", "rebuild"}
    MaxOps = 2
    MaxReads = 2
    Written = {2}
    Contents = {{1, 2, 3}}
    None = None
SYMMETRY Perms
CHECK_DEADLOCK FALSE
INVARIANTS PagesExact FindsHeal RankedByEvidence
