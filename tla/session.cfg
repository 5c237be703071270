SPECIFICATION FairSpec
CONSTANTS
    c1 = c1
    c2 = c2
    Services = {1, 2}
    Clients = {c1, c2}
    Scopes <- MCScopes
    RemoteClose = {c1}
    Methods = {"knowledge_assert_entity", "knowledge_rebuild_from_wal", "knowledge_close"}
    MaxCalls = 2
    MaxKills = 1
    MaxConns = 2
    None = None
CHECK_DEADLOCK FALSE
INVARIANTS CallsExact
PROPERTIES ShutdownEnds CallsEnd
