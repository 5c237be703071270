\* One pool slot, so that every exchange meets what the last one left.
SPECIFICATION FairSpec
CONSTANTS
    t1 = t1
    t2 = t2
    Tasks = {t1, t2}
    Jobs <- MCJobs
    Providers = {"anthropic", "sidecar"}
    Fallback = TRUE
    PoolSize = 1
    MaxBusy = 2
    Budgets = {1, 2}
    Ceiling = 3
    MaxConns = 2
    MaxCalls = 3
    None = None
CHECK_DEADLOCK FALSE
INVARIANTS AnswersMatch CallsBounded
PROPERTIES EmbedsEnd
