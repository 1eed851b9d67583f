\* A transport whose requests do not implement AllQueryProvider (Wing).
INIT CacheInit
NEXT CacheNext
CONSTANTS
    Procs = {1, 2}
    Paths = {"a"}
    Queries = {"x", "y"}
    Users = {""}
    TTL = 1
    maxEntries = 2
    MaxTime = 2
    AllQuery = FALSE
CHECK_DEADLOCK FALSE
INVARIANT HitFaithful
