\* Pids that change hands up to twice, with one caller (the collector), which asks again and again.
CONSTANTS
    p1 = p1
    p2 = p2
    k1 = k1
    k2 = k2
    t1 = t1
    t2 = t2
    NoKey = NoKey
    NoPid = NoPid
    Pids <- MCPids
    Keys <- MCKeys
    Callers = {t1}
    MaxInode = 3
SPECIFICATION FairSpec
INVARIANTS CacheTrue
PROPERTIES ImplementsService SettledPidIsMapped
