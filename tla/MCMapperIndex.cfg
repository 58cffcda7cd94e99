\* Two pids that may share a container, two callers, removals at any step.
CONSTANTS
    p1 = p1
    p2 = p2
    k1 = k1
    k2 = k2
    t1 = t1
    t2 = t2
    NoKey = NoKey
    NoPid = NoPid
    Pids <- MCPids
    Keys <- MCKeys
    Callers <- MCCallers
    MaxInode = 2
SPECIFICATION Spec
SYMMETRY Interchangeable
INVARIANTS TypeOK IndexesAgree CacheTrue
PROPERTIES RemovalIsExact ImplementsService
