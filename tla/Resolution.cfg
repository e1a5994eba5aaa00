SPECIFICATION Spec
CONSTANTS
    Readers = {r1, r2}
    Ids = 5
    Deps = {d1, d2}
    Versions = {v1, v2}
    LogCap = 1
    Pairs = {d1, d2, d3}
    Stages = 2
    MaxBuffer = 1
    Refusable = {d1, d2}
    Failing = {1, 2}
INVARIANTS
    OneCycle
    StableIsPrevious
    NoSendOnClosed
    NothingLost
PROPERTIES
    CyclesRecur
    ResolveEnds
    KeepsPromise
