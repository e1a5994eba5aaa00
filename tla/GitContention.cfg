SPECIFICATION FairSpec
CONSTANTS
    s1 = s1
    s2 = s2
    a = a
    b = b
    c = c
    Managers = {s1, s2}
    Callers = {a, b, c}
    Home <- TwoServers
    Files = {f, g}
    Values = {0, 1, 2}
    Attempts = 5
    MaxWrites = 3
    Flaky = FALSE
    DiskFaults = FALSE
INVARIANTS
    NoLostUpdate
PROPERTY WriteReturns
