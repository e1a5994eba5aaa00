SPECIFICATION Spec
CONSTANTS
    s1 = s1
    s2 = s2
    a = a
    b = b
    c = c
    Managers = {s1, s2}
    Callers = {a, c}
    Home <- OneEach
    Files = {f, g}
    Values = {0, 1, 2}
    Attempts = 5
    MaxWrites = 2
    Flaky = FALSE
    DiskFaults = FALSE
INVARIANT AckedIsDurable
