SPECIFICATION FairSpec
CONSTANTS
    s1 = s1
    s2 = s2
    last = last
    Requests = {q1, q2, last}
    Sings = {s1, s2}
    Host <- Uneven
    ReqCap = 1
    DepCap = 1
    Pool = 2
    RetryLimit = 1
INVARIANTS
    AllCollected
PROPERTY Returns
