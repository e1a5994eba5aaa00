SPECIFICATION FairSpec
CONSTANTS
    Clusters = {c1, c2}
    Outcomes = {"FailedStatusError", "unchanged"}
    Unreachable = {c1}
    ErrorLimit = 1
CHECK_DEADLOCK FALSE
INVARIANTS
    CompleteIsReal
    FailedIsGrounded
PROPERTY PollEnds
