SPECIFICATION Spec
CONSTANTS
    s1 = s1
    s2 = s2
    t1 = t1
    i1 = i1
    i2 = i2
    i3 = i3
    p1 = p1
    p2 = p2
    NoName = NoName
    Procs = {p1, p2}
    MaxOps = 3
    MaxFaults = 1
    Sids = {s1, s2}
    Tags = {t1}
    Images = {i1, i2, i3}
    TagOf <- MCTagOf
    SidOf <- MCSidOf
    RevOf <- MCRevOf
    AdvisoriesOf <- MCAdvisories
    Builds <- MCBuilds
    Inputs <- MCInputs
    Second <- MCSecond
    Spelling <- MCSpelling
    Mids = {"m"}
    Kinds = {"service", "worker"}
    Owners = {"o"}
    Versions = {1}
    Names = {"X"}
    Values = {1}
    Volumes = {"v"}
    MaxRows = 5
    MaxWrites = 3
    Repos = {"r", "q"}
    Offsets = {"", "d"}
    Flavors = {"", "f"}
    Flags <- MCFlags
    Contexts <- MCContexts
    Clusters = {"b", "c"}
    Servers = {"c"}
    Detected <- MCDetected
    Existing <- MCExisting
    PollIntervalForClient = 3
    MaxOthers = 2
    Environments <- MCEnvironments
    Arguments <- MCArguments
    Answers = {"", "bad"}
    Edited = {"GraphiteEnabled", "SiblingURLs"}
    MaxRuns = 3
    Maps = {m1, m2}
    Dirs <- MCDirs
SYMMETRY Symmetry
INVARIANTS
    AdvisoriesKept
    FoundIfThere
    
    WrittenIsRead
    SetIsKept
    NilMeansAll
PROPERTIES
    NamedIsChanged
    AddReplacesNothing
CHECK_DEADLOCK FALSE
