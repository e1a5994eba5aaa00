SPECIFICATION FairSpec
CONSTANTS
    Clients = {c1, c2}
    Versions = {1, 2, 3}
    Invalid = {3}
    QueueCap = 1
    MaxPuts = 3
    MaxFailures = 1
PROPERTY Converges
