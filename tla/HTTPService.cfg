SPECIFICATION Spec
CONSTANTS
    Users = {u1, u2}
    Names = {n1, n2}
    Values = {w1, w2, w3}
    Valid = {w1, w2}
    MaxCommands = 2
    MaxFaults = 2
    InitialManifests <- MCManifests
    InitialDefs <- MCDefs
    Written <- MCWritten
    ClusterDefaults <- MCDefaults
    Versions = {2}
    MaxChanges = 2
    Clients = {"old", "new"}
    Schema <- MCSchema
    Documents <- MCDocuments
    Resources = {{"get", "put", "delete"}, {"put"}}
    MaxRequests = 5
SYMMETRY Symmetry
INVARIANT ReplacesSeen
PROPERTIES OnlyTheVersion PutbackIsExact
CHECK_DEADLOCK FALSE
