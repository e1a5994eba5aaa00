SPECIFICATION HandlersSpec
CONSTANTS
    Clients = {c1, c2}
    Requests = {r1}
    Cap = 2
    MaxRefs = 3
    MaxPushes = 4
INVARIANTS
    IndInv
    SendNeverBlocks
    LiveIsFindable
    PushIfEmptyAlone
    PosWithinOne
    WaitedReplyIsFinal
PROPERTIES
    ImplementsQueue
    NothingStarves
