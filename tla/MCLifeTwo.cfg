SPECIFICATION LifeSpec
CONSTANTS
    MaxConn = 2
    MaxGen = 0
    NCallers = 1
    Handlers <- MCHandlers
    Ops = {"reconnect"}
INVARIANTS
    OldLoopsAreTold
    ReaderIsWatched
CHECK_DEADLOCK FALSE
