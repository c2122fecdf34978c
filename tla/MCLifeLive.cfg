SPECIFICATION LifeFairSpec
CONSTANTS
    MaxConn = 2
    MaxGen = 0
    NCallers = 1
    Handlers = {}
    Ops = {"disconnect"}
INVARIANTS
    ClosedAtEnd
PROPERTIES
    KeepsTrying
    DisconnectStopsReader
CHECK_DEADLOCK FALSE
