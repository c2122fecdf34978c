SPECIFICATION LifeSpec
CONSTANTS
    MaxConn = 1
    MaxGen = 1
    NCallers = 1
    Handlers <- MCHandlers
    Ops <- MCAllOps
INVARIANTS
    OneConnectAtATime
    LoginHasReader
CHECK_DEADLOCK FALSE
