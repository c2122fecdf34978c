SPECIFICATION MCSpec
CONSTANTS
    Chats = {lid, pn}
    Ids = {m1}
    Ts <- MCTs
    Updates = {u}
    Jobs = {j1, j2}
    FlushSlice = 1
    None = None
    MaxCalls = 4
    MaxFailures = 1
CHECK_DEADLOCK FALSE
INVARIANTS
    NothingLandsAfterWipe
    AccountMarkerWiped
    QueuedWritesHaveTimer
PROPERTIES
    WipeSettles
    QueueDrains
