SPECIFICATION MCSpec
CONSTANTS
    lid = lid
    pn = pn
    m1 = m1
    m2 = m2
    m3 = m3
    Chats = {lid, pn}
    Ids = {m1, m3}
    Ts <- MCTs
    Updates = {u}
    Jobs = {j1, j2}
    FlushSlice = 1
    None = None
    ResidentTail = 1
    Page = 1
    Keep = 1
    Pn <- MCPn
    Incoming = {m1, m3}
    Media = media
    Revoke = revoke
    MaxCalls = 3
SYMMETRY Symmetry
CHECK_DEADLOCK FALSE
INVARIANTS
    NothingLost
