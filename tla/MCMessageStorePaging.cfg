SPECIFICATION MCPagingSpec
CONSTANTS
    lid = lid
    pn = pn
    m1 = m1
    m2 = m2
    m3 = m3
    Chats = {pn}
    Ids = {m1, m2, m3}
    Ts <- MCTs
    Updates = {media, revoke}
    Jobs = {j1, j2}
    FlushSlice = 3
    None = None
    ResidentTail = 1
    Page = 1
    Keep = 2
    Pn <- MCPn
    Incoming = {m1, m2, m3}
    Media = media
    Revoke = revoke
    MaxCalls = 4
SYMMETRY Symmetry
CHECK_DEADLOCK FALSE
INVARIANTS
    NothingLost
PROPERTIES
    ResidentNeverDowngraded
    LoadMakesProgress
