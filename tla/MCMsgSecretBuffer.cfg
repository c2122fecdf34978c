SPECIFICATION FairSpec
CONSTANTS
    k1 = k1
    k2 = k2
    s1 = s1
    s2 = s2
    c1 = c1
    c2 = c2
    d1 = d1
    d2 = d2
    r1 = r1
    Keys <- MCKeys
    Secrets <- MCSecrets
    Callers <- MCCallers
    Drainers <- MCDrainers
    Readers <- MCReaders
    Disconnect = disconnect
    NoOne = noone
    NoRow = norow
    Times <- MCTimes
    Captures <- MCCaptures
    MaxCalls = 2
    MaxFailures = 1
INVARIANTS ReaderFindsSecret NothingStranded SealedIsDurable
PROPERTIES ImplementsStore BufferDrains
CHECK_DEADLOCK FALSE
