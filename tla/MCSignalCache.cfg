SPECIFICATION Spec
CONSTANTS
    pn = pn
    lid = lid
    k1 = k1
    m1 = m1
    w1 = w1
    w2 = w2
    Addrs <- MCAddrs
    Pn = pn
    Lid = lid
    PreKeys <- MCPreKeys
    Steps <- MCSteps
    Workers <- MCWorkers
    Cleanup = cleanup
    NoOne = noone
    NoAddr = noaddr
    MaxEntries = 1
    HighWater = 1
    MaxJobs = 3
    MaxFaults = 1
    MaxCleanups = 1
INVARIANTS PrekeyOrSession OutIsHeld CleanIsDurable NobodyStuck
PROPERTY LoadsAreFresh
SYMMETRY MCSymmetry
CHECK_DEADLOCK FALSE
