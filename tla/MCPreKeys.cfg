SPECIFICATION Spec
CONSTANTS
    MAX_PREKEY_ID <- MCMaxId
    Wanted = 2
    Uploader = uploader
    Background = background
    Flushers <- MCFlushers
    Devices <- MCDevices
    InitialDevice <- MCInitialDevice
    MaxConsecutive = 2
    MaxFailures = 2
    MaxPasses = 2
    MaxCrashes = 1
    MaxLows = 1
INVARIANTS SavedOrPending OfferedKeyIsStored SentOnce UsedStaysDeleted WatermarksOrdered RerunFindsKeys
CHECK_DEADLOCK FALSE
VIEW MCView
