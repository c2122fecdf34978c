SPECIFICATION SendSpec
CONSTANTS
    NSends = 2
    NOthers = 1
    Body <- MCDistinct
    Preview <- MCPreview
    EarlyMax = 1
    None = None
CHECK_DEADLOCK FALSE
INVARIANTS
    ConfirmedIsShown
    StatusWasTold
PROPERTY
    StatusNeverDowngraded
