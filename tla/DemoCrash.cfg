SPECIFICATION Spec
CONSTANTS
    None = None
    MaxSkip = 1
    Settings <- KilledSending
INVARIANT KeyUsedOnce
CHECK_DEADLOCK FALSE
