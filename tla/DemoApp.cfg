SPECIFICATION FairSpec
CONSTANTS
    None = None
    MaxSkip = 1
    Settings <- AnyFaults
INVARIANTS
    TypeOK
    KeysPaired
    PlainNeverFails
    SavedKeyUsedOnce
    SavedIsCurrent
    ReadableAcrossRestarts
    CrashLosesOneRow
PROPERTY HandshakeCompletes
CHECK_DEADLOCK FALSE
