SPECIFICATION Spec
CONSTANTS
    None = None
    MaxSkip = 1
    Settings <- OneRun
INVARIANT HandshakeNeverFails
CHECK_DEADLOCK FALSE
