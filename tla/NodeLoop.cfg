SPECIFICATION LoopFairSpec
CONSTANTS
    ControlCap = 2
    EventsCap = 1
    Mdns = TRUE
    AutoDial = TRUE
    MaxTyped = 1
    MaxInbound = 2
INVARIANTS
    LoopTypeOK
    RequestsAccounted
PROPERTIES
    TasksProgress
    StopCompletes
CHECK_DEADLOCK FALSE
