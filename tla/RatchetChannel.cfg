SPECIFICATION Spec
CONSTANTS
    None = None
    x = x
    y = y
    Texts = {x, y}
    MaxSkip = 2
    MaxMessages <- MCMaxMessages
INVARIANTS
    InFlightReadable
    SkippedKeysBounded
PROPERTY
    ImplementsChannel
CHECK_DEADLOCK FALSE
