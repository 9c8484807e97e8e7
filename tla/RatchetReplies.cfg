SPECIFICATION Spec
CONSTANTS
    None = None
    x = x
    y = y
    Texts = {x, y}
    MaxSkip = 2
    MaxMessages <- MCMaxMessages
INVARIANT
    RepliesReadable
CHECK_DEADLOCK FALSE
