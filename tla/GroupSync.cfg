SPECIFICATION MessagingSpec
CONSTANTS
    None = None
    MaxRows = 2
    MaxOther = 1
    MaxOutstanding = 3
    MaxRestarts = 1
    Nothing = Nothing
    Texts = {"a", "b"}
    MaxSenderKeys = 2
    MaxPublished = 3
INVARIANT StaysInSync
CHECK_DEADLOCK FALSE
