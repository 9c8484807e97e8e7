SPECIFICATION StorageSpec
CONSTANTS
    None = None
    Conns = {c1, c2}
    Ids = {0, 1}
    MaxKeys = 3
    Conversations = {k1, k2}
    Uids = {u1, u2}
    MediaIds = {"photo"}
    Devices = {"laptop"}
    PageSize = 1
    MaxWrites = 4
    Openers = {"phone", "daemon", "tablet"}
    Home <- TwoDevices
    Clients = {y1, y2, y3}
    MaxEdits = 2
    MaxBlobs = 1
PROPERTY TakesOldest
CHECK_DEADLOCK FALSE
