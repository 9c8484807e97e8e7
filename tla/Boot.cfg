SPECIFICATION Spec
CONSTANTS
    None = None
    Short = Short
    Procs = {p1, p2}
    MaxStarts = 4
INVARIANTS
    SchemaWhole
    DatabaseOpens
    OneIdentity
    BootRecovers
PROPERTIES
    InstallKept
CHECK_DEADLOCK FALSE
