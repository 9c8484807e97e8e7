SPECIFICATION Spec
CONSTANTS
    None = None
    Initiators = {alice}
    Responders = {bob, carol}
    Ids = {1, 2}
    MaxKeys = 4
    MaxBundles = 2
    MaxRuns = 2
    MaxAnswers = 2
SYMMETRY Symmetry
INVARIANTS
    Agreement
    OpenedOnce
    WholeBundles
CHECK_DEADLOCK FALSE
