SPECIFICATION Spec
CONSTANTS
    Files = {f1, f2}
    Triggers = {t1}
    None = None
    MaxRuns = 2
    MaxVersions = 2
    MaxMishaps = 2
SYMMETRY Symmetry
CHECK_DEADLOCK FALSE
INVARIANTS
    OneDriver
    NoTwins
PROPERTIES
    PromotesWhatLanded
    NoneLeftBehind
