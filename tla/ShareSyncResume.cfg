SPECIFICATION Spec
CONSTANTS
    Files = {f1, f2}
    Triggers = {t1}
    None = None
    MaxRuns = 2
    MaxVersions = 1
    MaxMishaps = 1
CHECK_DEADLOCK FALSE
PROPERTY BaselineLanded
