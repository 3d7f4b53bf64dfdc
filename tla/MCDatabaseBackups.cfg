CONSTANTS
    Runs = {r1, r2}
    Destinations = {t1, t2}
    DefaultKeep = 2
    Keeps = {1}
    MaxBackups = 3
    MaxChanges = 1
    MaxMishaps = 1
    None = None
SPECIFICATION MCSpec
SYMMETRY Interchangeable
INVARIANTS TypeOK Restorable Accounted
PROPERTIES NewestSurvive
CHECK_DEADLOCK FALSE
