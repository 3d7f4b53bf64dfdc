CONSTANTS
    Deployments = {d1, d2}
    Keep = 1
    MaxMishaps = 1
    Registry = Registry
    None = None
SPECIFICATION Spec
PROPERTIES CleanedUpOnCancel
CHECK_DEADLOCK FALSE
