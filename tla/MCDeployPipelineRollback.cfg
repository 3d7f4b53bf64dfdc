CONSTANTS
    Deployments = {d1, d2}
    Keep = 1
    MaxMishaps = 0
    Registry = Registry
    None = None
SPECIFICATION Spec
PROPERTIES CachedRollbackDeploys
CHECK_DEADLOCK FALSE
