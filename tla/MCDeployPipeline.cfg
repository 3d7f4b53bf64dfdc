CONSTANTS
    Deployments = {d1, d2, d3}
    Keep = 1
    MaxMishaps = 2
    Registry = Registry
    None = None
SPECIFICATION Spec
SYMMETRY Interchangeable
INVARIANTS TypeOK Gated NoOrphans RouteFollowsRecord CachedImagesKept
PROPERTIES SuccessIsEarned BlueGreenSpec
CHECK_DEADLOCK FALSE
