CONSTANTS
    Deployments = {d1}
    Domains = {m1}
    Limits = {l1}
    Requests = {r1}
    MaxRequests = 2
    MaxMishaps = 0
    Configured = Configured
    None = None
SPECIFICATION Spec
INVARIANTS LiveAuthRoute
CHECK_DEADLOCK FALSE
