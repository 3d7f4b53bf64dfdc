CONSTANTS
    Deployments = {d1, d2}
    Domains = {m1}
    Limits = {l1, l2}
    Requests = {r1, r2}
    MaxRequests = 2
    MaxMishaps = 1
    Configured = Configured
    None = None
    Runs = {g1, g2}
    MaxStarts = 3
    First = d1
    Domain = m1
SPECIFICATION MCSpec
INVARIANTS StateTypeOK LimitsInForce RouteLeads CommandExclusive
PROPERTIES StatusConverges
CHECK_DEADLOCK FALSE
