CONSTANTS
    Servers = {s1, s2}
    Callers = {c1, c2}
    MaxCalls = 3
    MaxTunnels = 2
    MaxMishaps = 2
    None = None
    Databases = {d1, d2}
    Names = {n1, n2}
    Limits = {l1, l2}
    Requests = {r1, r2}
    MaxRequests = 3
    Former = {d2}
    MaxPieces = 2
SPECIFICATION MCSpec
INVARIANTS StateTypeOK RowsTell OneTunnel
PROPERTIES StatusConverges PagesEnd
CHECK_DEADLOCK FALSE
