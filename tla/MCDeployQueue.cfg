CONSTANTS
    Deployments = {d1, d2, d3}
    Workers = {w1, w2}
    BufferSize = 2
    MaxConcurrent = 1
    MaxRestarts = 1
    NoJob = NoJob
    Last = d3
SPECIFICATION MCSpec
INVARIANTS TypeOK OnePlace SemaphoreExact FifoService
PROPERTIES AtMostOnce AcceptedFinishes StopTerminates
CHECK_DEADLOCK FALSE
