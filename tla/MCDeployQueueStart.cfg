CONSTANTS
    Deployments = {d1}
    Workers = {w1}
    BufferSize = 1
    MaxConcurrent = 1
    MaxRestarts = 0
    NoJob = NoJob
SPECIFICATION Spec
PROPERTIES StartRuns
CHECK_DEADLOCK FALSE
