CONSTANTS
    Request = {r1, r2, r3, r4}
    MaxConcurrent = 2
    MaxQueueSize = 3
    MaxLeaks = 3
SPECIFICATION Spec
PROPERTY FullMeansWaiting
