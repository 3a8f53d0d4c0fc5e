CONSTANTS
    Request = {r1, r2, r3, r4}
    MaxConcurrent = 2
    MaxQueueSize = 3
    MaxLeaks = 2
SPECIFICATION FairSpec
INVARIANTS
    SlotsConserved
    QueuedAccounted
PROPERTY WaitsEnd
