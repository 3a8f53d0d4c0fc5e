CONSTANTS
    e1 = e1
    e2 = e2
    w1 = w1
    pa = pa
    pb = pb
    Request = {e1, e2, w1}
    Kind <- MCKind
    Chain <- MCChain
    Cancellable = {e1}
    MaxConcurrent = 1
    MonitorKeys = {pa}
    NoOne = NoOne
    NoKey = NoKey
    Server = {pa, pb}
    FailureThreshold = 1
    SuccessThreshold = 2
    ResetTimeout = 1
    SlidingWindow = 2
    BootTimes = {0}
    MaxTime = 1
SPECIFICATION Spec
PROPERTY OpenIsSkipped
