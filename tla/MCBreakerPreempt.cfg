CONSTANTS
    Server = {s1}
    FailureThreshold = 2
    SuccessThreshold = 2
    ResetTimeout = 2
    SlidingWindow = 3
    BootTimes = {0, 3}
    MaxTime = 8
SPECIFICATION HSpec
PROPERTY OpenRejectsForTimeout
