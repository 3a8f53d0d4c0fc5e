\* The servers of a breaker do not influence one another, so one is enough; the
\* window is longer than the reset timeout, as in the defaults (120 s, 60 s),
\* and the clock starts at zero or late enough for the initial last_failure_time
\* of 0.0 to be long ago.
CONSTANTS
    Server = {s1}
    FailureThreshold = 3
    SuccessThreshold = 2
    ResetTimeout = 2
    SlidingWindow = 3
    BootTimes = {0, 3}
    MaxTime = 7
SPECIFICATION HSpec
INVARIANTS
    WindowExact
    ProbesAreConsecutive
PROPERTIES
    OpensAtThreshold
    OpenOutlastsFailures
