\* Two threads restart the same dead server.
SPECIFICATION Spec
CONSTANTS
    t1 = t1
    t2 = t2
    Thread = {t1, t2}
    None = None
    MaxCrashes = 1
    MaxRetries = 1
    MaxRestarts = 3
CHECK_DEADLOCK FALSE
INVARIANT OneProcess
