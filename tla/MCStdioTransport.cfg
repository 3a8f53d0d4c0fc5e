\* Two threads, one method each, one crash of the server process.
SPECIFICATION Spec
CONSTANTS
    t1 = t1
    t2 = t2
    Thread = {t1, t2}
    None = None
    MaxCrashes = 1
    MaxRetries = 1
    MaxRestarts = 1
CHECK_DEADLOCK FALSE
INVARIANT RestartsBounded
PROPERTIES Calls MethodsEnd
