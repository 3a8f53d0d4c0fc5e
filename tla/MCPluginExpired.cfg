\* The list that was loaded expires, the expiry check reloads, and the plugins
\* stay.
SPECIFICATION Spec
CONSTANTS
    Plugin = {p1}
    Encrypted = {}
    Request = {q1}
    Push = {}
    Watchdog = Watchdog
    Expiry = Expiry
    None = None
    MaxWrites = 1
INVARIANT RejectedIsDrained
CHECK_DEADLOCK FALSE
