\* One encrypted plugin, mounted through the bridge at the start, is revoked
\* and can still be reached.
SPECIFICATION Spec
CONSTANTS
    Plugin = {p1}
    Encrypted = {p1}
    Request = {q1}
    Push = {h1}
    Watchdog = Watchdog
    Expiry = Expiry
    None = None
    MaxWrites = 1
INVARIANT RevokedIsUnreachable
CHECK_DEADLOCK FALSE
