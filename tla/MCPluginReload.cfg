\* A push, the watchdog and the expiry check reload beside each other; two
\* requests of a plain and an encrypted plugin; three changes of the file:
\* revoke, allow again, revoke again.
SPECIFICATION Spec
CONSTANTS
    Plugin = {p1, p2}
    Encrypted = {p2}
    Request = {q1, q2}
    Push = {h1}
    Watchdog = Watchdog
    Expiry = Expiry
    None = None
    MaxWrites = 3
INVARIANTS RevokedIsUnmounted CountExact
PROPERTIES UnmountsQuietly RefusalsEnd
CHECK_DEADLOCK FALSE
