\* The plugin manager writes the file and nobody calls the internal API: a
\* second change within the debounce window of the first is dropped.
SPECIFICATION Spec
CONSTANTS
    Plugin = {p1}
    Encrypted = {}
    Request = {q1}
    Push = {}
    Watchdog = Watchdog
    Expiry = Expiry
    None = None
    MaxWrites = 2
INVARIANT FileIsFollowed
CHECK_DEADLOCK FALSE
