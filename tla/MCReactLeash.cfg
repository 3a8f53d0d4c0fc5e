\* The bounds of MCReactLoop.cfg, for the documented limit of the leash.
CONSTANTS
    MaxActions = 4
    MaxRetries = 1
    Prior = {0, 2}
    Chosen = {"skip", "decompose", "escalate", "rollback"}
    Width = 2
    NoCheckpoint = NoCheckpoint
SPECIFICATION Spec
INVARIANT LeashHolds
CHECK_DEADLOCK FALSE
