\* The depth counts failures that a success in the same batch interrupts.
CONSTANTS
    MaxActions = 4
    MaxRetries = 1
    Prior = {0, 2}
    Chosen = {"skip", "decompose", "escalate", "rollback"}
    Width = 2
    NoCheckpoint = NoCheckpoint
SPECIFICATION Spec
CHECK_DEADLOCK FALSE
INVARIANT DepthIsConsecutive
