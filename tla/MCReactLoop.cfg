\* Four actions are enough for two failing batches of two tasks (the second
\* one reaches the rung of DECOMPOSE and leaves a checkpoint), a success that
\* resets the depth, and the failures that lead to a rollback.
CONSTANTS
    MaxActions = 4
    MaxRetries = 1
    Prior = {0, 2}
    Chosen = {"skip", "decompose", "escalate", "rollback"}
    Width = 2
    NoCheckpoint = NoCheckpoint
SPECIFICATION Spec
INVARIANT CheckpointsAreBehind
PROPERTIES StopsEnd
CHECK_DEADLOCK FALSE
