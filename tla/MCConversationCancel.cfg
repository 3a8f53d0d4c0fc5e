\* Of two requests that overlap the first to end takes the event of both, and
\* the other cannot be cancelled.
SPECIFICATION ConversationSpec
CONSTANTS
    Messages = 3
    WebSocket = {1, 3}
    None = None
    MaxRefinements = 1
INVARIANT CancelFindsRun
CHECK_DEADLOCK FALSE
