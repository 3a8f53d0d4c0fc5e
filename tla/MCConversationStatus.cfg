\* The client leaves, and the status says that nothing streams while its
\* orchestration runs on.
SPECIFICATION ConversationSpec
CONSTANTS
    Messages = 3
    WebSocket = {1, 3}
    None = None
    MaxRefinements = 1
INVARIANT StatusIsTrue
CHECK_DEADLOCK FALSE
