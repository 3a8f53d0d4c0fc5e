\* Three messages, two of them over the WebSocket: a proposal, its answer
\* and one more, one after the other or overlapping, with cancels and clients
\* that leave.
SPECIFICATION ConversationSpec
CONSTANTS
    Messages = 3
    WebSocket = {1, 3}
    None = None
    MaxRefinements = 1
INVARIANTS CancelIsExact QuestionIsTheLast HookIsRestored
PROPERTIES FixedOnce StreamsEnd
CHECK_DEADLOCK FALSE
