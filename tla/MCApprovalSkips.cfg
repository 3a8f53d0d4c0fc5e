CONSTANTS
    start = start
    route = route
    review = review
    draft = draft
    edit = edit
    confirm = confirm
    stage = stage
    publish = publish
    undo = undo
    tell = tell
    note = note
    end = end
    Adjacent = FALSE
    Execution = {e1, e2}
    Node <- MCNode
    Edge <- MCEdge
    Start = start
    Task <- MCTask
    Router = {route}
    Yes <- MCYes
    No <- MCNo
    NoNode = NoNode
    NoOne = NoOne
    MaxRestarts = 1
SPECIFICATION Spec
INVARIANT ApprovedWorkIsDone
CHECK_DEADLOCK FALSE
