CONSTANTS
    n1 = n1
    n2 = n2
    Exec = {e1, e2}
    Request = {r1}
    Node <- MCNode
    Graph <- MCGraph
    Settable <- MCSettable
    RequireApproval = FALSE
    Nobody = Nobody
    System = System
    Keep = Keep
    MaxFaults = 1
SPECIFICATION SavedSpec
SYMMETRY MCSymmetry
INVARIANTS
    CompletedHasItsRecord
CHECK_DEADLOCK FALSE
