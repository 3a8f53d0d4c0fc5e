CONSTANTS
    a = a
    b = b
    c = c
    Step = {a, b, c}
    Plan <- MCPlan
    ReplanLimits = {0, 3}
    MaxRounds = 2
SPECIFICATION FairSpec
INVARIANTS
    DependenciesFirst
    InputsComplete
    SuccessIsEarned
PROPERTIES
    GoalEnds
CHECK_DEADLOCK FALSE
