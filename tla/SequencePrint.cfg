\* More numbers than children, so that the turns wrap around.
CONSTANTS
    CHILDREN_COUNT = 4
    LIMIT = 5
    ForkMayFail = TRUE
SPECIFICATION FairSpec
INVARIANTS
    Safety
PROPERTIES
    FinishesOrMisses
CHECK_DEADLOCK FALSE
