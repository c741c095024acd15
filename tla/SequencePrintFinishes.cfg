\* Two children are enough for a signal to be missed.
CONSTANTS
    CHILDREN_COUNT = 2
    LIMIT = 2
    ForkMayFail = FALSE
SPECIFICATION FairSpec
PROPERTIES
    Finishes
CHECK_DEADLOCK FALSE
