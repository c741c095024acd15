\* Four pushes at the same time; no symmetry, because liveness is checked.
\* When every node is pushed, the program stops.
CONSTANTS
    Node = {n1, n2, n3, n4}
    NULL = NULL
SPECIFICATION FairSpec
INVARIANTS
    IInv
PROPERTIES
    PublishedLinksStand
    ImplementsStack
    EveryPushLands
CHECK_DEADLOCK FALSE
