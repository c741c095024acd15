\* Three clients, one more than the server has descriptors for; words longer
\* than one recv takes.
CONSTANTS
    Client = {c1, c2, c3}
    None = none
    FdLimit = 2
    ProcessLimit = 3
    Greeting = 1
    WordSize = 3
    BufSize = 2
    MaxSent <- Sends
    c1 = c1
    c2 = c2
    c3 = c3
SPECIFICATION FairSpec
INVARIANTS
    Safety
PROPERTIES
    Answered
    ServedAndGone
CHECK_DEADLOCK FALSE
