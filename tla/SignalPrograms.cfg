\* Two signals, as in sigreader/main.c: one can overwrite the other and one of a
\* kind can be lost; any number of them is sent, and any number of calls is made.
\* An even last number: child 2 prints last, and the
\* process ids are none of the numbers.  Four signals to a printer: one in
\* its handler, one pending, one lost, one for the end.  The values of the code in
\* primitives, but for the two limits; the numbers of run_epoll fit the pipe or
\* do not.
CONSTANTS
    LastSignal = 2
    NoSignal = 0
    LastNumber = 6
    Pid1 = 7
    Pid2 = 8
    MaxSends = 4
    Initial = 2
    Added = 3
    Reads = 10
    Slept = 4
    Items = 4
    Rooms = {3, 8}
    Opens = 6
    Limits = {4, 7}
    MaxTicks = 15
SPECIFICATION AnyFairSpec
INVARIANTS
    Safety
    TurnsSafety
    ReportsKept
PROPERTIES
    FoundIsKept
    SafeWhileAcquired
    ReadReturns
    SignalsEnd
CHECK_DEADLOCK FALSE
