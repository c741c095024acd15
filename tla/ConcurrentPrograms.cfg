\* Six acquires and three releases by four threads, two permits at first.
\* Four rounds: enough for one store to undo several of the other thread's; two
\* in thread_local, which counts apart.  Three threads with a Container: one has
\* the value, one wakes up and one comes in.  A file of up to three bytes is
\* changed up to three times.  Three builds in three seconds and four updates:
\* two builds can fall in one second and two updates between two builds.
CONSTANTS
    main = main
    th = th
    a1 = a1
    r1 = r1
    Caller = {main, th, a1, r1}
    NoCaller = nocaller
    Permits = 2
    CallsOf <- Crowd
    None = none
    Rounds = 4
    LocalRounds = 2
    User = {u1, u2, u3}
    NoUser = nouser
    MaxSize = 3
    MaxWrites = 3
    MaxVersion = 3
    MaxTime = 2
    MaxUpdates = 4
SPECIFICATION AnyFairSpec
INVARIANTS
    NoLostWakeup
    NothingLost
    RaceLosesNotAll
    HandOverSafety
    ReadSafety
PROPERTIES
    ReloadKeepsOld
    AllEnd
CHECK_DEADLOCK FALSE
