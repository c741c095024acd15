\* 1, a prime, squares and numbers with one pair and with two, in any order: the
\* two pairs overflow the array of two, inside the page of four.  The number goes
\* around the ring once and a half.  The command of
\* run fills the pipe of four bytes twice; one read takes up to three, so reads
\* come short, and the first buffer of three doubles twice.  The input
\* of pipe-send fills its pipe twice.  A chain of six numbers, and five lines that
\* getline reads three at a time.  Three numbers of two values in the shared word:
\* one can come back.
CONSTANTS
    THREADS = 3
    MAX_RESPONSES = 2
    PAGE_RESPONSES = 4
    Value = {1, 7, 12, 16, 25}
    MaxRequests = 2
    RingSize = 4
    RingLimit = 6
    OutputLen = 9
    CapturePipeSize = 4
    ReadSize = 3
    FirstSize = 3
    InputLen = 5
    BufSize = 3
    SendPipeSize = 2
    N = 6
    Lines = 5
    Batch = 3
    MaxSteps = 4
    Number = {1, 2}
    MaxNumbers = 3
SPECIFICATION AnyFairSpec
INVARIANTS
    Safety
    AnswerComplete
    RingSafety
    CaptureSafety
    CopySafety
    CommandsSafety
PROPERTIES
    ProgramsEnd
CHECK_DEADLOCK FALSE
