\* Numbers of five bits in bytes that hold two: like 32 bits and 7, the third
\* and last byte of the longest number has fewer bits left than 2; files of up
\* to four such bytes, on pages of two.  One IPv4 address, one IPv6 one that is as long
\* as fits in brackets, and bytes of two values.  Three generated numbers, up to five old ones that may
\* be out of order.  Longer inputs than two buffers, and one call more than
\* characters and ends.  Five calls of a vector's functions: one fills it, one
\* makes it grow, one clears it, and two come after that.  Words of four
\* bits, and strings of up to three characters of two.
CONSTANTS
    x = x
    y = y
    None = none
    Junk = junk
    Modulus = 3
    References = {x}
    Kinds = {"mul"}
    MaxInputs = 1
    MaxPairwise = 2
    Period = 2
    Group = 2
    Width = 5
    PageSize = 2
    MaxBytes = 4
    V4 = {a4}
    V6 = {a6}
    Long = {a6}
    Other = {text}
    Byte = 2
    Count = 3
    Base = 2
    Old = {1, 4, 13}
    MaxOld = 5
    Garbage = {6}
    Half = 2
    BufSize = 2
    MaxInput = 5
    MaxCalls = 8
    Element = {e1, e2}
    Capacities = {0, 1, 2}
    MaxVectorCalls = 5
    HalfWord = 8
    Letter = {1, 2}
    MaxLen = 3
SPECIFICATION AnySpec
INVARIANTS
    DerivativeIsRight
    CachesAreRight
    NumbersPrinted
    SamplesRight
PROPERTIES
    AddressesKept
    FilesRead
CHECK_DEADLOCK FALSE
