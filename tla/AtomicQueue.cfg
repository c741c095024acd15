\* Three cells, capacity two, and requests of up to one byte more than the
\* memory; two byte values tell positions apart.
CONSTANTS
    HeaderSize = 24
    BufferSize = 27
    MaxRequest = 4
    Byte = {b1, b2}
SPECIFICATION Spec
INVARIANTS
    NoOverlap
    OneCellFree
PROPERTIES
    ImplementsFifo
