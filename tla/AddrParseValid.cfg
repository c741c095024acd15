\* One address of each family, ports at and around the limits of four values:
\* from -1 to one past the largest.
CONSTANTS
    V4 = {a4}
    V6 = {a6}
    Long = {}
    Other = {text}
    Byte = 2
    Numbers <- PortsAndBeyond
    None = none
SPECIFICATION Spec
INVARIANTS
    ValidIsParsed
CHECK_DEADLOCK FALSE
