\* An answer comes late.
CONSTANTS
    Topics = {a}
    Wildcards = {}
    MaxHandles = 2
    MaxWaiting = 2
    MaxCalls = 2
    Mishaps = {"slow"}
    Nacks <- UnsignedChar
    a = a
    b = b
    c = c
    w = w
SPECIFICATION Spec
INVARIANTS
    HandlesValid
CHECK_DEADLOCK FALSE
