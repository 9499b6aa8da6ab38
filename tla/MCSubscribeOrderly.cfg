\* The broker answers in time and the application waits for it.
CONSTANTS
    Topics = {a, b, c}
    Wildcards = {}
    MaxHandles = 3
    MaxWaiting = 2
    MaxCalls = 6
    Mishaps = {}
    Nacks <- UnsignedChar
    a = a
    b = b
    c = c
    w = w
SYMMETRY Filters
SPECIFICATION Spec
INVARIANTS
    MemoryIsOwned
    GrantedHasOneHandle
CHECK_DEADLOCK FALSE
