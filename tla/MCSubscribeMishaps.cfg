\* Late, lost and refused answers, packets that cannot be sent, full tables.
CONSTANTS
    Topics = {a, b, w}
    Wildcards = {w}
    MaxHandles = 2
    MaxWaiting = 2
    MaxCalls = 5
    Mishaps = {"slow", "nack", "sendfail", "impatient", "full"}
    Nacks <- AnyChar
    a = a
    b = b
    c = c
    w = w
SYMMETRY Filters
SPECIFICATION Spec
INVARIANTS
    AcceptedIsAnswered
    
CHECK_DEADLOCK FALSE
