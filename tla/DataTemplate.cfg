SPECIFICATION Spec
CONSTANTS
    MaxMessages = 2
    MaxNames = 1
    MaxSets = 1
    MaxBreaks = 1
INVARIANTS
    ReportedAgrees
    ActionInputsAreNew
CHECK_DEADLOCK FALSE
