\* Every outage ends.
CONSTANTS
    KeepAlive = 3
    CommandTimeout = 1
    YieldTimeout = 1
    MaxAway = 0
    Waits = {1}
    MaxWait = 2
    Modes = {"auto"}
    Tls = TRUE
    Refusals = {}
    Unreadable = FALSE
    Topics = {a}
    MaxSockets = 2
    a = a
    b = b
SPECIFICATION FairSpec
PROPERTIES
    OutageEnds
    GiveUpIsJustified
