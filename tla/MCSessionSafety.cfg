\* Reconnection by the client (three doublings of the first interval) or by the
\* application, a broker that may refuse, a link that may fail at any moment.
CONSTANTS
    KeepAlive = 3
    CommandTimeout = 1
    YieldTimeout = 1
    MaxAway = 1
    Waits = {1, 2}
    MaxWait = 4
    Modes = {"auto", "manual"}
    Tls = TRUE
    Refusals = {5}
    Unreadable = TRUE
    Topics = {a}
    MaxSockets = 2
    a = a
    b = b
SPECIFICATION Spec
INVARIANTS
    NoSocketLeft
    LossIsAnnounced
    ReconnectedIsReady
    SilenceBounded
    BackoffGrows
PROPERTY SessionAsPromised
