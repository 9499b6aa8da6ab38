\* A build without MULTITHREAD_ENABLED: one thread, which publishes between
\* two calls of yield and from the callbacks of both events.
CONSTANTS
    Y = y
    None = none
    Threads = {}
    t1 = t1
    t2 = t2
    MaxPacketId = 3
    MaxRepub = 2
    MaxPubs = 3
    RepublishOn = {"success", "timeout"}
SPECIFICATION FairSpec
INVARIANTS
    TypeOK
    IteratorInList
    EventsAreTrue
    RemovesListedNode
PROPERTIES
    AcceptedIsResolved
