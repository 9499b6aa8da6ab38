\* A build with MULTITHREAD_ENABLED: two threads publish, one yields and publishes.
CONSTANTS
    Y = y
    None = none
    t1 = t1
    t2 = t2
    Threads = {t1, t2}
    MaxPacketId = 2
    MaxRepub = 2
    MaxPubs = 2
    RepublishOn = {"success"}
SPECIFICATION FairSpec
CHECK_DEADLOCK FALSE
INVARIANTS
    SentOwnPacket
    WaitListIsExact
PROPERTY
    KeepsPromise
    PublishReturns
