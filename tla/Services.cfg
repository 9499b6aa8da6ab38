SPECIFICATION Spec
CONSTANTS
    Programs = {{"IOT_FileManage_Init", "IOT_Sys_SyncNTPTime"},
                {"IOT_Sys_GetTime", "IOT_Sys_SyncNTPTime"},
                {"IOT_Broadcast_Init", "IOT_OTA_Init"},
                {"IOT_DataTemplate_Init"}}
    MaxContexts = 4
    MaxMessages = 1
    MaxLosses = 1
    MaxTime = 5
    CommandYields = 1
    WaitYields = 2
    MaxDelay = 2
    Drifts = {9}
INVARIANTS
    ServicesAreReached
    ContextsAreOwned
    ClockIsClose
CHECK_DEADLOCK FALSE
