SPECIFICATION FairMonitorSpec
CONSTANTS
    Workers = {w1, w2}
    Others = {main}
    HandlerThreads = {main}
    MaxPosts = 3
    Nobody = Nobody
INVARIANT MonitorInv
PROPERTY WorkIsTaken ShutdownCompletes
CHECK_DEADLOCK FALSE
