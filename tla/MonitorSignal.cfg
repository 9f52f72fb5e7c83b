SPECIFICATION FairMonitorSpec
CONSTANTS
    Workers = {w1, w2}
    Others = {main}
    HandlerThreads = {main, w1, w2}
    MaxPosts = 1
    Nobody = Nobody
PROPERTY ShutdownCompletes
CHECK_DEADLOCK FALSE
