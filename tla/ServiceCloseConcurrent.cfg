SPECIFICATION FairSpec
CONSTANTS
    Ctxs = {c1, c2}
    ConcurrentCtxs = {c1}
    Handles = {h1}
    Workers = {w1}
    Senders = {}
    Closers = {}
    MaxMsgs = 1
    Null = Null
INVARIANT QueueIsCtxs
CHECK_DEADLOCK FALSE
