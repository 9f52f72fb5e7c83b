SPECIFICATION FairSpec
CONSTANTS
    Ctxs = {c1, c2}
    ConcurrentCtxs = {c2}
    Handles = {h1}
    Workers = {w1, w2}
    Senders = {t1}
    Closers = {k1}
    MaxMsgs = 1
    Null = Null
INVARIANT TypeOK NoUseAfterRelease PlacedOnce NothingDropped
PROPERTY CloseEnds
CHECK_DEADLOCK FALSE
