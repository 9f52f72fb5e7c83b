SPECIFICATION FairSpec
CONSTANTS
    Services = {s1, s2}
    ConcurrentServices = {s2}
    Workers = {w1, w2}
    Threads = {timer}
    MaxSent = 2
    NoService = NoService
    NoMsg = NoMsg
INVARIANT DispatchInv Exclusive NotStranded SourceOrder
PROPERTY EventuallyHandled ImplementsActors
CHECK_DEADLOCK FALSE
