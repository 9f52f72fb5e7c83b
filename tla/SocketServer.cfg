SPECIFICATION MCSpec
CONSTANTS
    s1 = s1
    s2 = s2
    Senders = {s1, s2}
    MAX_SOCKET = 1
    MaxId = 2
    Opens = {"O"}
    Budgets <- MCBudgets
    PipeSize = 2
    MsgSize = 2
    Room = 2
    Free = Free
INVARIANT SocketInv StreamIntact
PROPERTY Promised Flushes ClosesWhenFlushed
CHECK_DEADLOCK FALSE
