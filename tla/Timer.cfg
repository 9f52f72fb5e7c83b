SPECIFICATION FairSpec
CONSTANTS
    Nodes = {n1, n2}
    Near = 2
    Level = 2
    MaxDelay = 10
    MaxDiff = 2
    Free = Free
    NoNode = NoNode
INVARIANT WheelInv
PROPERTY ImplementsCalendar EventuallyFires
