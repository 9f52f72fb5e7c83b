SPECIFICATION FairGateSpec
CONSTANTS
    Ids = {1, 2, 5, 9}
    Clients <- MCClients
    Cap = 3
    MinHash = 2
    HeadSize = 2
    BUFFER_MAX = 6
    MaxMail = 2
INVARIANT GateInv Sessions Framed
PROPERTY Disconnects
CHECK_DEADLOCK FALSE
