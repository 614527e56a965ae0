SPECIFICATION FairSpec
CONSTANTS
    a = a
    b = b
    Clients = {a, b}
    RawNames = {"p_q", "p/q"}
    Names = {"p_q"}
    SafeName <- MCSafeName
    Blocks = 2
    FdLimit = 3
    MaxRequests = 3
    MaxFaults = 1
CHECK_DEADLOCK FALSE
INVARIANT TypeOK
INVARIANT ReadsOneUpload
INVARIANT AnsweredIsStored
PROPERTY ClientsAreServed
