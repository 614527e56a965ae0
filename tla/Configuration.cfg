SPECIFICATION Spec
CONSTANTS
    Plain = {"a", "a2", "default"}
    Default = "default"
    Dotted = {"a.x"}
    Parent <- MCParent
    Numbered <- MCNumbered
    MaxRequests = 4
    MaxFaults = 2
CHECK_DEADLOCK FALSE
INVARIANT TypeOK
INVARIANT DefaultIsPrinter
PROPERTY RestartRestores
PROPERTY CredentialsKept
