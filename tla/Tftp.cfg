CONSTANTS
    Host = {S, P, Q}
    Server = S
    MaxCache = 2
    RingCap = 2
    Tid = {1, 2}
    Blocks = 2
    MaxResends = 1
    MaxRequests = 2
    Networks <- MCNetworks
SPECIFICATION FairSpec
INVARIANTS
    LoadedIsPrefix
    SuccessIsWhole
    ContextComesBack
    ServedIsLoaded
PROPERTIES
    GetReturns
    FileArrives
