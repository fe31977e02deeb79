CONSTANTS
    Byte <- MCByte
    ShortLen = 1
    LongLen = 2
    SeqMod = 2
    LineCap = 3
    BufLen = 6
    MaxErrors = 3
    Zero = 0
    Canary = 99
    Files <- OneFile
    Pad = 9
    TailLen = 2
    MaxRetries = 2
    Lines <- MCLines
    Strangers <- MCStrangers
SPECIFICATION FairSpec
INVARIANTS
    CanaryIntact
    ReportedSizeFits
PROPERTIES
    DeliversTheFiles
    EventuallyReceived
    GivesUpMidFile
CHECK_DEADLOCK FALSE
