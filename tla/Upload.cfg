CONSTANTS
    Byte <- MCByte
    ShortLen = 1
    LongLen = 2
    SeqMod = 3
    LineCap = 4
    Source <- MCSource
    SendSize = 11
    Pad = 9
    MaxTries = 3
    Stale = 2
    Lines <- MCLines
SPECIFICATION FairSpec
INVARIANTS
    UploadIsWhole
    ZeroMeansNothingSent
    CountsAgree
PROPERTIES
    ReturnsOrRepeatsHeader
    EventuallyUploaded
CHECK_DEADLOCK FALSE
