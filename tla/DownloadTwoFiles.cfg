CONSTANTS
    Byte <- MCByte
    ShortLen = 1
    LongLen = 2
    SeqMod = 2
    LineCap = 4
    BufLen = 4
    MaxErrors = 5
    Zero = 0
    Canary = 99
    Files <- TwoFiles
    Pad = 9
    TailLen = 2
    MaxRetries = 2
    Lines <- NoisyLine
    Strangers <- MCStrangers
SPECIFICATION Spec
INVARIANTS
    ReceivedIsWhole
CHECK_DEADLOCK FALSE
