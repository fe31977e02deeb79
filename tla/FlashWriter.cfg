CONSTANTS
    Page <- MCPage
    First = 0
    Data <- MCData
    Blank = "blank"
    Damaged = "damaged"
    Worn <- MCWorn
    Bit6 <- MCBit6
    Pages = 2
    MaxFiles = 2
    Image <- MCImage
    Zero = "zero"
    Pattern = "pattern"
SPECIFICATION FairSpec
INVARIANTS
    ReadyBetweenCalls
    WrittenOrReported
    NoFalseAlarm
    NothingLeftOver
PROPERTIES
    WriteReturns
CHECK_DEADLOCK FALSE
