CONSTANTS
    Block <- MCBlock
    b1 = b1
    b2 = b2
    BlockLen = 2
SPECIFICATION IntelFairSpec
INVARIANTS
    ReportsAgree
    ReadableBetweenCalls
PROPERTIES
    Returns
