SPECIFICATION BusSpec
CONSTANTS
    Addresses = {a1, a2}
    Words = {w1, w2}
    ResetCycles = 100
    Patience = 10
INVARIANTS
    OneAccess
