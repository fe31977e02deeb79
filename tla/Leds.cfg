CONSTANTS
    UslLeds = 4
    Cpus = {c1, c2}
    UserDisk = {0, 1}
SPECIFICATION Spec
INVARIANTS
    LedsShowWhatWasSet
    NoLedIsLeftBehind
