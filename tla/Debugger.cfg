CONSTANTS
    Addr = {1, 2, 3, 4}
    Rom = {4}
    Code <- MCCode
    Slot = {1, 2}
    Program <- MCProgram
    Patches <- MCPatches
    BREAK = BREAK
    Nowhere = Nowhere
    Monitor = Monitor
SPECIFICATION FairSpec
INVARIANTS
    CodeIntact
    BreakpointsArmed
    StepRunsOne
PROPERTIES
    PromptReturns
