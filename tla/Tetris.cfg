CONSTANTS
    Width = 4
    Height = 3
    CanaryRow <- MCCanary
    IntroFrames = 0
    DropFrames = 4
    MoveFrames = 1
SPECIFICATION FairSpec
INVARIANTS
    PieceOnField
PROPERTIES
    FramesAsPromised
    LinesComeDown
    PieceComesToRest
